------------------------------ MODULE LineSession ------------------------------
(***************************************************************************)
(* The command sessions of the threaded server, "ALTE ABGABE/srv/server.c",*)
(* with its own client, "ALTE ABGABE/cli/client.c".  A client is a parent  *)
(* that sends what the user types and a forked child that copies the       *)
(* socket to the terminal; the server has one worker thread for each       *)
(* client, and all workers share descriptors 1 and 2, the working          *)
(* directory, strtok()'s position, stdout's buffer, PORT + 1 and the slot  *)
(* of the wall message.  How workers start, are counted and end the        *)
(* process is in WorkerServer.                                             *)
(*                                                                         *)
(* A stream is a sequence of words, blanks and newlines; words without a   *)
(* blank between them are one token.  Lines fit into BUFSIZE, programs     *)
(* end, and files are small enough for stdio to write them on fclose().    *)
(***************************************************************************)
EXTENDS Integers, Sequences, SequencesExt

CONSTANTS
    Clients,
    Words,        \* all there may be in a line or a file but blanks and newlines
    Scripts,      \* what the users may type: a sequence of lines for each client
    FileOf,       \* for each client: the contents of the file it can put
    Size,         \* "%i" of the length of each such file
    Programs,     \* names execvp() finds
    MaxClock      \* bound on the values of clock()

SP == " "
NL == "\n"
None == "none"

Symbols == Words \cup {SP, NL}
Sizes == {Len(FileOf[c]) : c \in Clients}

\* The client itself answers an empty line, and get and put without a name.
ASSUME SessionAssumption ==
    /\ None \notin Clients /\ MaxClock \in Nat
    /\ {"get", "put", "exit"} \subseteq Words /\ SP \notin Words /\ NL \notin Words
    /\ \A c \in Clients : FileOf[c] \in Seq(Symbols)
    /\ \A n \in Sizes : Size[n] \in Words /\ \A k \in Sizes \ {n} : Size[n] # Size[k]
    /\ \A t \in Scripts, c \in Clients :
         /\ t[c] \in Seq(Seq(Words))
         /\ \A i \in DOMAIN t[c] :
              t[c][i] # <<>> /\ (t[c][i][1] \in {"get", "put"} => Len(t[c][i]) > 1)

VARIABLES
    client,       \* parent and child process of each client
    up,           \* what is on its way to the server
    shown,        \* what the child printed
    worker,       \* each client's worker thread
    shared,       \* what the workers share without a lock
    wall,         \* the wall message: lock, text, time stamp, and the clock
    stored        \* the file on the server: its name is "f"

vars == <<client, up, shown, worker, shared, wall, stored>>
client_side == <<client, up, shown>>

\* A message is the number of its wall command, its text has two halves.
\* History: is nothing unterminated on its way (fresh), has the user typed exit
\* (exited), was a wall message written while the worker looked (raced), were
\* two workers inside a command at once (overlap)?
Init ==
    /\ \E todo \in Scripts :
         client = [c \in Clients |->
           [parent |-> "prompt", child |-> "reads", todo |-> todo[c], fresh |-> TRUE,
            exited |-> FALSE]]
    /\ up = [c \in Clients |-> <<>>]
    /\ shown = [c \in Clients |-> <<>>]
    /\ worker = [c \in Clients |->
         [at |-> "top", done |-> FALSE, line |-> <<>>, args |-> <<>>,
          got |-> <<>>, last |-> 0, raced |-> FALSE]]
    /\ shared = [alive |-> TRUE, out |-> None, scan |-> <<>>, held |-> {},
                 cwd |-> <<>>, port |-> FALSE, overlap |-> FALSE]
    /\ wall = [lock |-> None, text |-> <<0, 0>>, stamp |-> 0, clock |-> 0,
               count |-> 0]
    /\ stored = <<>>

-----------------------------------------------------------------------------
(* The client *)

\* Has every process with the socket open gone?
Closed(c) == client[c].parent = "gone" /\ client[c].child = "gone"

\* A server that is gone reads nothing; SIGPIPE is ignored.
Send(c, symbols) ==
    up' = [up EXCEPT ![c] = IF shared.alive THEN @ \o symbols ELSE @]

\* read_line() and split_line(): the user's next line, as tokens.
Types(c, a) ==
    /\ client[c].parent = "prompt"
    /\ client[c].todo # <<>>
    /\ a = Head(client[c].todo)

\* launch(): each token and a blank (`argcount - i >= 0' always holds), and
\* no newline.
ClientLaunch(c, a) ==
    /\ Types(c, a)
    /\ a[1] \notin {"get", "put", "exit"}
    /\ Send(c, [k \in 1..2 * Len(a) |-> IF k % 2 = 1 THEN a[(k + 1) \div 2] ELSE SP])
    /\ client' = [client EXCEPT ![c].todo = Tail(@), ![c].fresh = FALSE]
    /\ UNCHANGED <<shown, worker, shared, wall, stored>>

\* client_put(): "put name size\r\n" and the bytes of the file.
ClientPut(c, a) ==
    /\ Types(c, a)
    /\ a[1] = "put"
    /\ Send(c, <<"put", SP, a[2], SP, Size[Len(FileOf[c])], NL>> \o FileOf[c])
    /\ client' = [client EXCEPT ![c].todo = Tail(@), ![c].fresh = @ \/ Last(<<NL>> \o FileOf[c]) = NL]
    /\ UNCHANGED <<shown, worker, shared, wall, stored>>

\* The file is missing: fseek(NULL).  The child keeps the socket open.
ClientPutFaults(c, a) ==
    /\ Types(c, a)
    /\ a[1] = "put"
    /\ client' = [client EXCEPT ![c].parent = "gone"]
    /\ UNCHANGED <<up, shown, worker, shared, wall, stored>>

\* client_get(): "get" and the name without a blank, then connect() to
\* PORT + 1: refused, exit(1); or, when a worker listens, a loop without end,
\* while that worker writes to the listening socket and SIGPIPE ends the server.
ClientGet(c, a) ==
    /\ Types(c, a)
    /\ a[1] = "get"
    /\ Send(c, <<"get", a[2]>>)
    /\ client' = [client EXCEPT ![c].parent =
                    IF shared.alive /\ shared.port THEN "stuck" ELSE "gone",
                                ![c].fresh = FALSE]
    /\ shared' = [shared EXCEPT !.alive = @ /\ ~shared.port]
    /\ UNCHANGED <<shown, worker, wall, stored>>

\* Mutant of ClientExit: a blank follows, as after every other command.
ClientExitBlank(c, a) ==
    /\ Types(c, a)
    /\ a[1] = "exit"
    /\ Send(c, <<"exit", SP>>)
    /\ client' = [client EXCEPT ![c].parent = "gone", ![c].child = "gone", ![c].exited = TRUE]
    /\ UNCHANGED <<shown, worker, shared, wall, stored>>

\* shell_exit(): "exit" without newline, close(s); main: kill(0, SIGKILL).
ClientExit(c, a) ==
    /\ Types(c, a)
    /\ a[1] = "exit"
    /\ Send(c, <<"exit">>)
    /\ client' = [client EXCEPT ![c].parent = "gone", ![c].child = "gone", ![c].exited = TRUE]
    /\ UNCHANGED <<shown, worker, shared, wall, stored>>

\* Ctrl-C ends both processes.
ClientKilled(c) ==
    /\ ~Closed(c)
    /\ client' = [client EXCEPT ![c].parent = "gone", ![c].child = "gone"]
    /\ UNCHANGED <<up, shown, worker, shared, wall, stored>>

\* The child prints what arrives, polling without end, and nothing else.
Answer(c, a) ==
    shown' = [shown EXCEPT ![c] = IF client[c].child = "reads" THEN Append(@, a) ELSE @]

-----------------------------------------------------------------------------
(* The worker: wall message, line, redirection, tokens *)

At(w, place) == shared.alive /\ worker[w].at = place
Goes(w, place) == worker' = [worker EXCEPT ![w].at = place]

\* Every thread of the process is gone.
ServerDies ==
    /\ shared' = [shared EXCEPT !.alive = FALSE]
    /\ UNCHANGED <<client_side, worker, wall, stored>>

\* clock(): processor time, which may be the same at two calls.
Clock(t) == t \in wall.clock .. MaxClock /\ t <= wall.clock + 1

\* if (s->last_message_timestamp > last), without the lock.
WorkerTop(w) ==
    /\ At(w, "top")
    /\ worker' = [worker EXCEPT
         ![w].at = IF wall.stamp > worker[w].last THEN "show" ELSE "read",
         ![w].raced = @ \/ wall.lock # None]
    /\ UNCHANGED <<client_side, shared, wall, stored>>

\* fprintf() and fflush() of the text as it is now.
WorkerShow(w) ==
    /\ At(w, "show")
    /\ Answer(w, [kind |-> "wall", of |-> w, words |-> {}, text |-> wall.text])
    /\ Goes(w, "stamp")
    /\ UNCHANGED <<client, up, shared, wall, stored>>

\* A client that is gone may mean SIGPIPE.
WorkerShowDies(w) == At(w, "show") /\ Closed(w) /\ ServerDies

\* Mutant of WorkerStamp: `last' is not set.
WorkerStampsNot(w) ==
    /\ At(w, "stamp")
    /\ Goes(w, "read")
    /\ UNCHANGED <<client_side, shared, wall, stored>>

\* last = clock();
WorkerStamp(w) ==
    /\ At(w, "stamp")
    /\ \E t \in 0..MaxClock :
         /\ Clock(t)
         /\ wall' = [wall EXCEPT !.clock = t]
         /\ worker' = [worker EXCEPT ![w].at = "read", ![w].last = t]
    /\ UNCHANGED <<client_side, shared, stored>>

\* The length of the line fgets() returns: up to a newline, or what is left
\* before the end of the stream; 0 is NULL, that is, there is none.
LineLen(w) ==
    LET newlines == {i \in DOMAIN up[w] : up[w][i] = NL}
    IN IF newlines # {} THEN Min(newlines) ELSE IF Closed(w) THEN Len(up[w]) ELSE 0

WorkerReadLine(w) ==
    /\ At(w, "read")
    /\ LineLen(w) > 0
    /\ worker' = [worker EXCEPT ![w].at = "line",
                                ![w].line = SubSeq(up[w], 1, LineLen(w))]
    /\ up' = [up EXCEPT ![w] = SubSeq(@, LineLen(w) + 1, Len(@))]
    /\ UNCHANGED <<client, shown, shared, wall, stored>>

\* End of file: `continue' tests done, which is 0.
WorkerReadEof(w) ==
    /\ At(w, "read")
    /\ Closed(w) /\ up[w] = <<>>
    /\ Goes(w, "top")
    /\ UNCHANGED <<client_side, shared, wall, stored>>

\* Where a worker relies on descriptors 1 and 2 and on strtok() being its own.
Inside(v) == worker[v].at \in {"line", "split", "execute", "put", "wall", "half", "accept"}

\* Mutant of WorkerRedirect: only the first worker redirects.
WorkerRedirectOnce(w) ==
    /\ At(w, "line")
    /\ worker' = [worker EXCEPT ![w].at = "split", ![w].args = <<>>,
         ![w].done = worker[w].line \in {<<"exit">>, <<"shutdown">>}]
    /\ shared' = [shared EXCEPT !.out = IF @ = None THEN w ELSE @,
         !.overlap = @ \/ \E v \in Clients \ {w} : Inside(v)]
    /\ UNCHANGED <<client_side, wall, stored>>

\* dup2(write_fd, 1); dup2(write_fd, 2); is the line exactly "exit" (or
\* "shutdown", which this client always sends with a blank, and whose locked
\* section is in WorkerServer)?
WorkerRedirect(w) ==
    /\ At(w, "line")
    /\ worker' = [worker EXCEPT ![w].at = "split", ![w].args = <<>>,
         ![w].done = worker[w].line \in {<<"exit">>, <<"shutdown">>}]
    /\ shared' = [shared EXCEPT !.out = w,
         !.overlap = @ \/ \E v \in Clients \ {w} : Inside(v)]
    /\ UNCHANGED <<client_side, wall, stored>>

\* strtok(): blanks are passed over, a token ends before the next one (or the
\* newline), which it overwrites, and the rest begins after that.
Letters(s)  == {i \in DOMAIN s : s[i] \notin {SP, NL}}
TokenEnd(s) == Min({i \in Min(Letters(s)) + 1 .. Len(s) + 1 : i \notin Letters(s)})
Token(s)    == SubSeq(s, Min(Letters(s)), TokenEnd(s) - 1)
Rest(s)     == SubSeq(s, TokenEnd(s) + 1, Len(s))

\* One call of strtok(): with the line the first time, then with NULL, which
\* goes on wherever the last call of any worker stopped.
WorkerSplit(w) ==
    /\ At(w, "split")
    /\ LET s == IF worker[w].args = <<>> THEN worker[w].line ELSE shared.scan
           more == Letters(s) # {}
       IN /\ worker' = [worker EXCEPT
               ![w].at = IF more THEN "split" ELSE "execute",
               ![w].args = IF more THEN Append(@, Token(s)) ELSE @]
          /\ shared' = [shared EXCEPT !.scan = IF more THEN Rest(s) ELSE <<>>]
    /\ UNCHANGED <<client_side, wall, stored>>

-----------------------------------------------------------------------------
(* The worker: execute() and the echo *)

Command(w) == IF worker[w].args = <<>> THEN <<>> ELSE Head(worker[w].args)
Arg(w, i)  == worker[w].args[i]
Argc(w)    == Len(worker[w].args)
Executes(w, name) == At(w, "execute") /\ Command(w) = <<name>>

\* sleep(1); printf("%s", buf): the first word stays in stdout's buffer, as
\* it holds no newline.  Then the test of done.
Echo(w, sh) ==
    /\ worker' = [worker EXCEPT ![w].at = IF worker[w].done THEN "closed" ELSE "top",
                                ![w].args = <<>>, ![w].line = <<>>, ![w].got = <<>>]
    /\ shared' = [sh EXCEPT !.held = @ \cup {w}]

\* An empty line, or cd, with a directory that exists or does not.
WorkerCd(w) ==
    /\ At(w, "execute")
    /\ Command(w) \in {<<>>, <<"cd">>}
    /\ \E to \in {shared.cwd} \cup (IF Argc(w) > 1 THEN {Arg(w, 2)} ELSE {}) :
         Echo(w, [shared EXCEPT !.cwd = to])
    /\ UNCHANGED <<client_side, wall, stored>>

\* launch(): the program writes to descriptor 1 as it was at fork().  A child
\* that cannot execute flushes its copy of stdout's buffer there.
WorkerLaunch(w) ==
    /\ At(w, "execute")
    /\ Argc(w) > 0 /\ Command(w) \notin {<<"cd">>, <<"get">>, <<"put">>, <<"wall">>}
    /\ LET found == Command(w) \in {<<p>> : p \in Programs}
       IN Answer(shared.out,
            [kind |-> IF found THEN "output" ELSE "echo", of |-> w,
             words |-> IF found THEN {shared.cwd} ELSE shared.held, text |-> <<0, 0>>])
    /\ Echo(w, shared)
    /\ UNCHANGED <<client, up, wall, stored>>

\* server_put(): fopen() empties the file.
WorkerPutOpen(w) ==
    /\ Executes(w, "put")
    /\ Argc(w) >= 3
    /\ Goes(w, "put")
    /\ stored' = IF Arg(w, 2) = <<"f">> THEN <<>> ELSE stored
    /\ UNCHANGED <<client_side, shared, wall>>

\* Mutant of PutLength: the last byte is forgotten.
PutLengthShort(w) ==
    IF \E n \in Sizes : Arg(w, 3) = <<Size[n]>>
    THEN (CHOOSE n \in Sizes : Arg(w, 3) = <<Size[n]>>) - 1 ELSE 0

\* atoi(args[2])
PutLength(w) ==
    IF \E n \in Sizes : Arg(w, 3) = <<Size[n]>>
    THEN CHOOSE n \in Sizes : Arg(w, 3) = <<Size[n]>> ELSE 0

\* Mutant of WorkerPutReads: everything that has arrived is taken.
WorkerPutReadsAll(w) ==
    /\ At(w, "put")
    /\ Len(worker[w].got) < PutLength(w)
    /\ worker' = [worker EXCEPT ![w].got = @ \o up[w]]
    /\ up' = [up EXCEPT ![w] = <<>>]
    /\ UNCHANGED <<client, shown, shared, wall, stored>>

\* getc() and putc() of what has arrived; at the end of the stream the loop
\* waits for ever.
WorkerPutReads(w) ==
    /\ At(w, "put")
    /\ LET n == Min({PutLength(w) - Len(worker[w].got), Len(up[w])})
       IN /\ n > 0
          /\ worker' = [worker EXCEPT ![w].got = @ \o SubSeq(up[w], 1, n)]
          /\ up' = [up EXCEPT ![w] = SubSeq(@, n + 1, Len(@))]
    /\ UNCHANGED <<client, shown, shared, wall, stored>>

\* fclose() writes what was put, from the start of the file on.
WorkerPutClose(w) ==
    /\ At(w, "put")
    /\ Len(worker[w].got) = PutLength(w)
    /\ stored' = IF Arg(w, 2) # <<"f">> THEN stored
                 ELSE worker[w].got \o SubSeq(stored, PutLength(w) + 1, Len(stored))
    /\ Echo(w, shared)
    /\ UNCHANGED <<client_side, wall>>

\* server_wall(): the lock, and the first half of memcpy().
WorkerWallCopies(w) ==
    /\ Executes(w, "wall")
    /\ Argc(w) >= 2
    /\ wall.lock = None
    /\ wall' = [wall EXCEPT !.lock = w, !.count = @ + 1, !.text[1] = wall.count + 1]
    /\ worker' = [v \in Clients |->
         [worker[v] EXCEPT !.at = IF v = w THEN "half" ELSE @,
                           !.raced = @ \/ worker[v].at \in {"show", "stamp"}]]
    /\ UNCHANGED <<client_side, shared, stored>>

\* The second half.
WorkerWallCopied(w) ==
    /\ At(w, "half")
    /\ wall' = [wall EXCEPT !.text[2] = wall.count]
    /\ Goes(w, "wall")
    /\ UNCHANGED <<client_side, shared, stored>>

\* The time stamp, the broadcast (see WorkerServer) and the unlock.
WorkerWallStamps(w) ==
    /\ At(w, "wall")
    /\ \E t \in 0..MaxClock :
         Clock(t) /\ wall' = [wall EXCEPT !.lock = None, !.clock = t, !.stamp = t]
    /\ Echo(w, shared)
    /\ UNCHANGED <<client_side, stored>>

\* server_get(): accept() on PORT + 1.
WorkerGetListens(w) ==
    /\ Executes(w, "get")
    /\ Argc(w) >= 2 /\ ~shared.port
    /\ Goes(w, "accept")
    /\ shared' = [shared EXCEPT !.port = TRUE]
    /\ UNCHANGED <<client_side, wall, stored>>

WorkerGetNeedsName(w) ==
    /\ Executes(w, "get")
    /\ Argc(w) = 1
    /\ Echo(w, shared)
    /\ UNCHANGED <<client_side, wall, stored>>

\* A second bind() of PORT + 1 fails, die(); an argument that is missing is
\* dereferenced.
WorkerDies(w) ==
    /\ \/ Executes(w, "get") /\ Argc(w) >= 2 /\ shared.port
       \/ Executes(w, "put") /\ Argc(w) < 3
       \/ Executes(w, "wall") /\ Argc(w) < 2
    /\ ServerDies

-----------------------------------------------------------------------------
UserStep(c) ==
    \/ \E a \in {client[c].todo[i] : i \in DOMAIN client[c].todo} :
          \/ ClientLaunch(c, a) \/ ClientPut(c, a) \/ ClientPutFaults(c, a)
          \/ ClientGet(c, a) \/ ClientExit(c, a)
    \/ ClientKilled(c)

WorkerStep(w) ==
    \/ WorkerTop(w) \/ WorkerShow(w) \/ WorkerShowDies(w) \/ WorkerStamp(w)
    \/ WorkerReadLine(w) \/ WorkerReadEof(w) \/ WorkerRedirect(w) \/ WorkerSplit(w)
    \/ WorkerCd(w) \/ WorkerLaunch(w)
    \/ WorkerPutOpen(w) \/ WorkerPutReads(w) \/ WorkerPutClose(w)
    \/ WorkerWallCopies(w) \/ WorkerWallCopied(w) \/ WorkerWallStamps(w)
    \/ WorkerGetListens(w) \/ WorkerGetNeedsName(w) \/ WorkerDies(w)

Next == \E c \in Clients : UserStep(c) \/ WorkerStep(c)

Spec == Init /\ [][Next]_vars

\* The scheduler runs every thread that can go on; nothing is assumed of users.
FairSpec == Spec /\ \A w \in Clients : WF_vars(WorkerStep(w))

-----------------------------------------------------------------------------
(* Properties *)

IsAnswer(a) ==
    /\ a.kind \in {"wall", "output", "echo"} /\ a.of \in Clients
    /\ IF a.kind = "output" THEN a.words \subseteq Seq(Symbols) ELSE a.words \subseteq Clients
    /\ a.text \in [1..2 -> 0..wall.count]

\* The values each part of the state takes; server_put() takes from the stream
\* what was announced and no more.
TypeOK ==
    /\ client \in [Clients ->
         [parent : {"prompt", "stuck", "gone"}, child : {"reads", "gone"},
          todo : UNION {Suffixes(t[v]) : t \in Scripts, v \in Clients},
          fresh : BOOLEAN, exited : BOOLEAN]]
    /\ \A c \in Clients :
         /\ up[c] \in Seq(Symbols)
         /\ \A i \in DOMAIN shown[c] : IsAnswer(shown[c][i])
         /\ worker[c].at \in {"top", "show", "stamp", "read", "line", "split", "execute",
                              "put", "half", "wall", "accept", "closed"}
         /\ worker[c].line \in Seq(Symbols) /\ worker[c].args \in Seq(Seq(Symbols))
         /\ worker[c].done \in BOOLEAN /\ worker[c].raced \in BOOLEAN
         /\ worker[c].last \in 0..wall.clock
         /\ worker[c].got \in Seq(Symbols)
         /\ Len(worker[c].got) <= (IF worker[c].at = "put" THEN PutLength(c) ELSE 0)
    /\ shared.out \in Clients \cup {None} /\ shared.held \subseteq Clients
    /\ shared.scan \in Seq(Symbols) /\ shared.cwd \in Seq(Symbols)
    /\ wall.lock \in Clients \cup {None} /\ wall.stamp \in 0..wall.clock
    /\ stored \in Seq(Symbols)

\* No file holds the word "put".  When a command without a newline comes before
\* a put, its line takes the header with it and the file is lines to the server:
\* a "put" among them would take the bytes of the next one.
PlainFiles == \A c \in Clients : \A i \in DOMAIN FileOf[c] : FileOf[c][i] # "put"

\* A file on the server is some client's file, or was just emptied, however
\* the bytes were read and whatever was in the stream before the header
\* (client.c 43-58, server.c 214-229): nothing is lost or taken for a command,
\* unless a file holds a put or two workers split their lines at the same time.
FilesArriveWhole ==
    PlainFiles /\ ~shared.overlap => stored \in {<<>>} \cup {FileOf[c] : c \in Clients}

\* The output of a command is shown to the client that sent it (server.c
\* 406-408), unless two workers were between redirection and output at once.
OwnOutput ==
    ~shared.overlap =>
        \A c \in Clients : \A i \in DOMAIN shown[c] :
            shown[c][i].kind = "output" => shown[c][i].of = c

\* A client sees wall messages whole, in order and each once (server.c
\* 394-399), unless one was written while its worker looked.
WallsInOrder ==
    \A c \in Clients : ~worker[c].raced =>
        \A i, j \in DOMAIN shown[c] :
            LET a == shown[c][i]
                b == shown[c][j]
            IN a.kind = "wall" /\ b.kind = "wall" =>
                 /\ a.text[1] = a.text[2]
                 /\ i < j => a.text[1] < b.text[1]

\* exit, typed when nothing unterminated was sent before, ends the worker
\* (client.c 29-34, server.c 410-411): after anything but a put it does not.
ExitEndsWorker ==
    \A c \in Clients :
        client[c].exited /\ client[c].fresh ~>
            \/ worker[c].at \in {"closed", "accept"}
            \/ ~shared.alive \/ shared.overlap
=============================================================================
