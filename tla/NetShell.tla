-------------------------------- MODULE NetShell --------------------------------
(***************************************************************************)
(* The sequential network shell, "Network Shell/Work": cli/client.c and    *)
(* srv/server.c over one TCP connection at a time.  Both sides send whole  *)
(* buffers (MAX, FMAX, a 255-byte greeting, a one-byte end mark) and       *)
(* receive with recv(), which returns what has arrived, up to its size:    *)
(* the end mark and what follows it may come in one call or in two.  A     *)
(* send() is taken to arrive as a whole, as on the loopback interface both *)
(* programs are fixed to.                                                  *)
(*                                                                         *)
(* A stream is a sequence of pieces of sent buffers.  What the receiver    *)
(* does depends on the C string at the start of what it receives.          *)
(***************************************************************************)
EXTENDS Integers, Sequences

CONSTANTS
    Commands,       \* the kinds of commands the user types
    MaxCommands,    \* bound on the commands of a behaviour
    MaxLines,       \* bound on the lines of a file
    MissingFiles,   \* may fopen() fail for the name the user meant?
    LongNames       \* may the directory after a cd be too long for getcwd()?

ASSUME NetShellAssumption ==
    /\ Commands \subseteq {"ls", "cd", "get", "put", "prog", "exit", "wrong"}
    /\ MaxCommands \in Nat /\ MaxLines \in Nat
    /\ MissingFiles \in BOOLEAN /\ LongNames \in BOOLEAN

VARIABLES
    cli, srv,          \* where the two programs are
    toSrv, toCli,      \* the two directions of the connection
    n, m,              \* the command typed last, the one the server works on
    left, size,        \* of each side: lines still to send, lines of the file
    saved,             \* of each side: what write_f() has put into its file
    right,             \* was the name the client opened last the answer to its
                       \* command? (history)
    past               \* the kinds of commands typed in this session, and
                       \* "silent" after a cd without an answer (history)

vars == <<cli, srv, toSrv, toCli, n, m, left, size, saved, right, past>>
transfer == <<left, size, saved, right>>

MAX  == 128
FMAX == 1024
Greeting == 255

-----------------------------------------------------------------------------
(* Streams *)

\* A buffer of len bytes that starts with the text of `kind', for command i.
Buffer(kind, i, line, len) ==
    [kind |-> kind, n |-> i, line |-> line, from |-> 0, len |-> len]
EndMark == Buffer("end", 0, 0, 1)

\* The number of bytes before each piece, and behind the last one.
Before(s) ==
    LET b[i \in 1..Len(s) + 1] == IF i = 1 THEN 0 ELSE b[i - 1] + s[i - 1].len
    IN  b
Bytes(s) == Before(s)[Len(s) + 1]

\* A piece without its first c bytes.
Cut(p, c) == [kind |-> p.kind, n |-> p.n, line |-> p.line, from |-> p.from + c, len |-> p.len - c]

\* The stream without its first k bytes: the rest of the piece that byte k is
\* in, and all pieces behind it.
Skip(s, k) ==
    IF Bytes(s) <= k THEN <<>>
    ELSE LET b == Before(s)
             i == CHOOSE j \in DOMAIN s : b[j] <= k /\ k < b[j + 1]
         IN  <<Cut(s[i], k - b[i])>> \o SubSeq(s, i + 1, Len(s))

\* The strings recv() may leave at the start of a zeroed buffer.  Nothing is
\* received from a closed connection; past the start of a sent buffer there
\* are zeros or bytes of earlier use.
Empty == [kind |-> "", n |-> 0, line |-> 0]
Junk  == [kind |-> "junk", n |-> 0, line |-> 0]
Texts(s) ==
    IF s = <<>> \/ Head(s).kind = "end" THEN {Empty}
    ELSE IF Head(s).from > 0 THEN {Empty, Junk}
    ELSE {[kind |-> Head(s).kind, n |-> Head(s).n, line |-> Head(s).line]}

CliOpen == cli \notin {"out", "waiting"}
SrvGone == srv \in {"closed", "dead"}

\* recv() into a buffer of len bytes returns text t.
CliRecv(len, t) ==
    /\ toCli # <<>> \/ SrvGone
    /\ t \in Texts(toCli)
    /\ toCli' = Skip(toCli, len)
SrvRecv(len, t) ==
    /\ toSrv # <<>> \/ ~CliOpen
    /\ t \in Texts(toSrv)
    /\ toSrv' = Skip(toSrv, len)

\* Mutant of OpenToRead: one line too many is sent.
OpenToReadPastEnd(side) ==
    \E k \in 0..MaxLines : /\ left' = [left EXCEPT ![side] = k + 1]
                          /\ size' = [size EXCEPT ![side] = k]

\* fopen(f_name, "r") of a file of at most MaxLines lines.
OpenToRead(side) ==
    \E k \in 0..MaxLines : /\ left' = [left EXCEPT ![side] = k]
                          /\ size' = [size EXCEPT ![side] = k]

\* The next line of the file, as a block of FMAX bytes.
NextLine(side, i) == Buffer("line", i, size[side] - left[side] + 1, FMAX)

Init ==
    /\ cli = "out" /\ srv = "accept"
    /\ toSrv = <<>> /\ toCli = <<>>
    /\ n = 0 /\ m = 0
    /\ left = [cli |-> 0, srv |-> 0]
    /\ size = [cli |-> 0, srv |-> 0]
    /\ saved = [cli |-> <<>>, srv |-> <<>>]
    /\ right = FALSE
    /\ past = {}

-----------------------------------------------------------------------------
(* The client *)

CliConnect ==
    /\ cli = "out" /\ n < MaxCommands
    /\ ~SrvGone
    /\ cli' = "waiting"
    /\ UNCHANGED <<srv, toSrv, toCli, n, m, transfer, past>>

\* The greetings: recv() and send() of main().
CliGreet ==
    /\ cli = "greet"
    /\ \E t \in Texts(toCli) : CliRecv(Greeting, t)
    /\ toSrv' = Append(toSrv, Buffer("hello", 0, 0, Greeting))
    /\ cli' = "prompt"
    /\ UNCHANGED <<srv, n, m, transfer, past>>

\* One line typed at the prompt and sent.
CliType(c) ==
    /\ cli = "prompt"
    /\ n < MaxCommands
    /\ n' = n + 1
    /\ past' = past \cup {c}
    /\ toSrv' = Append(toSrv, Buffer(c, n', 0, MAX))
    /\ cli' = CASE c = "put" -> "putName" [] c = "get" -> "getName" [] OTHER -> "reply"
    /\ UNCHANGED <<srv, toCli, m, transfer>>

\* A send() to a server that is gone, the second one or the first one of a
\* client that was never accepted: SIGPIPE.
CliBroken ==
    /\ cli \in {"waiting", "prompt", "sending"} /\ SrvGone
    /\ cli' = "out"
    /\ UNCHANGED <<srv, toSrv, toCli, n, m, transfer, past>>

CliReply ==
    /\ cli = "reply"
    /\ \E t \in Texts(toCli) :
          /\ CliRecv(MAX, t)
          /\ cli' = IF t.kind = "bye" THEN "out" ELSE "prompt"
    /\ UNCHANGED <<srv, toSrv, n, m, transfer, past>>

\* put: the received name is opened for reading; another one than the file
\* typed may exist or not.
CliPutName ==
    /\ cli = "putName"
    /\ \E t \in Texts(toCli) :
          /\ CliRecv(MAX, t)
          /\ right' = (t.kind = "name" /\ t.n = n)
          /\ \/ /\ t # Empty
                /\ OpenToRead("cli")
                /\ cli' = "sending"
             \/ /\ MissingFiles \/ t.kind # "name" \/ t.n # n
                /\ cli' = "out"
                /\ UNCHANGED <<left, size>>
    /\ UNCHANGED <<srv, toSrv, n, m, saved, past>>

CliSendLine ==
    /\ cli = "sending" /\ left.cli > 0
    /\ toSrv' = Append(toSrv, NextLine("cli", n))
    /\ left' = [left EXCEPT !.cli = @ - 1]
    /\ UNCHANGED <<cli, srv, toCli, n, m, size, saved, right, past>>

CliSendEnd ==
    /\ cli = "sending" /\ left.cli = 0
    /\ toSrv' = Append(toSrv, EndMark)
    /\ cli' = "prompt"
    /\ UNCHANGED <<srv, toCli, n, m, transfer, past>>

\* get: the received name is opened for writing.
CliGetName ==
    /\ cli = "getName"
    /\ \E t \in Texts(toCli) :
          /\ CliRecv(MAX, t)
          /\ right' = (t.kind = "name" /\ t.n = n)
          /\ \/ t # Empty /\ cli' = "write_f"
             \/ (t = Empty \/ MissingFiles) /\ cli' = "out"
    /\ saved' = [saved EXCEPT !.cli = <<>>]
    /\ UNCHANGED <<srv, toSrv, n, m, left, size, past>>

\* Mutant of CliWrite: the buffer has the size of a command.
CliWriteSmall ==
    /\ cli = "write_f"
    /\ \E t \in Texts(toCli) :
          /\ CliRecv(MAX, t)
          /\ \/ t = Empty /\ cli' = "prompt" /\ UNCHANGED saved
             \/ t # Empty /\ saved' = [saved EXCEPT !.cli = Append(@, t.line)] /\ UNCHANGED cli
    /\ UNCHANGED <<srv, toSrv, n, m, left, size, right, past>>

\* write_f(): an empty string ends the file.
CliWrite ==
    /\ cli = "write_f"
    /\ \E t \in Texts(toCli) :
          /\ CliRecv(FMAX, t)
          /\ \/ t = Empty /\ cli' = "prompt" /\ UNCHANGED saved
             \/ t # Empty /\ saved' = [saved EXCEPT !.cli = Append(@, t.line)] /\ UNCHANGED cli
    /\ UNCHANGED <<srv, toSrv, n, m, left, size, right, past>>

-----------------------------------------------------------------------------
(* The server *)

\* accept() and the greeting; an earlier connection is dropped.
SrvAccept ==
    /\ srv = "accept" /\ cli = "waiting"
    /\ toCli' = <<Buffer("hello", 0, 0, Greeting)>>
    /\ toSrv' = <<>>
    /\ srv' = "greet" /\ cli' = "greet"
    /\ past' = {}
    /\ UNCHANGED <<n, m, transfer>>

SrvGreet ==
    /\ srv = "greet"
    /\ \E t \in Texts(toSrv) : SrvRecv(Greeting, t)
    /\ srv' = "recv"
    /\ UNCHANGED <<cli, toCli, n, m, transfer, past>>

Send(kind, i, len) == toCli' = Append(toCli, Buffer(kind, i, 0, len))

\* Mutant of SrvReply: the branch of cd ends without `continue'.
SrvReplyTwice(t) ==
    /\ t.kind \notin {"get", "put", "exit"}
    /\ toCli' = Append(toCli, Buffer("reply", t.n, 0, MAX))
                  \o (IF t.kind = "cd" THEN <<Buffer("reply", 0, 0, MAX)>> ELSE <<>>)
    /\ srv' = "recv"

\* Mutant of SrvReply: no answer to a wrong command.
SrvReplyKnown(t) ==
    /\ t.kind \notin {"get", "put", "exit"}
    /\ IF t.kind = "wrong" THEN UNCHANGED toCli ELSE Send("reply", t.n, MAX)
    /\ srv' = "recv"

\* ls, cd, ./prog and everything else: one buffer back.
SrvReply(t) ==
    /\ t.kind \notin {"get", "put", "exit"}
    /\ Send("reply", t.n, MAX)
    /\ srv' = "recv"

\* cd where getcwd() fails for the buffer of MAX bytes: nothing back.
SrvSilentCd(t) ==
    /\ LongNames
    /\ t.kind = "cd"
    /\ srv' = "recv"
    /\ past' = past \cup {"silent"}
    /\ UNCHANGED toCli

\* Mutant of SrvExit: the loop is left before the answer.
SrvExitSilent(t) ==
    /\ t.kind = "exit"
    /\ srv' = "console"
    /\ UNCHANGED toCli

SrvExit(t) ==
    /\ t.kind = "exit"
    /\ Send("bye", t.n, MAX)
    /\ srv' = "console"

SrvTransfer(t) ==
    /\ t.kind \in {"get", "put"}
    /\ Send("name", t.n, MAX)
    /\ srv' = IF t.kind = "get" THEN "read_f" ELSE "open"

\* recv() of a command and the branch of func() it leads to.
SrvCommand ==
    /\ srv = "recv" /\ toSrv # <<>>
    /\ \E t \in Texts(toSrv) :
          /\ SrvRecv(MAX, t)
          /\ m' = t.n
          /\ \/ SrvSilentCd(t)
             \/ (SrvReply(t) \/ SrvExit(t) \/ SrvTransfer(t)) /\ UNCHANGED past
    /\ UNCHANGED <<cli, n, transfer>>

\* The client is gone: recv() returns 0, the empty command is answered, and
\* the second send() raises SIGPIPE.
SrvBroken ==
    /\ srv \in {"greet", "recv", "sending", "endGet"} /\ ~CliOpen
    /\ toSrv = <<>>
    /\ srv' = "dead"
    /\ UNCHANGED <<cli, toSrv, toCli, n, m, transfer, past>>

\* read_f(): a file that is missing ends the server.
SrvReadOpen ==
    /\ srv = "read_f"
    /\ \/ /\ OpenToRead("srv")
          /\ srv' = "sending"
       \/ /\ MissingFiles
          /\ srv' = "dead"
          /\ UNCHANGED <<left, size>>
    /\ UNCHANGED <<cli, toSrv, toCli, n, m, saved, right, past>>

SrvSendLine ==
    /\ srv = "sending" /\ left.srv > 0
    /\ toCli' = Append(toCli, NextLine("srv", m))
    /\ left' = [left EXCEPT !.srv = @ - 1]
    /\ UNCHANGED <<cli, srv, toSrv, n, m, size, saved, right, past>>

SrvSendEnd ==
    /\ srv = "sending" /\ left.srv = 0
    /\ toCli' = Append(toCli, EndMark)
    /\ srv' = "endGet"
    /\ UNCHANGED <<cli, toSrv, n, m, transfer, past>>

\* strcpy(buf, "get"); send(...): a buffer the client does not wait for.
SrvSendGet ==
    /\ srv = "endGet"
    /\ Send("got", m, MAX)
    /\ srv' = "recv"
    /\ UNCHANGED <<cli, toSrv, n, m, transfer, past>>

\* write_f() opens the file for put.
SrvWriteOpen ==
    /\ srv = "open"
    /\ \/ srv' = "write_f"
       \/ MissingFiles /\ srv' = "dead"
    /\ saved' = [saved EXCEPT !.srv = <<>>]
    /\ UNCHANGED <<cli, toSrv, toCli, n, m, left, size, right, past>>

\* Mutant of SrvWrite: the buffer has the size of a command.
SrvWriteSmall ==
    /\ srv = "write_f"
    /\ \E t \in Texts(toSrv) :
          /\ SrvRecv(MAX, t)
          /\ \/ t = Empty /\ srv' = "recv" /\ UNCHANGED saved
             \/ t # Empty /\ saved' = [saved EXCEPT !.srv = Append(@, t.line)] /\ UNCHANGED srv
    /\ UNCHANGED <<cli, toCli, n, m, left, size, right, past>>

SrvWrite ==
    /\ srv = "write_f"
    /\ \E t \in Texts(toSrv) :
          /\ SrvRecv(FMAX, t)
          /\ \/ t = Empty /\ srv' = "recv" /\ UNCHANGED saved
             \/ t # Empty /\ saved' = [saved EXCEPT !.srv = Append(@, t.line)] /\ UNCHANGED srv
    /\ UNCHANGED <<cli, toCli, n, m, left, size, right, past>>

\* After a client's exit the operator ends the server or lets it go on.
SrvConsole ==
    /\ srv = "console"
    /\ srv' \in {"accept", "closed"}
    /\ UNCHANGED <<cli, toSrv, toCli, n, m, transfer, past>>

-----------------------------------------------------------------------------
CliStep ==
    \/ CliGreet \/ CliReply \/ CliPutName \/ CliSendLine \/ CliSendEnd
    \/ CliGetName \/ CliWrite \/ CliBroken

SrvStep ==
    \/ SrvAccept \/ SrvGreet \/ SrvCommand \/ SrvBroken
    \/ SrvReadOpen \/ SrvSendLine \/ SrvSendEnd \/ SrvSendGet
    \/ SrvWriteOpen \/ SrvWrite

User == CliConnect \/ SrvConsole \/ \E c \in Commands : CliType(c)

Next == CliStep \/ SrvStep \/ User

Spec == Init /\ [][Next]_vars

\* Both programs run when they can; the user and the operator may do nothing.
FairSpec == Spec /\ WF_vars(CliStep) /\ WF_vars(SrvStep)

-----------------------------------------------------------------------------
(* Properties *)

Kinds == {"hello", "line", "end", "reply", "bye", "name", "got"}

Piece == [kind : Kinds \cup Commands, n : 0..MaxCommands, line : 0..MaxLines,
          from : 0..FMAX, len : 1..FMAX]

\* A stream of such pieces, each of them inside the buffer it was sent from.
Inside(s) == s \in Seq(Piece) /\ \A i \in 1..Len(s) : s[i].from + s[i].len <= FMAX

\* The values each part of the state takes.
TypeOK ==
    /\ cli \in {"out", "waiting", "greet", "prompt", "reply", "putName", "sending",
                "getName", "write_f"}
    /\ srv \in {"accept", "greet", "recv", "read_f", "sending", "endGet", "open",
                "write_f", "console", "closed", "dead"}
    /\ Inside(toSrv) /\ Inside(toCli)
    /\ n \in 0..MaxCommands /\ m \in 0..MaxCommands
    /\ left \in [{"cli", "srv"} -> 0..MaxLines]
    /\ size \in [{"cli", "srv"} -> 0..MaxLines]
    /\ saved \in [{"cli", "srv"} -> Seq(0..MaxLines)]
    /\ right \in BOOLEAN
    /\ past \subseteq Commands \cup {"silent"}

\* What the client prints for a command is the server's answer to it.
Answered ==
    cli = "reply" /\ cli' # "reply" /\ toCli # <<>> =>
        Head(toCli).from = 0 /\ Head(toCli).n = n

\* Every answer is the answer to the command typed, as long as no get was
\* typed in the session; a put, a missing answer to a cd, an exit or another
\* client before it do not disturb that (client.c:121-131, server.c:86-207).
AnswersMatchUntilGet == [][past' \cap {"get", "silent"} = {} => Answered]_vars

BothWait ==
    /\ cli \in {"reply", "putName", "getName", "write_f"} /\ toCli = <<>>
    /\ srv = "recv" /\ toSrv = <<>>

\* The server "send's the result back to client" (Network Shell/README.md:9):
\* before a put or an unanswered cd in the session client and server never wait
\* for each other, whatever the answers were, except under a get that opened a
\* wrong file.
NoMutualWaitBefore ==
    past \cap {"put", "silent"} = {} /\ (cli = "write_f" => right) => ~BothWait

\* The lines 1 to k of a file, each once and in order.
WholeFile(lines, k) == lines = [i \in 1..k |-> i]

\* get leaves the client with all lines of the server's file, whatever was
\* typed before and wherever recv() cuts the stream, provided the name the
\* client received was the answer to this get and the
\* server could read the file.
GetCopies ==
    [][(cli = "write_f" /\ cli' = "prompt" /\ right /\ srv # "dead") =>
          WholeFile(saved.cli, size.srv)]_vars

\* put leaves the server with all lines of the client's file, under the same
\* proviso.
PutCopies ==
    [][(srv = "write_f" /\ srv' = "recv" /\ right /\ CliOpen) =>
          WholeFile(saved.srv, size.cli)]_vars

\* Every command is answered, and a get that opened the right file ends, so
\* that the prompt comes back (or the client ends), unless a put, an earlier
\* get or a cd without an answer disturbs the session.
PromptReturns ==
    (\/ cli = "reply" /\ past \cap {"put", "get"} = {}
     \/ cli = "write_f" /\ right /\ "put" \notin past)
        ~> (cli \in {"prompt", "out"} \/ "silent" \in past)
=============================================================================
