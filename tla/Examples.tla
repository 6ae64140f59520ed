-------------------------------- MODULE Examples --------------------------------
(***************************************************************************)
(* The small programs of the course, each behaviour one of them:           *)
(*   pingpong   Shell/Beispiel/pipe_bidirect/pingpong.c                    *)
(*   dup        Shell/Beispiel/dup/dup.c: cat (child) | wc (parent)        *)
(*   pipe       Shell/Beispiel/pipe_example/pipe.c                         *)
(*   echo       Network Shell/Echo Server: client (parent), server (child) *)
(*   fork       Shell/Beispiel/fork_example/fork.c                         *)
(*   forks      Shell/Beispiel/fork_signal/fork.c                          *)
(*   wait_loop  Shell/shell_old.c                                          *)
(* They share a small kernel: two one-way streams with the processes that  *)
(* have an end of them open, end of file, SIGPIPE, and children to wait    *)
(* for.  What flows is counted: in messages, lines or bytes.               *)
(* (No name is one of ShellPipeline's: PipeProofs extends both.)           *)
(***************************************************************************)
EXTENDS Integers, FiniteSets

CONSTANTS
    Room,         \* lines a pipe holds
    CatLines,     \* bound on the lines cat writes
    PingLen,      \* bytes of a ping
    Rounds,       \* pings the echo client sends; 5 in the code
    MaxChildren   \* bound on the children of forks and wait_loop

ASSUME ExamplesAssumption ==
    /\ Room \in Nat \ {0} /\ CatLines \in Nat
    /\ PingLen \in Nat \ {0} /\ Rounds \in Nat \ {0} /\ MaxChildren \in Nat \ {0}

Pairs == {"pingpong", "dup", "echo"}
Families == {"fork", "forks", "wait_loop"}
Procs == {"parent", "child"}

VARIABLES
    program,
    pc,           \* where each process is
    flow,         \* what is in each stream
    readers, writers,  \* who has an end of it open
    held,         \* what each process has read or has still to write
    total,        \* dup: the lines cat has
    signalled,    \* the processes SIGINT has been sent to and not reached
    reset,        \* echo: has the connection been reset?
    kids          \* children still to fork, alive, ended, and waits to make

examples == <<program, pc, flow, readers, writers, held, total, signalled, reset, kids>>
streams == <<flow, readers, writers>>
extras == <<program, total, signalled, reset, kids>>

Over(p) == pc[p] \in {"none", "done", "failed", "killed", "broken"}
Goes(p, place) == pc' = [pc EXCEPT ![p] = place]
Is(name) == program = name
At(p, place) == pc[p] = place

\* Ending closes every descriptor.
Ends(p, how) ==
    /\ Goes(p, how)
    /\ readers' = [s \in 1..2 |-> readers[s] \ {p}]
    /\ writers' = [s \in 1..2 |-> writers[s] \ {p}]

StreamEnds(s) == flow[s] = 0 /\ writers[s] = {}

Nobody == [s \in 1..2 |-> {}]
Everybody == [s \in 1..2 |-> Procs]

ExamplesInit ==
    /\ program \in Pairs \cup Families \cup {"pipe"}
    /\ pc = [p \in Procs |-> IF p = "parent" \/ Is("echo") THEN "start" ELSE "none"]
    /\ flow = [s \in 1..2 |-> 0]
    /\ readers = Nobody /\ writers = Nobody
    /\ held = [p \in Procs |-> 0]
    /\ total = 0 /\ signalled = {} /\ reset = FALSE
    /\ \E n \in 1..MaxChildren :
         /\ n > 1 => program \in Families \ {"fork"}
         /\ kids = [todo |-> n, alive |-> 0, ended |-> 0,
                    waits |-> IF Is("wait_loop") THEN 0 ELSE n]

-----------------------------------------------------------------------------
(* Ping-pong: stream 1 goes to the child, stream 2 to the parent *)

\* redir(), signal(), pipe(), pipe() or fork() fails; what is open is closed.
PingFails ==
    /\ Is("pingpong") /\ pc["parent"] \in {"start", "install", "split"}
    /\ Ends("parent", "failed")
    /\ UNCHANGED <<extras, flow, held>>

PingPrepares ==
    /\ Is("pingpong") /\ pc["parent"] \in {"start", "install"}
    /\ Goes("parent", IF At("parent", "start") THEN "install" ELSE "split")
    /\ UNCHANGED <<extras, streams, held>>

\* Mutant of PingSplits: the child serves as well.
PingSplitsServing ==
    /\ Is("pingpong") /\ At("parent", "split") /\ "parent" \notin signalled
    /\ pc' = [parent |-> "close", child |-> "write"]
    /\ readers' = Everybody /\ writers' = Everybody
    /\ UNCHANGED <<extras, flow, held>>

\* split(): a signal that waits is handled before fork() returns.
PingSplits ==
    /\ Is("pingpong") /\ At("parent", "split") /\ "parent" \notin signalled
    /\ pc' = [p \in Procs |-> "close"]
    /\ readers' = Everybody /\ writers' = Everybody
    /\ UNCHANGED <<extras, flow, held>>

\* Mutant of PingCloses: only the reading end is closed.
PingClosesReader(p) ==
    /\ Is("pingpong") /\ At(p, "close")
    /\ Goes(p, IF p = "parent" THEN "write" ELSE "read")
    /\ LET out == IF p = "parent" THEN 1 ELSE 2
       IN /\ readers' = [readers EXCEPT ![out] = @ \ {p}]
          /\ UNCHANGED writers
    /\ UNCHANGED <<extras, flow, held>>

\* Each keeps one end of each pipe; in the parent, parent = 1.
PingCloses(p) ==
    /\ Is("pingpong") /\ At(p, "close")
    /\ Goes(p, IF p = "parent" THEN "write" ELSE "read")
    /\ LET out == IF p = "parent" THEN 1 ELSE 2
       IN /\ readers' = [readers EXCEPT ![out] = @ \ {p}]
          /\ writers' = [writers EXCEPT ![3 - out] = @ \ {p}]
    /\ UNCHANGED <<extras, flow, held>>

\* write(), or SIGPIPE.
PingWrites(p) ==
    /\ Is("pingpong") /\ At(p, "write")
    /\ LET out == IF p = "parent" THEN 1 ELSE 2
       IN IF readers[out] = {} THEN Ends(p, "broken") /\ UNCHANGED flow
          ELSE /\ Goes(p, "read")
               /\ flow' = [flow EXCEPT ![out] = @ + 1]
               /\ UNCHANGED <<readers, writers>>
    /\ UNCHANGED <<extras, held>>

\* read() takes all there is; then printf() and sleep(1).  At the end of file
\* the program is over.
PingReads(p) ==
    /\ Is("pingpong") /\ At(p, "read")
    /\ LET in == IF p = "parent" THEN 2 ELSE 1
       IN \/ /\ flow[in] > 0
             /\ flow' = [flow EXCEPT ![in] = 0]
             /\ Goes(p, "write")
             /\ UNCHANGED <<readers, writers>>
          \/ StreamEnds(in) /\ Ends(p, "done") /\ UNCHANGED flow
    /\ UNCHANGED <<extras, held>>

\* Ctrl-C reaches every process there is.
Interrupt ==
    /\ Is("pingpong") /\ signalled = {}
    /\ signalled' = {p \in Procs : ~Over(p)}
    /\ UNCHANGED <<program, pc, streams, held, total, reset, kids>>

\* The default action before signal(); then sig_handler(), which exits in both,
\* in the parent with a line in the log once `parent' is set.
SigHandler(p) ==
    /\ p \in signalled /\ ~Over(p)
    /\ Ends(p, IF pc[p] \in {"start", "install"} THEN "killed" ELSE "done")
    /\ signalled' = signalled \ {p}
    /\ UNCHANGED <<program, flow, held, total, reset, kids>>

-----------------------------------------------------------------------------
(* dup.c and pipe.c: stream 1 *)

PipeFails ==
    /\ \/ program \in {"dup", "pipe"} /\ At("parent", "start")
       \/ Is("pipe") /\ At("parent", "write")
    /\ Ends("parent", "failed")
    /\ UNCHANGED <<extras, flow, held>>

\* pipe() and fork(); pipe.c talks to itself.
PipeOpens ==
    /\ At("parent", "start")
    /\ \/ Is("dup") /\ pc' = [p \in Procs |-> "close"] /\ readers' = [Nobody EXCEPT ![1] = Procs]
       \/ Is("pipe") /\ Goes("parent", "write") /\ readers' = [Nobody EXCEPT ![1] = {"parent"}]
    /\ writers' = readers'
    /\ UNCHANGED <<extras, flow, held>>

SelfWrites ==
    /\ Is("pipe") /\ At("parent", "write")
    /\ flow' = [flow EXCEPT ![1] = 1]
    /\ Goes("parent", "read")
    /\ UNCHANGED <<extras, readers, writers, held>>

SelfReads ==
    /\ Is("pipe") /\ At("parent", "read")
    /\ flow[1] > 0
    /\ flow' = [flow EXCEPT ![1] = 0]
    /\ held' = [held EXCEPT !["parent"] = 1]
    /\ Ends("parent", "done")
    /\ UNCHANGED extras

\* child: close(pdes[0]); close(1); dup(pdes[1]);
\* parent: close(0); close(pdes[1]); dup(pdes[0]);
DupRedirects(p) ==
    /\ Is("dup") /\ At(p, "close")
    /\ Goes(p, "exec")
    /\ IF p = "child"
       THEN readers' = [readers EXCEPT ![1] = @ \ {p}] /\ UNCHANGED writers
       ELSE writers' = [writers EXCEPT ![1] = @ \ {p}] /\ UNCHANGED readers
    /\ UNCHANGED <<extras, flow, held>>

\* die("dup()"), die("execlp()")
DupFails(p) ==
    /\ Is("dup") /\ pc[p] \in {"close", "exec"}
    /\ Ends(p, "failed")
    /\ UNCHANGED <<extras, flow, held>>

\* execlp(): cat has some lines to write.
DupExecutes(p) ==
    /\ Is("dup") /\ At(p, "exec")
    /\ Goes(p, IF p = "child" THEN "cat" ELSE "wc")
    /\ IF p = "child"
       THEN total' \in 0..CatLines /\ held' = [held EXCEPT ![p] = total']
       ELSE UNCHANGED <<total, held>>
    /\ UNCHANGED <<program, signalled, reset, kids, streams>>

CatWrites ==
    /\ At("child", "cat")
    /\ readers[1] # {} /\ held["child"] > 0 /\ flow[1] < Room
    /\ flow' = [flow EXCEPT ![1] = @ + 1]
    /\ held' = [held EXCEPT !["child"] = @ - 1]
    /\ UNCHANGED <<extras, pc, readers, writers>>

CatEnds ==
    /\ At("child", "cat")
    /\ readers[1] = {} \/ held["child"] = 0
    /\ Ends("child", IF held["child"] = 0 THEN "done" ELSE "broken")
    /\ UNCHANGED <<extras, flow, held>>

WcReads ==
    /\ At("parent", "wc")
    /\ flow[1] > 0
    /\ flow' = [flow EXCEPT ![1] = @ - 1]
    /\ held' = [held EXCEPT !["parent"] = @ + 1]
    /\ UNCHANGED <<extras, pc, readers, writers>>

WcEnds ==
    /\ At("parent", "wc")
    /\ StreamEnds(1)
    /\ Ends("parent", "done")
    /\ UNCHANGED <<extras, flow, held>>

-----------------------------------------------------------------------------
(* Echo: stream 1 goes to the server (child), stream 2 to the client *)

In(p) == IF p = "parent" THEN 2 ELSE 1

\* close() with unread bytes resets the connection.
Leaves(p, how) ==
    /\ Ends(p, how)
    /\ reset' = (reset \/ (Is("echo") /\ flow[In(p)] > 0))
    /\ UNCHANGED <<program, total, signalled, kids, flow, held>>

\* socket(), bind(), listen(); accept(); socket() in the client.
EchoFails(p) ==
    /\ Is("echo")
    /\ At(p, "start") \/ (p = "child" /\ At(p, "accept"))
    /\ Leaves(p, "failed")

EchoListens ==
    /\ Is("echo") /\ At("child", "start")
    /\ Goes("child", "accept")
    /\ UNCHANGED <<extras, streams, held>>

\* connect() needs a server that listens, not one that accepts.
EchoConnects ==
    /\ Is("echo") /\ At("parent", "start") /\ At("child", "accept")
    /\ Goes("parent", "write")
    /\ readers' = [s \in 1..2 |-> IF s = 1 THEN {"child"} ELSE {"parent"}]
    /\ writers' = [s \in 1..2 |-> IF s = 2 THEN {"child"} ELSE {"parent"}]
    /\ UNCHANGED <<extras, flow, held>>

EchoAccepts ==
    /\ Is("echo") /\ At("child", "accept") /\ readers[1] # {}
    /\ Goes("child", "read")
    /\ UNCHANGED <<extras, streams, held>>

\* write() of n bytes: to a peer that is gone the first succeeds and resets
\* the connection, the next is an error or SIGPIPE.
EchoWrites(p, n) ==
    /\ Is("echo") /\ At(p, "write")
    /\ LET out == 3 - In(p)
       IN IF reset THEN Ends(p, "broken") /\ UNCHANGED <<flow, reset>>
          ELSE /\ Goes(p, "read")
               /\ reset' = (readers[out] = {})
               /\ flow' = IF reset' THEN flow ELSE [flow EXCEPT ![out] = @ + n]
               /\ UNCHANGED <<readers, writers>>
    /\ UNCHANGED <<program, total, signalled, kids, held>>

EchoSends == EchoWrites("parent", PingLen)
EchoAnswers == EchoWrites("child", held["child"])

\* The client's read() takes what there is; 0 is no error.  held counts rounds.
EchoReceives ==
    /\ Is("echo") /\ At("parent", "read")
    /\ flow[2] > 0 \/ (StreamEnds(2) /\ ~reset)
    /\ held' = [held EXCEPT !["parent"] = @ + 1]
    /\ \E n \in 0..flow[2] :
         /\ n = 0 => flow[2] = 0
         /\ flow' = [flow EXCEPT ![2] = @ - n]
    /\ IF held["parent"] + 1 < Rounds
       THEN Goes("parent", "write") /\ UNCHANGED <<readers, writers, reset>>
       ELSE Ends("parent", "done") /\ reset' = (reset \/ flow'[2] > 0)
    /\ UNCHANGED <<program, total, signalled, kids>>

\* The server's read(): some of the bytes, or the end.
EchoReads ==
    /\ Is("echo") /\ At("child", "read")
    /\ \/ \E n \in 1..flow[1] :
            /\ flow' = [flow EXCEPT ![1] = @ - n]
            /\ held' = [held EXCEPT !["child"] = n]
            /\ Goes("child", "write")
            /\ UNCHANGED <<readers, writers>>
       \/ StreamEnds(1) /\ ~reset /\ Ends("child", "done") /\ UNCHANGED <<flow, held>>
    /\ UNCHANGED extras

\* read() fails once the connection is reset and empty: die().
EchoReadFails(p) ==
    /\ Is("echo") /\ At(p, "read")
    /\ reset /\ flow[In(p)] = 0
    /\ Leaves(p, "failed")

-----------------------------------------------------------------------------
(* fork, forks and wait_loop: children that sleep and end *)

ForksOne ==
    /\ program \in Families /\ At("parent", "start") /\ kids.todo > 0
    /\ kids' = [kids EXCEPT !.todo = @ - 1, !.alive = @ + 1]
    /\ UNCHANGED <<program, pc, streams, held, total, signalled, reset>>

\* fork gives up; forks goes on, and waits for as many as it wanted.
ForkFails ==
    /\ program \in Families /\ At("parent", "start") /\ kids.todo > 0
    /\ kids' = [kids EXCEPT !.todo = @ - 1]
    /\ IF Is("fork") THEN Ends("parent", "failed") ELSE UNCHANGED <<pc, readers, writers>>
    /\ UNCHANGED <<program, flow, held, total, signalled, reset>>

KidEnds ==
    /\ kids.alive > 0
    /\ kids' = [kids EXCEPT !.alive = @ - 1, !.ended = @ + 1]
    /\ UNCHANGED <<program, pc, streams, held, total, signalled, reset>>

\* Mutant of ParentWaits: a child that still runs is not waited for.
ParentPolls ==
    /\ program \in Families /\ At("parent", "start") /\ kids.todo = 0
    /\ kids.waits > 0
    /\ kids' = [kids EXCEPT !.waits = @ - 1, !.ended = IF @ = 0 THEN 0 ELSE @ - 1]
    /\ UNCHANGED <<program, pc, streams, held, total, signalled, reset>>

\* wait(): a child that ended, or none is left.
ParentWaits ==
    /\ program \in Families /\ At("parent", "start") /\ kids.todo = 0
    /\ kids.waits > 0
    /\ kids.ended > 0 \/ kids.alive = 0
    /\ kids' = [kids EXCEPT !.waits = @ - 1, !.ended = IF @ = 0 THEN 0 ELSE @ - 1]
    /\ UNCHANGED <<program, pc, streams, held, total, signalled, reset>>

\* shell_wait() of wait_loop() loops to argc, which is 0: it waits for nobody.
ParentEnds ==
    /\ program \in Families /\ At("parent", "start") /\ kids.todo = 0
    /\ kids.waits = 0
    /\ Ends("parent", "done")
    /\ UNCHANGED <<extras, flow, held>>

-----------------------------------------------------------------------------
\* Any other signal.
Killed(p) ==
    /\ program \in Pairs /\ ~Over(p)
    /\ Leaves(p, "killed")

PingStep(p) == PingCloses(p) \/ PingWrites(p) \/ PingReads(p) \/ SigHandler(p)
DupStep(p)  == DupRedirects(p) \/ DupFails(p) \/ DupExecutes(p)

ParentStep ==
    \/ PingFails \/ PingPrepares \/ PingSplits \/ PingStep("parent")
    \/ PipeFails \/ PipeOpens \/ SelfWrites \/ SelfReads
    \/ DupStep("parent") \/ WcReads \/ WcEnds
    \/ EchoFails("parent") \/ EchoConnects \/ EchoSends \/ EchoReceives
    \/ EchoReadFails("parent")
    \/ ForksOne \/ ForkFails \/ ParentWaits \/ ParentEnds

ChildStep ==
    \/ PingStep("child") \/ DupStep("child") \/ CatWrites \/ CatEnds
    \/ EchoFails("child") \/ EchoListens \/ EchoAccepts \/ EchoReads \/ EchoAnswers
    \/ EchoReadFails("child") \/ KidEnds

ExamplesNext == ParentStep \/ ChildStep \/ Interrupt \/ \E p \in Procs : Killed(p)

ExamplesSpec == ExamplesInit /\ [][ExamplesNext]_examples

\* Every process goes on when it can, and a signal that was sent is delivered;
\* nobody has to be interrupted or killed.
FairExamples ==
    /\ ExamplesSpec
    /\ WF_examples(ParentStep) /\ WF_examples(ChildStep)
    /\ \A p \in Procs : WF_examples(SigHandler(p))

-----------------------------------------------------------------------------
(* Properties *)

\* The values each part of the state takes, and what the streams hold at most:
\* one ball in ping-pong, whoever is slow (39-58), no more than its capacity in
\* a pipe, all pings in the echo.
ExamplesTypeOK ==
    /\ program \in Pairs \cup Families \cup {"pipe"}
    /\ \A p \in Procs : Over(p) \/ pc[p] \in {"start", "install", "split", "close", "write",
                                           "read", "exec", "cat", "wc", "accept"}
    /\ readers \in [1..2 -> SUBSET Procs] /\ writers \in [1..2 -> SUBSET Procs]
    /\ held \in [Procs -> 0..(CatLines + Rounds * PingLen)]
    /\ total \in 0..CatLines /\ signalled \subseteq Procs /\ reset \in BOOLEAN
    /\ kids \in [todo : 0..MaxChildren, alive : 0..MaxChildren, ended : 0..MaxChildren,
                 waits : 0..MaxChildren]
    /\ flow \in [1..2 -> Nat]
    /\ flow[1] + flow[2] <= (IF Is("dup") THEN Room
                            ELSE IF Is("echo") THEN Rounds * PingLen ELSE 1)

\* A program that ends well has done its work: wc has counted every line cat
\* wrote before it ended, in whatever order the two closed, failed or were
\* killed (dup.c 21-48); fork and forks leave no child behind, though forks waits
\* for those that could not be forked as well (fork.c 22-39);
\* and the echo server, once it has read, only fails after its client is gone
\* (server.c 44-50).
EndsComplete ==
    /\ At("parent", "done") =>
         /\ program \in {"fork", "forks"} => kids.alive = 0 /\ kids.ended = 0
         /\ Is("dup") => Over("child") /\ held["parent"] = total - held["child"]
    /\ Is("echo") /\ pc["child"] \in {"failed", "broken"} /\ held["child"] > 0 =>
         Over("parent")

\* An echo server nobody has connected to.
Unserved == Is("echo") /\ At("child", "accept") /\ readers[1] = {}

\* Every program ends; ping-pong does when one of the two is interrupted,
\* killed or fails, at whatever moment (pingpong.c 69-130).
AllEnd ==
    (\/ ~Is("pingpong")
     \/ signalled # {}
     \/ \E p \in Procs : pc[p] # "none" /\ Over(p))
        ~> Unserved \/ (kids.alive = 0 /\ \A p \in Procs : Over(p))
=============================================================================
