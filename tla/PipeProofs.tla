------------------------------- MODULE PipeProofs -------------------------------
(***************************************************************************)
(* Proofs about the programs whose processes talk through pipes and        *)
(* sockets: the examples of Exercises and the pipelines of the shell.      *)
(*                                                                         *)
(* The examples come first, for any capacity of a stream and any number of *)
(* children and lines. What is in their streams, in their processes and    *)
(* still to come is conserved: one ball (OneBall), one message             *)
(* (OneMessage), the lines of dup (LinesCounted), the bytes of a message   *)
(* (BytesSent), a child for every wait() (KidsWaited). With the types,     *)
(* that is their inductive invariant.                                      *)
(*                                                                         *)
(* The pipelines follow, for every capacity of the pipe and any output of  *)
(* the first command.  Their invariant has three parts beside the types:   *)
(* who has which end of the pipe open follows from where the two processes *)
(* are (PipeEnds); the shell waits for the runner and the runner for its   *)
(* child, unless a stop or Ctrl-C ended the wait (PipeWaits); and nothing  *)
(* is lost in the pipe (PipeFlow).                                         *)
(***************************************************************************)
EXTENDS Examples, ShellPipeline, SequenceTheorems, FiniteSetTheorems, TLAPS

\* The values each part of the state takes; only ping-pong is interrupted, cat
\* and wc are dup's, and no more children are counted than were wanted.
Typed ==
    /\ program \in Pairs \cup Families \cup {"pipe"}
    /\ pc \in [Procs -> {"none", "start", "install", "split", "close", "write", "read",
                         "exec", "cat", "wc", "accept", "done", "failed", "killed", "broken"}]
    /\ flow \in [1..2 -> Nat] /\ held \in [Procs -> Nat]
    /\ readers \in [1..2 -> SUBSET Procs] /\ writers \in [1..2 -> SUBSET Procs]
    /\ total \in 0..CatLines /\ reset \in BOOLEAN
    /\ signalled \subseteq Procs /\ (signalled # {} => Is("pingpong"))
    /\ pc["child"] = "cat" \/ pc["parent"] = "wc" => Is("dup")
    /\ kids \in [todo : Nat, alive : Nat, ended : Nat, waits : Nat]
    /\ kids.todo + kids.alive + kids.ended <= MaxChildren /\ kids.waits <= MaxChildren

\* Ping-pong: the ball is with the parent until it first writes, with the
\* process about to write, or in a stream.
HasBall(p) ==
    IF pc[p] = "write" \/ (p = "parent" /\ pc[p] \in {"start", "install", "split", "close"})
    THEN 1 ELSE 0

OneBall ==
    Is("pingpong") =>
        /\ flow[1] + flow[2] + HasBall("parent") + HasBall("child") <= 1
        /\ \A p \in Procs : held[p] = 0

\* pipe.c: at most its one message.
OneMessage ==
    Is("pipe") => flow[1] <= 1 /\ flow[2] = 0 /\ held["parent"] <= 1 /\ held["child"] = 0

\* dup.c: the lines counted, in the pipe and still to write are all there are.
LinesCounted ==
    Is("dup") =>
        /\ flow[2] = 0 /\ flow[1] <= Room
        /\ held["parent"] + flow[1] + held["child"] = total
        /\ pc["child"] \in {"none", "close", "exec"} => total = 0
        /\ pc["parent"] = "start" => pc["child"] = "none"
        /\ ~Over("child") => "child" \in writers[1]
        /\ pc["parent"] = "done" => Over("child") /\ flow[1] = 0

\* fork and its relatives: a wait() for every child that was or will be.
KidsWaited ==
    program \in Families =>
        /\ flow[1] = 0 /\ flow[2] = 0 /\ \A p \in Procs : held[p] = 0
        /\ program # "wait_loop" =>
             /\ pc["parent"] = "start" => kids.todo + kids.alive + kids.ended <= kids.waits
             /\ pc["parent"] = "done" => kids.alive = 0 /\ kids.ended = 0

\* The echo: the bytes in both streams and in the server's hands.
InHand == IF pc["child"] = "write" THEN held["child"] ELSE 0

\* They are those of the pings sent; the connection stands while both are
\* there, and is reset only once one of them has gone.
BytesSent ==
    Is("echo") =>
        /\ pc["parent"] = "start" =>
             held["parent"] = 0 /\ flow[1] + flow[2] + InHand = 0 /\ readers[1] = {}
        /\ pc["parent"] = "write" =>
             held["parent"] < Rounds /\ flow[1] + flow[2] + InHand <= held["parent"] * PingLen
        /\ pc["parent"] = "read" =>
             /\ held["parent"] < Rounds
             /\ flow[1] + flow[2] + InHand <= (held["parent"] + 1) * PingLen
        /\ held["parent"] <= Rounds
        /\ flow[1] + flow[2] + InHand <= Rounds * PingLen /\ held["child"] <= Rounds * PingLen
        /\ pc["parent"] \in {"start", "write", "read"} \/ Over("parent")
        /\ pc["child"] \in {"start", "accept"} => held["child"] = 0
        /\ pc["child"] \in {"write", "read"} => pc["parent"] # "start"
        /\ ~Over("child") /\ pc["parent"] \in {"write", "read"} =>
             pc["child"] # "start" /\ "child" \in readers[1] /\ "parent" \in readers[2]
        /\ reset => Over("parent") \/ Over("child")
        /\ pc["child"] \in {"failed", "broken"} /\ held["child"] > 0 => Over("parent")

ExamplesInv == Typed /\ OneBall /\ OneMessage /\ LinesCounted /\ KidsWaited /\ BytesSent

-----------------------------------------------------------------------------
(* The examples: numbers, the initial state, types *)

\* Products of rounds and bytes.
LEMMA Products ==
  ASSUME NEW a \in Nat, NEW b \in Nat, NEW p \in Nat
  PROVE  /\ a * p \in Nat
         /\ (a + 1) * p = a * p + p
         /\ a <= b => a * p <= b * p
         /\ p # 0 => a <= a * p
<1>1. a * p \in Nat /\ (a + 1) * p = a * p + p
  OBVIOUS
<1>2. a <= b => a * p <= b * p
  OBVIOUS
<1>3. p # 0 => a <= a * p
  OBVIOUS
<1>4. QED
  BY <1>1, <1>2, <1>3

\* Every example starts with nothing sent and nobody to wait for.
LEMMA ExamplesInitInv ==
  ASSUME ExamplesInit
  PROVE  ExamplesInv
<1>1. PICK n \in 1..MaxChildren :
        /\ n > 1 => program \in Families \ {"fork"}
        /\ kids = [todo |-> n, alive |-> 0, ended |-> 0,
                   waits |-> IF Is("wait_loop") THEN 0 ELSE n]
  BY DEF ExamplesInit
<1>2. /\ program \in Pairs \cup Families \cup {"pipe"}
      /\ pc = [p \in Procs |-> IF p = "parent" \/ Is("echo") THEN "start" ELSE "none"]
      /\ flow = [s \in 1..2 |-> 0] /\ readers = Nobody /\ writers = Nobody
      /\ held = [p \in Procs |-> 0] /\ total = 0 /\ signalled = {} /\ reset = FALSE
  BY DEF ExamplesInit
<1> USE DEF Procs, Is
<1>3. Typed
  <2>1. kids \in [todo : Nat, alive : Nat, ended : Nat, waits : Nat]
        /\ kids.todo + kids.alive + kids.ended <= MaxChildren /\ kids.waits <= MaxChildren
    BY <1>1, ExamplesAssumption DEF ExamplesAssumption
  <2>2. readers \in [1..2 -> SUBSET Procs] /\ writers \in [1..2 -> SUBSET Procs]
    BY <1>2 DEF Nobody
  <2>3. pc["child"] # "cat" /\ pc["parent"] # "wc"
    BY <1>2
  <2>4. pc \in [Procs -> {"none", "start", "install", "split", "close", "write", "read",
     "exec",
                         "cat", "wc", "accept", "done", "failed", "killed", "broken"}]
    BY <1>2
  <2>5. flow \in [1..2 -> Nat] /\ held \in [Procs -> Nat]
    BY <1>2
  <2>6. total \in 0..CatLines
    BY <1>2, ExamplesAssumption DEF ExamplesAssumption
  <2>7. reset \in BOOLEAN
    BY <1>2
  <2>8. QED
    BY <1>2, <2>1, <2>2, <2>3, <2>4, <2>5, <2>6, <2>7 DEF Typed
<1>4. OneBall /\ OneMessage
  BY <1>2 DEF OneBall, OneMessage, HasBall
<1>5. LinesCounted
  BY <1>2, ExamplesAssumption DEF ExamplesAssumption, LinesCounted, Over
<1>6. KidsWaited
  BY <1>1, <1>2 DEF KidsWaited
<1>7. BytesSent
  <2>1. Rounds * PingLen \in Nat /\ Rounds \in Nat
    BY ExamplesAssumption, Products DEF ExamplesAssumption
  <2>2. QED
    BY <1>2, <2>1 DEF BytesSent, InHand, Nobody, Over
<1>8. QED
  BY <1>3, <1>4, <1>5, <1>6, <1>7 DEF ExamplesInv

\* The steps of ping-pong keep the types.
LEMMA PingTyped ==
  ASSUME Typed, NEW p \in Procs,
         \/ PingFails \/ PingPrepares \/ PingSplits \/ PingStep(p) \/ Interrupt
  PROVE  Typed'
<1> USE ExamplesAssumption DEF ExamplesAssumption, Typed, Procs, Is, At, Goes, Ends, extras
<1>1. CASE PingFails
  BY <1>1 DEF PingFails
<1>8. CASE PingPrepares
  BY <1>8 DEF PingPrepares, streams
<1>2. CASE PingSplits
  BY <1>2 DEF PingSplits, Everybody
<1>3. CASE PingCloses(p)
  BY <1>3 DEF PingCloses
<1>4. CASE PingWrites(p)
  BY <1>4 DEF PingWrites
<1>5. CASE PingReads(p)
  BY <1>5 DEF PingReads, StreamEnds
<1>6. CASE SigHandler(p)
  BY <1>6 DEF SigHandler, Over
<1>7. CASE Interrupt
  BY <1>7 DEF Interrupt, Over, streams
<1>9. QED
  BY <1>1, <1>2, <1>3, <1>4, <1>5, <1>6, <1>7, <1>8 DEF PingStep

\* So do those of dup.c and pipe.c.
LEMMA PipeTyped ==
  ASSUME Typed, NEW p \in Procs,
         \/ PipeFails \/ PipeOpens \/ SelfWrites \/ SelfReads \/ DupStep(p)
         \/ CatWrites \/ CatEnds \/ WcReads \/ WcEnds
  PROVE  Typed'
<1> USE ExamplesAssumption DEF ExamplesAssumption, Typed, Procs, Is, At, Goes, Ends, extras
<1>1. CASE PipeFails
  BY <1>1 DEF PipeFails
<1>2. CASE PipeOpens
  BY <1>2 DEF PipeOpens, Nobody
<1>3. CASE SelfWrites
  BY <1>3 DEF SelfWrites
<1>4. CASE SelfReads
  BY <1>4 DEF SelfReads
<1>5. CASE DupRedirects(p)
  BY <1>5 DEF DupRedirects
<1>6. CASE DupFails(p)
  BY <1>6 DEF DupFails
<1>7. CASE DupExecutes(p)
  BY <1>7 DEF DupExecutes, streams
<1>8. CASE CatWrites \/ WcReads
  BY <1>8 DEF CatWrites, WcReads
<1>9. CASE CatEnds \/ WcEnds
  BY <1>9 DEF CatEnds, WcEnds
<1>10. QED
  BY <1>1, <1>2, <1>3, <1>4, <1>5, <1>6, <1>7, <1>8, <1>9 DEF DupStep

\* And those of the echo.
LEMMA EchoTyped ==
  ASSUME Typed, NEW p \in Procs,
         \/ EchoFails(p) \/ EchoListens \/ EchoConnects \/ EchoAccepts \/ EchoSends
         \/ EchoAnswers \/ EchoReceives \/ EchoReads \/ EchoReadFails(p) \/ Killed(p)
  PROVE  Typed'
<1> USE ExamplesAssumption DEF ExamplesAssumption, Typed, Procs, Is, At, Goes, Ends, extras
<1>1. CASE EchoFails(p)
  BY <1>1 DEF EchoFails, Leaves
<1>9. CASE EchoReadFails(p)
  BY <1>9 DEF EchoReadFails, Leaves
<1>10. CASE Killed(p)
  BY <1>10 DEF Killed, Leaves
<1>2. CASE EchoListens \/ EchoAccepts
  BY <1>2 DEF EchoListens, EchoAccepts, streams
<1>3. CASE EchoConnects
  BY <1>3 DEF EchoConnects
<1>4. ASSUME NEW q \in Procs, NEW n \in Nat, EchoWrites(q, n)
      PROVE  Typed'
  <2>1. CASE reset
    BY <1>4, <2>1 DEF EchoWrites
  <2>2. CASE ~reset
    <3>1. PICK out \in 1..2 :
            /\ reset' = (readers[out] = {})
            /\ flow' = flow \/ flow' = [flow EXCEPT ![out] = @ + n]
            /\ Goes(q, "read") /\ UNCHANGED <<readers, writers>>
      BY <1>4, <2>2 DEF EchoWrites, In
    <3>2. flow' \in [1..2 -> Nat] /\ reset' \in BOOLEAN
      BY <3>1
    <3>3. UNCHANGED <<program, total, signalled, kids, held>> /\ program = "echo"
      BY <1>4 DEF EchoWrites
    <3>4. QED
      BY <3>1, <3>2, <3>3
  <2>3. QED
    BY <2>1, <2>2
<1>5. CASE EchoSends \/ EchoAnswers
  BY <1>4, <1>5 DEF EchoSends, EchoAnswers
<1>6. CASE EchoReceives
  <2>1. held' \in [Procs -> Nat] /\ program = "echo"
        /\ UNCHANGED <<program, total, signalled, kids>>
    BY <1>6 DEF EchoReceives
  <2>2. flow' \in [1..2 -> Nat]
    BY <1>6 DEF EchoReceives
  <2>3. CASE Goes("parent", "write") /\ UNCHANGED <<readers, writers, reset>>
    BY <2>1, <2>2, <2>3
  <2>4. CASE Ends("parent", "done") /\ reset' = (reset \/ flow'[2] > 0)
    BY <2>1, <2>2, <2>4
  <2>5. QED
    BY <1>6, <2>3, <2>4 DEF EchoReceives
<1>7. CASE EchoReads
  BY <1>7 DEF EchoReads
<1>11. QED
  BY <1>1, <1>2, <1>3, <1>5, <1>6, <1>7, <1>9, <1>10

\* And those of the families.
LEMMA FamilyTyped ==
  ASSUME Typed,
         ForksOne \/ ForkFails \/ KidEnds \/ ParentWaits \/ ParentEnds
  PROVE  Typed'
<1> USE ExamplesAssumption DEF ExamplesAssumption, Typed, Procs, Is, At, Goes, Ends, extras
<1>1. CASE ForksOne
  <2>1. kids' = [todo |-> kids.todo - 1, alive |-> kids.alive + 1, ended |-> kids.ended,
                 waits |-> kids.waits] /\ kids.todo > 0
    BY <1>1 DEF ForksOne
  <2>2. QED
    BY <1>1, <2>1 DEF ForksOne, streams
<1>2. CASE ForkFails
  BY <1>2 DEF ForkFails
<1>3. CASE KidEnds
  <2>1. kids' = [todo |-> kids.todo, alive |-> kids.alive - 1, ended |-> kids.ended + 1,
                 waits |-> kids.waits] /\ kids.alive > 0
    BY <1>3 DEF KidEnds
  <2>2. QED
    BY <1>3, <2>1 DEF KidEnds, streams
<1>4. CASE ParentWaits
  <2> DEFINE left == IF kids.ended = 0 THEN 0 ELSE kids.ended - 1
  <2>1. kids' = [todo |-> kids.todo, alive |-> kids.alive,
                 ended |-> left, waits |-> kids.waits - 1] /\ kids.waits > 0
    BY <1>4 DEF ParentWaits
  <2>3. left \in Nat /\ left <= kids.ended
    OBVIOUS
  <2> HIDE DEF left
  <2>2. QED
    BY <1>4, <2>1, <2>3 DEF ParentWaits, streams
<1>5. CASE ParentEnds
  BY <1>5 DEF ParentEnds
<1>6. QED
  BY <1>1, <1>2, <1>3, <1>4, <1>5

-----------------------------------------------------------------------------
(* The examples: what each program keeps *)

\* A program stays what it is.
LEMMA SameProgram ==
  ASSUME ExamplesNext
  PROVE  program' = program
<1>1. CASE ParentStep
  BY <1>1 DEF ParentStep, PingStep, DupStep, PingFails, PingPrepares, PingSplits,
     PingCloses,
     PingWrites, PingReads, SigHandler, PipeFails, PipeOpens, SelfWrites, SelfReads,
     WcReads,
     WcEnds, DupRedirects, DupFails, DupExecutes, EchoFails, EchoConnects, EchoSends,
     EchoWrites, EchoReceives, EchoReadFails, Leaves, ForksOne, ForkFails, ParentWaits,
     ParentEnds, extras
<1>2. CASE ChildStep
  BY <1>2 DEF ChildStep, PingStep, DupStep, PingCloses, PingWrites, PingReads, SigHandler,
     DupRedirects, DupFails, DupExecutes, CatWrites, CatEnds, EchoFails, EchoListens,
     EchoAccepts, EchoReads, EchoAnswers, EchoWrites, EchoReadFails, Leaves, KidEnds, extras
<1>3. CASE Interrupt \/ \E p \in Procs : Killed(p)
  BY <1>3 DEF Interrupt, Killed, Leaves
<1>4. QED
  BY <1>1, <1>2, <1>3 DEF ExamplesNext

\* Ping-pong never has a second ball.
LEMMA PingStays ==
  ASSUME Typed, OneBall, Is("pingpong"), ExamplesNext
  PROVE  OneBall'
<1>1. \/ PingFails \/ PingPrepares \/ PingSplits \/ Interrupt \/ KidEnds
      \/ \E p \in Procs : PingStep(p) \/ Killed(p)
  BY DEF ExamplesNext, ParentStep, ChildStep, DupStep, PipeFails, PipeOpens, SelfWrites, SelfReads,
     WcReads, WcEnds, DupRedirects, DupFails, DupExecutes, CatWrites, CatEnds, EchoFails,
     EchoConnects, EchoSends, EchoAnswers, EchoWrites, EchoReceives, EchoReads, EchoListens,
     EchoAccepts, EchoReadFails, ForksOne, ForkFails, ParentWaits, ParentEnds, Is, At,
     Families,
     Typed, Procs
<1> USE DEF Typed, OneBall, HasBall, Procs, Is, At, Goes, Ends, extras
<1>2. CASE PingFails
  BY <1>2 DEF PingFails
<1>3. CASE PingPrepares
  BY <1>3 DEF PingPrepares, streams
<1>4. CASE PingSplits
  BY <1>4 DEF PingSplits
<1>5. CASE Interrupt
  BY <1>5 DEF Interrupt, streams
<1>6. CASE KidEnds
  BY <1>6 DEF KidEnds, streams
<1>7. ASSUME NEW p \in Procs, PingCloses(p)
      PROVE  OneBall'
  BY <1>7 DEF PingCloses
<1>8. ASSUME NEW p \in Procs, PingWrites(p)
      PROVE  OneBall'
  BY <1>8 DEF PingWrites
<1>9. ASSUME NEW p \in Procs, PingReads(p)
      PROVE  OneBall'
  BY <1>9 DEF PingReads
<1>10. ASSUME NEW p \in Procs, SigHandler(p) \/ Killed(p)
       PROVE  OneBall'
  BY <1>10 DEF SigHandler, Killed, Leaves
<1>11. QED
  BY <1>1, <1>2, <1>3, <1>4, <1>5, <1>6, <1>7, <1>8, <1>9, <1>10 DEF PingStep

\* pipe.c writes its message once.
LEMMA SelfStays ==
  ASSUME Typed, OneMessage, Is("pipe"), ExamplesNext
  PROVE  OneMessage'
<1>1. PipeFails \/ PipeOpens \/ SelfWrites \/ SelfReads \/ KidEnds
  BY DEF ExamplesNext, ParentStep, ChildStep, DupStep, WcReads, WcEnds, DupRedirects, DupFails,
     DupExecutes, CatWrites, CatEnds, EchoFails, EchoConnects, EchoSends, EchoAnswers,
     EchoWrites, EchoReceives, EchoReads, EchoListens, EchoAccepts, EchoReadFails, ForksOne,
     ForkFails, ParentWaits, ParentEnds, PingFails, PingPrepares, PingSplits, PingStep,
     PingCloses, PingWrites, PingReads, SigHandler, Interrupt, Killed, Is, At, Families,
     Pairs,
     Typed, Procs
<1> USE DEF Typed, OneMessage, Procs, Is, At, Goes, Ends, extras
<1>2. CASE PipeFails
  BY <1>2 DEF PipeFails
<1>3. CASE PipeOpens
  BY <1>3 DEF PipeOpens
<1>4. CASE SelfWrites
  <2>1. flow'[1] = 1 /\ flow'[2] = flow[2] /\ held' = held
    BY <1>4 DEF SelfWrites
  <2>2. flow[2] = 0
    BY DEF OneMessage
  <2>3. QED
    BY <1>4, <2>1, <2>2 DEF SelfWrites
<1>5. CASE SelfReads
  BY <1>5 DEF SelfReads
<1>6. CASE KidEnds
  BY <1>6 DEF KidEnds, streams
<1>7. QED
  BY <1>1, <1>2, <1>3, <1>4, <1>5, <1>6

\* No line of dup.c is lost or counted twice.
LEMMA DupStays ==
  ASSUME Typed, LinesCounted, Is("dup"), ExamplesNext
  PROVE  LinesCounted'
<1>1. \/ PipeFails \/ PipeOpens \/ WcReads \/ WcEnds \/ CatWrites \/ CatEnds \/ KidEnds
      \/ \E p \in Procs : DupStep(p) \/ Killed(p)
  BY DEF ExamplesNext, ParentStep, ChildStep, SelfWrites, SelfReads, EchoFails, EchoConnects,
     EchoSends,
     EchoAnswers, EchoWrites, EchoReceives, EchoReads, EchoListens, EchoAccepts,
     EchoReadFails,
     ForksOne, ForkFails, ParentWaits, ParentEnds, PingFails, PingPrepares, PingSplits,
     PingStep, PingCloses, PingWrites, PingReads, SigHandler, Interrupt, Is, Families,
     Typed,
     Procs
<1> USE DEF Typed, LinesCounted, Over, Procs, Is, At, Goes, Ends, extras
<1>2. CASE PipeFails
  BY <1>2 DEF PipeFails
<1>3. CASE PipeOpens
  BY <1>3 DEF PipeOpens, Nobody
<1>4. CASE WcReads
  <2>1. /\ flow'[1] = flow[1] - 1 /\ flow'[2] = flow[2]
        /\ held'["parent"] = held["parent"] + 1 /\ held'["child"] = held["child"]
        /\ pc["parent"] = "wc" /\ UNCHANGED <<program, total, pc, writers>>
    BY <1>4 DEF WcReads
  <2> HIDE DEF Typed
  <2>2. flow[1] \in Nat /\ held["parent"] \in Nat /\ held["child"] \in Nat
    BY DEF Typed
  <2>3. flow[1] > 0
    BY <1>4 DEF WcReads
  <2>4. QED
    BY <2>1, <2>2, <2>3, ExamplesAssumption DEF ExamplesAssumption
<1>5. CASE WcEnds
  BY <1>5 DEF WcEnds, StreamEnds
<1>6. CASE CatWrites
  <2>1. /\ flow'[1] = flow[1] + 1 /\ flow'[2] = flow[2] /\ flow[1] < Room
        /\ held'["child"] = held["child"] - 1 /\ held'["parent"] = held["parent"]
        /\ pc["child"] = "cat" /\ UNCHANGED <<program, total, pc, writers>>
    BY <1>6 DEF CatWrites
  <2> HIDE DEF Typed
  <2>2. flow[1] \in Nat /\ held["parent"] \in Nat /\ held["child"] \in Nat
    BY DEF Typed
  <2>3. QED
    BY <2>1, <2>2, ExamplesAssumption DEF ExamplesAssumption
<1>7. CASE CatEnds
  BY <1>7 DEF CatEnds
<1>8. CASE KidEnds
  BY <1>8 DEF KidEnds, streams
<1>9. ASSUME NEW p \in Procs, DupRedirects(p)
      PROVE  LinesCounted'
  BY <1>9 DEF DupRedirects
<1>10. ASSUME NEW p \in Procs, DupFails(p)
       PROVE  LinesCounted'
  BY <1>10 DEF DupFails
<1>11. ASSUME NEW p \in Procs, DupExecutes(p)
       PROVE  LinesCounted'
  <2>1. /\ pc' = [pc EXCEPT ![p] = IF p = "child" THEN "cat" ELSE "wc"] /\ pc[p] = "exec"
        /\ UNCHANGED <<program, flow, readers, writers>>
    BY <1>11 DEF DupExecutes, streams
  <2>2. CASE p = "child"
    <3>1. total = 0 /\ held' = [held EXCEPT !["child"] = total'] /\ total' \in Nat
      BY <1>11, <2>1, <2>2, ExamplesAssumption DEF DupExecutes, ExamplesAssumption
    <3>2. held["parent"] = 0 /\ flow[1] = 0 /\ held["child"] = 0
      BY <3>1
    <3>3. held'["parent"] = 0 /\ held'["child"] = total' /\ flow'[1] = 0
      BY <2>1, <3>1, <3>2
    <3>4. pc'["parent"] = pc["parent"] /\ pc'["child"] = "cat"
      BY <2>1, <2>2
    <3>5. pc["child"] = "exec" /\ flow'[2] = 0 /\ "child" \in writers'[1]
      BY <2>1, <2>2
    <3> HIDE DEF Typed
    <3>6. QED
      BY <2>1, <3>1, <3>3, <3>4, <3>5, ExamplesAssumption DEF ExamplesAssumption
  <2>3. CASE p = "parent"
    BY <1>11, <2>1, <2>3 DEF DupExecutes
  <2>4. QED
    BY <2>2, <2>3
<1>12. ASSUME NEW p \in Procs, Killed(p)
       PROVE  LinesCounted'
  BY <1>12 DEF Killed, Leaves
<1>13. QED
  BY <1>1, <1>2, <1>3, <1>4, <1>5, <1>6, <1>7, <1>8, <1>9, <1>10, <1>11, <1>12 DEF DupStep

\* Every child that was forked is waited for.
LEMMA FamilyStays ==
  ASSUME Typed, KidsWaited, program \in Families, ExamplesNext
  PROVE  KidsWaited'
<1>1. ForksOne \/ ForkFails \/ KidEnds \/ ParentWaits \/ ParentEnds
  BY DEF ExamplesNext, ParentStep, ChildStep, PipeFails, PipeOpens, SelfWrites, SelfReads, DupStep,
     WcReads, WcEnds, CatWrites, CatEnds, DupRedirects, DupFails, DupExecutes, EchoFails,
     EchoConnects, EchoSends, EchoAnswers, EchoWrites, EchoReceives, EchoReads, EchoListens,
     EchoAccepts, EchoReadFails, PingFails, PingPrepares, PingSplits, PingStep, PingCloses,
     PingWrites, PingReads, SigHandler, Interrupt, Killed, Is, At, Families, Pairs, Typed,
     Procs
<1> USE DEF Typed, KidsWaited, Families, Procs, Is, At, Goes, Ends, extras
<1>2. CASE ForksOne
  <2>1. kids' = [todo |-> kids.todo - 1, alive |-> kids.alive + 1, ended |-> kids.ended,
                 waits |-> kids.waits]
    BY <1>2 DEF ForksOne
  <2>2. QED
    BY <1>2, <2>1 DEF ForksOne, streams
<1>3. CASE ForkFails
  <2>1. kids' = [todo |-> kids.todo - 1, alive |-> kids.alive, ended |-> kids.ended,
                 waits |-> kids.waits]
    BY <1>3 DEF ForkFails
  <2>2. QED
    BY <1>3, <2>1 DEF ForkFails
<1>4. CASE KidEnds
  <2>1. kids' = [todo |-> kids.todo, alive |-> kids.alive - 1, ended |-> kids.ended + 1,
                 waits |-> kids.waits] /\ kids.alive > 0
    BY <1>4 DEF KidEnds
  <2>2. QED
    BY <1>4, <2>1 DEF KidEnds, streams
<1>5. CASE ParentWaits
  <2> DEFINE left == IF kids.ended = 0 THEN 0 ELSE kids.ended - 1
  <2>1. kids' = [todo |-> kids.todo, alive |-> kids.alive, ended |-> left,
                 waits |-> kids.waits - 1]
        /\ kids.waits > 0 /\ kids.todo = 0 /\ (kids.ended > 0 \/ kids.alive = 0)
    BY <1>5 DEF ParentWaits
  <2>2. left \in Nat /\ left <= kids.ended /\ (kids.ended > 0 => left = kids.ended - 1)
    OBVIOUS
  <2> HIDE DEF left
  <2>3. QED
    BY <1>5, <2>1, <2>2 DEF ParentWaits, streams
<1>6. CASE ParentEnds
  BY <1>6 DEF ParentEnds
<1>7. QED
  BY <1>1, <1>2, <1>3, <1>4, <1>5, <1>6

\* What the echo's steps keep: the bytes, and who has the connection open.
LEMMA EchoStays ==
  ASSUME Typed, BytesSent, Is("echo"), ExamplesNext
  PROVE  BytesSent'
<1>1. \/ EchoConnects \/ EchoListens \/ EchoAccepts \/ EchoSends \/ EchoAnswers
      \/ EchoReceives \/ EchoReads \/ KidEnds
      \/ \E p \in Procs : EchoFails(p) \/ EchoReadFails(p) \/ Killed(p)
  BY DEF ExamplesNext, ParentStep, ChildStep, PipeFails, PipeOpens, SelfWrites, SelfReads, DupStep,
     WcReads, WcEnds, CatWrites, CatEnds, DupRedirects, DupFails, DupExecutes, ForksOne,
     ForkFails, ParentWaits, ParentEnds, PingFails, PingPrepares, PingSplits, PingStep,
     PingCloses, PingWrites, PingReads, SigHandler, Interrupt, Is, At, Families, Pairs,
     Typed,
     Procs
<1>2. /\ PingLen \in Nat /\ PingLen # 0 /\ Rounds \in Nat /\ Rounds # 0
      /\ Rounds * PingLen \in Nat /\ held["parent"] * PingLen \in Nat
      /\ (held["parent"] + 1) * PingLen = held["parent"] * PingLen + PingLen
      /\ held["parent"] < Rounds => (held["parent"] + 1) * PingLen <= Rounds * PingLen
  <2>1. /\ PingLen \in Nat /\ PingLen # 0 /\ Rounds \in Nat /\ Rounds # 0
        /\ held["parent"] \in Nat /\ held["parent"] + 1 \in Nat
    BY ExamplesAssumption DEF ExamplesAssumption, Typed, Procs
  <2>2. held["parent"] < Rounds => held["parent"] + 1 <= Rounds
    BY <2>1
  <2>3. QED
    BY <2>1, <2>2, Products
<1>3. /\ flow[1] \in Nat /\ flow[2] \in Nat /\ held["parent"] \in Nat /\ held["child"] \in Nat
      /\ DOMAIN flow = 1..2 /\ DOMAIN held = Procs /\ DOMAIN pc = Procs
      /\ DOMAIN readers = 1..2 /\ DOMAIN writers = 1..2 /\ reset \in BOOLEAN
      /\ program = "echo"
  BY DEF Typed, Procs, Is
<1> DEFINE R == Rounds * PingLen
           H == held["parent"] * PingLen
           H1 == (held["parent"] + 1) * PingLen
<1>4. R \in Nat /\ H \in Nat /\ H1 = H + PingLen /\ (held["parent"] < Rounds => H1 <= R)
  BY <1>2
<1>5. /\ pc["parent"] = "start" =>
            held["parent"] = 0 /\ flow[1] + flow[2] + InHand = 0 /\ readers[1] = {}
      /\ pc["parent"] = "write" => held["parent"] < Rounds /\ flow[1] + flow[2] + InHand <= H
      /\ pc["parent"] = "read" => held["parent"] < Rounds /\ flow[1] + flow[2] + InHand <= H1
      /\ held["parent"] <= Rounds
      /\ flow[1] + flow[2] + InHand <= R /\ held["child"] <= R
      /\ pc["parent"] \in {"start", "write", "read"} \/ Over("parent")
      /\ pc["child"] \in {"start", "accept"} => held["child"] = 0
      /\ pc["child"] \in {"write", "read"} => pc["parent"] # "start"
      /\ ~Over("child") /\ pc["parent"] \in {"write", "read"} =>
           pc["child"] # "start" /\ "child" \in readers[1] /\ "parent" \in readers[2]
      /\ reset => Over("parent") \/ Over("child")
      /\ pc["child"] \in {"failed", "broken"} /\ held["child"] > 0 => Over("parent")
  BY <1>3 DEF BytesSent, Is
<1> DEFINE H2 == held'["parent"] * PingLen
           H3 == (held'["parent"] + 1) * PingLen
<1>6. ASSUME program' = "echo",
             /\ pc'["parent"] = "start" =>
                  held'["parent"] = 0 /\ flow'[1] + flow'[2] + InHand' = 0 /\ readers'[1] = {}
             /\ pc'["parent"] = "write" =>
                  held'["parent"] < Rounds /\ flow'[1] + flow'[2] + InHand' <= H2
             /\ pc'["parent"] = "read" =>
                  held'["parent"] < Rounds /\ flow'[1] + flow'[2] + InHand' <= H3
             /\ held'["parent"] <= Rounds
             /\ flow'[1] + flow'[2] + InHand' <= R /\ held'["child"] <= R,
             pc'["parent"] \in {"start", "write", "read"} \/ Over("parent")',
             pc'["child"] \in {"start", "accept"} => held'["child"] = 0,
             pc'["child"] \in {"write", "read"} => pc'["parent"] # "start",
             ~Over("child")' /\ pc'["parent"] \in {"write", "read"} =>
                pc'["child"] # "start" /\ "child" \in readers'[1] /\ "parent" \in readers'[2],
             reset' => Over("parent")' \/ Over("child")',
             pc'["child"] \in {"failed", "broken"} /\ held'["child"] > 0 => Over("parent")'
      PROVE  BytesSent'
  BY <1>6 DEF BytesSent, Is
<1>7. held'["parent"] = held["parent"] => H2 = H /\ H3 = H1
  OBVIOUS
<1>8. held'["parent"] = held["parent"] + 1 => H2 = H1
  OBVIOUS
<1> HIDE DEF R, H, H1, H2, H3
<1> USE <1>3, <1>4, <1>5 DEF InHand, Over, Procs, Is, At, Goes, Ends, extras
<1>9. CASE EchoConnects
  <2>1. /\ pc' = [pc EXCEPT !["parent"] = "write"] /\ pc["parent"] = "start"
        /\ pc["child"] = "accept" /\ readers'[1] = {"child"} /\ readers'[2] = {"parent"}
        /\ UNCHANGED <<program, flow, held, reset>>
    BY <1>9 DEF EchoConnects
  <2>2. pc'["parent"] = "write" /\ pc'["child"] = "accept"
    BY <2>1
  <2>3. held["parent"] < Rounds
    BY <2>1, <1>2
  <2>4. InHand' = InHand /\ InHand \in Nat
    BY <2>1, <2>2
  <2> HIDE DEF InHand
  <2>5. flow'[1] + flow'[2] + InHand' = 0
    BY <2>1, <2>4
  <2>6. ~reset /\ held["child"] = 0 /\ flow'[1] + flow'[2] + InHand' <= H2
        /\ flow'[1] + flow'[2] + InHand' <= R
    BY <1>2, <1>7, <2>1, <2>5
  <2>7. Over("parent")' = FALSE /\ Over("child")' = FALSE
    BY <2>2
  <2> HIDE DEF Over
  <2>8. QED
    BY <1>6, <2>1, <2>2, <2>3, <2>6, <2>7
<1>10. CASE EchoListens \/ EchoAccepts
  <2>1. /\ pc' = [pc EXCEPT !["child"] = IF pc["child"] = "start" THEN "accept" ELSE "read"]
        /\ pc["child"] \in {"start", "accept"} /\ (pc["child"] = "accept" => readers[1] # {})
        /\ UNCHANGED <<program, flow, held, reset, readers>>
    BY <1>10 DEF EchoListens, EchoAccepts, streams
  <2>2. pc'["parent"] = pc["parent"] /\ pc'["child"] \in {"accept", "read"}
        /\ (pc'["child"] = "read" => pc["child"] = "accept")
    BY <2>1
  <2>3. QED
    BY <1>6, <1>7, <2>1, <2>2
<1>11. CASE EchoSends
  <2>1. program' = "echo" /\ held' = held /\ pc["parent"] = "write"
    BY <1>11 DEF EchoSends, EchoWrites
  <2>2. CASE reset
    <3>1. Ends("parent", "broken") /\ UNCHANGED <<flow, reset>>
      BY <1>11, <2>2 DEF EchoSends, EchoWrites, In
    <3>2. pc'["parent"] = "broken" /\ pc'["child"] = pc["child"]
      BY <3>1
    <3>3. QED
      BY <1>6, <1>7, <2>1, <3>1, <3>2
  <2>3. CASE ~reset
    <3>1. /\ Goes("parent", "read") /\ reset' = (readers[1] = {})
          /\ flow' = IF reset' THEN flow ELSE [flow EXCEPT ![1] = @ + PingLen]
          /\ UNCHANGED <<readers, writers>>
      BY <1>11, <2>3 DEF EchoSends, EchoWrites, In
    <3>2. pc'["parent"] = "read" /\ pc'["child"] = pc["child"]
      BY <3>1
    <3>3. flow'[2] = flow[2] /\ flow'[1] \in Nat /\ flow'[1] <= flow[1] + PingLen
      BY <1>2, <3>1
    <3>4. InHand' = InHand
      BY <2>1, <3>2
    <3>5. InHand \in Nat
      OBVIOUS
    <3> HIDE DEF InHand
    <3>6. flow'[1] + flow'[2] + InHand' <= H3 /\ H3 <= R
      BY <1>2, <1>7, <2>1, <3>3, <3>4, <3>5
    <3>7. H3 \in Nat
      BY <1>2, <1>7, <2>1
    <3>8. flow'[1] + flow'[2] + InHand' <= R
      BY <3>3, <3>4, <3>5, <3>6, <3>7
    <3>9. QED
      BY <1>6, <2>1, <3>1, <3>2, <3>6, <3>8
  <2>4. QED
    BY <2>2, <2>3
<1>12. CASE EchoAnswers
  <2>1. program' = "echo" /\ held' = held /\ pc["child"] = "write"
    BY <1>12 DEF EchoAnswers, EchoWrites
  <2>2. CASE reset
    <3>1. Ends("child", "broken") /\ UNCHANGED <<flow, reset>>
      BY <1>12, <2>2 DEF EchoAnswers, EchoWrites, In
    <3>2. pc'["child"] = "broken" /\ pc'["parent"] = pc["parent"]
      BY <3>1
    <3>3. QED
      BY <1>6, <1>7, <2>1, <2>2, <3>1, <3>2
  <2>3. CASE ~reset
    <3>1. /\ Goes("child", "read") /\ reset' = (readers[2] = {})
          /\ flow' = IF reset' THEN flow ELSE [flow EXCEPT ![2] = @ + held["child"]]
          /\ UNCHANGED <<readers, writers>>
      BY <1>12, <2>3 DEF EchoAnswers, EchoWrites, In
    <3>2. pc'["child"] = "read" /\ pc'["parent"] = pc["parent"]
      BY <3>1
    <3>3. flow'[1] = flow[1] /\ flow'[2] \in Nat /\ flow'[2] <= flow[2] + InHand /\ InHand' = 0
      BY <2>1, <3>1, <3>2
    <3>4. /\ flow'[1] + flow'[2] + InHand' <= flow[1] + flow[2] + InHand
          /\ flow'[1] + flow'[2] + InHand' \in Nat
      BY <3>3
    <3>5. InHand \in Nat
      OBVIOUS
    <3> HIDE DEF InHand
    <3>6. QED
      BY <1>2, <1>6, <1>7, <2>1, <3>1, <3>2, <3>4, <3>5
  <2>4. QED
    BY <2>2, <2>3
<1>13. CASE EchoReceives
  <2>1. PICK n \in 0..flow[2] : flow' = [flow EXCEPT ![2] = @ - n]
    BY <1>13 DEF EchoReceives
  <2>2. /\ program' = "echo" /\ held' = [held EXCEPT !["parent"] = @ + 1]
        /\ pc["parent"] = "read"
        /\ IF held["parent"] + 1 < Rounds
           THEN Goes("parent", "write") /\ UNCHANGED <<readers, writers, reset>>
           ELSE Ends("parent", "done") /\ reset' = (reset \/ flow'[2] > 0)
    BY <1>13 DEF EchoReceives
  <2>3. /\ flow'[1] = flow[1] /\ flow'[2] = flow[2] - n
        /\ held'["parent"] = held["parent"] + 1 /\ held'["child"] = held["child"]
        /\ pc'["child"] = pc["child"]
        /\ pc'["parent"] = IF held["parent"] + 1 < Rounds THEN "write" ELSE "done"
    BY <2>1, <2>2
  <2>4. InHand' = InHand /\ InHand \in Nat
    BY <2>3
  <2> HIDE DEF InHand
  <2>5. /\ flow'[1] + flow'[2] + InHand' <= flow[1] + flow[2] + InHand
        /\ flow'[1] + flow'[2] + InHand' \in Nat /\ flow[1] + flow[2] + InHand \in Nat
    BY <2>3, <2>4
  <2>6. held["parent"] < Rounds /\ flow'[1] + flow'[2] + InHand' <= H2
        /\ flow'[1] + flow'[2] + InHand' <= R
    BY <1>2, <1>8, <2>2, <2>3, <2>5
  <2>10. held'["parent"] <= Rounds /\ held'["child"] <= R
    BY <1>2, <2>3, <2>6
  <2>7. CASE held["parent"] + 1 < Rounds
    <3>1. /\ pc'["parent"] = "write" /\ UNCHANGED <<program, readers, reset>>
          /\ held'["parent"] < Rounds
      BY <2>2, <2>3, <2>7
    <3>2. Over("child")' = Over("child") /\ pc["parent"] = "read"
      BY <2>2, <2>3
    <3> HIDE DEF Over
    <3>3. ~Over("parent")
      BY <3>2 DEF Over
    <3>4. QED
      BY <1>6, <2>3, <2>6, <2>10, <3>1, <3>2, <3>3
  <2>8. CASE ~(held["parent"] + 1 < Rounds)
    <3>1. pc'["parent"] = "done" /\ Over("parent")'
      BY <2>3, <2>8
    <3>2. program' = "echo"
      BY <2>2
    <3> HIDE DEF Over
    <3>3. QED
      BY <1>6, <2>3, <2>6, <2>10, <3>1, <3>2
  <2>9. QED
    BY <2>7, <2>8
<1>14. CASE EchoReads
  <2>1. CASE Ends("child", "done") /\ UNCHANGED <<flow, held>>
    <3>1. /\ pc'["child"] = "done" /\ pc'["parent"] = pc["parent"] /\ program' = program
          /\ reset' = reset /\ pc["child"] = "read"
      BY <1>14, <2>1 DEF EchoReads
    <3>2. QED
      BY <1>6, <1>7, <2>1, <3>1
  <2>2. CASE \E n \in 1..flow[1] :
               /\ flow' = [flow EXCEPT ![1] = @ - n]
               /\ held' = [held EXCEPT !["child"] = n]
               /\ Goes("child", "write")
               /\ UNCHANGED <<readers, writers>>
    <3>1. PICK n \in 1..flow[1] :
               /\ flow' = [flow EXCEPT ![1] = @ - n]
               /\ held' = [held EXCEPT !["child"] = n]
               /\ Goes("child", "write")
               /\ UNCHANGED <<readers, writers>>
      BY <2>2
    <3>2. program' = program /\ reset' = reset /\ pc["child"] = "read"
      BY <1>14 DEF EchoReads
    <3>3. /\ flow'[1] = flow[1] - n /\ flow'[2] = flow[2]
          /\ held'["parent"] = held["parent"] /\ held'["child"] = n
          /\ pc'["child"] = "write" /\ pc'["parent"] = pc["parent"]
      BY <3>1
    <3>4. InHand' = n /\ InHand = 0
      BY <3>2, <3>3
    <3> HIDE DEF InHand
    <3>5. flow'[1] + flow'[2] + InHand' = flow[1] + flow[2] + InHand /\ n \in Nat
      BY <3>3, <3>4
    <3>6. n <= R
      BY <3>4, <3>5
    <3>7. QED
      BY <1>6, <1>7, <3>1, <3>2, <3>3, <3>5, <3>6
  <2>3. QED
    BY <1>14, <2>1, <2>2 DEF EchoReads
<1>15. CASE KidEnds
  BY <1>6, <1>7, <1>15 DEF KidEnds, streams
<1>16. ASSUME NEW p \in Procs, EchoFails(p) \/ EchoReadFails(p) \/ Killed(p)
       PROVE  BytesSent'
  <2>1. PICK how \in {"failed", "killed"} :
          /\ Ends(p, how) /\ UNCHANGED <<program, held, flow>> /\ ~Over(p)
          /\ reset' = (reset \/ (Is("echo") /\ flow[In(p)] > 0))
          /\ how = "failed" =>
               pc[p] \in {"start", "accept"} \/ (pc[p] = "read" /\ reset)
    BY <1>16 DEF EchoFails, EchoReadFails, Killed, Leaves
  <2>2. /\ pc'[p] = how /\ \A q \in Procs \ {p} : pc'[q] = pc[q]
        /\ \A s \in 1..2 : readers'[s] = readers[s] \ {p}
    BY <2>1
  <2>3. flow' = flow /\ held' = held /\ program' = program
    BY <2>1
  <2>4. InHand' \in Nat /\ InHand' <= InHand /\ InHand \in Nat
    BY <2>2, <2>3
  <2> HIDE DEF InHand
  <2>5. flow'[1] + flow'[2] + InHand' <= flow[1] + flow[2] + InHand
        /\ flow'[1] + flow'[2] + InHand' \in Nat /\ flow[1] + flow[2] + InHand \in Nat
    BY <2>3, <2>4
  <2>6. CASE p = "parent"
    <3>1. pc'["parent"] = how /\ pc'["child"] = pc["child"]
      BY <2>2, <2>6
    <3>2. Over("parent")'
      BY <3>1
    <3>3. QED
      BY <1>6, <2>3, <2>5, <3>1, <3>2
  <2>7. CASE p = "child"
    <3>1. pc'["child"] = how /\ pc'["parent"] = pc["parent"]
      BY <2>2, <2>7
    <3>2. Over("child")' /\ (reset' => Over("parent")' \/ Over("child")')
      BY <3>1
    <3>3. how = "failed" /\ held["child"] > 0 => Over("parent")
      BY <2>1, <2>7
    <3>4. readers[1] = {} => readers'[1] = {}
      BY <2>2
    <3>5. /\ pc'["parent"] = "start" => flow'[1] + flow'[2] + InHand' = 0
          /\ pc'["parent"] = "write" => flow'[1] + flow'[2] + InHand' <= H
          /\ pc'["parent"] = "read" => flow'[1] + flow'[2] + InHand' <= H1
          /\ flow'[1] + flow'[2] + InHand' <= R
      BY <1>2, <2>5, <3>1
    <3>6. Over("parent")' <=> Over("parent")
      BY <3>1
    <3> HIDE DEF Over
    <3>7. QED
      BY <1>6, <1>7, <2>3, <3>1, <3>2, <3>3, <3>4, <3>5, <3>6
  <2>8. QED
    BY <2>6, <2>7
<1>17. QED
  BY <1>1, <1>9, <1>10, <1>11, <1>12, <1>13, <1>14, <1>15, <1>16

-----------------------------------------------------------------------------
(* The examples: theorems *)

\* No step of any program breaks ExamplesInv.
LEMMA ExamplesStep ==
  ASSUME ExamplesInv, [ExamplesNext]_examples
  PROVE  ExamplesInv'
<1> USE DEF ExamplesInv
<1>1. CASE UNCHANGED examples
  BY <1>1 DEF examples, Typed, OneBall, HasBall, OneMessage, LinesCounted, KidsWaited,
     BytesSent,
     InHand, Over, Is
<1>2. CASE ExamplesNext
  <2>1. program' = program
    BY <1>2, SameProgram
  <2>2. Typed'
    <3>1. CASE ParentStep
      BY <3>1, PingTyped, PipeTyped, EchoTyped, FamilyTyped DEF ParentStep, Procs
    <3>2. CASE ChildStep
      BY <3>2, PingTyped, PipeTyped, EchoTyped, FamilyTyped DEF ChildStep, Procs
    <3>3. CASE Interrupt
      BY <3>3, PingTyped DEF Procs
    <3>4. ASSUME NEW p \in Procs, Killed(p)
          PROVE  Typed'
      BY <3>4, EchoTyped
    <3>5. QED
      BY <1>2, <3>1, <3>2, <3>3, <3>4 DEF ExamplesNext
  <2>3. OneBall'
    BY <1>2, <2>1, PingStays DEF OneBall, Is
  <2>4. OneMessage'
    BY <1>2, <2>1, SelfStays DEF OneMessage, Is
  <2>5. LinesCounted'
    BY <1>2, <2>1, DupStays DEF LinesCounted, Is
  <2>6. KidsWaited'
    BY <1>2, <2>1, FamilyStays DEF KidsWaited
  <2>7. BytesSent'
    BY <1>2, <2>1, EchoStays DEF BytesSent, Is
  <2>8. QED
    BY <2>2, <2>3, <2>4, <2>5, <2>6, <2>7
<1>3. QED
  BY <1>1, <1>2

\* The streams of each program never hold more than what its processes put
\* there: one ball, the capacity of the pipe, the bytes of the pings sent; for
\* any number of lines, pings and children.
THEOREM ExamplesTypeCorrect == ExamplesSpec => []ExamplesTypeOK
<1>1. ExamplesInv => ExamplesTypeOK
  <2> SUFFICES ASSUME ExamplesInv
               PROVE  ExamplesTypeOK
    OBVIOUS
  <2> USE DEF ExamplesInv
  <2>1. /\ Room \in Nat /\ Room # 0 /\ CatLines \in Nat
        /\ Rounds * PingLen \in Nat /\ Rounds <= Rounds * PingLen /\ 1 <= Rounds
    BY ExamplesAssumption, Products DEF ExamplesAssumption
  <2> DEFINE R == Rounds * PingLen
  <2>2. R \in Nat /\ Rounds <= R /\ 1 <= R
    BY <2>1, ExamplesAssumption DEF ExamplesAssumption
  <2>3. /\ program \in Pairs \cup Families \cup {"pipe"} /\ flow \in [1..2 -> Nat]
        /\ readers \in [1..2 -> SUBSET Procs] /\ writers \in [1..2 -> SUBSET Procs]
        /\ total \in 0..CatLines /\ signalled \subseteq Procs /\ reset \in BOOLEAN
        /\ held \in [Procs -> Nat]
    BY DEF Typed
  <2>4. \A p \in Procs : Over(p) \/ pc[p] \in {"start", "install", "split", "close",
     "write",
                                           "read", "exec", "cat", "wc", "accept"}
    BY DEF Typed, Over
  <2>5. kids \in [todo : 0..MaxChildren, alive : 0..MaxChildren, ended : 0..MaxChildren,
                  waits : 0..MaxChildren]
    BY ExamplesAssumption DEF ExamplesAssumption, Typed
  <2>6. /\ BytesSent => (Is("echo") => flow[1] + flow[2] + InHand <= R /\ held["child"] <= R)
        /\ BytesSent => (Is("echo") => held["parent"] <= R)
    BY <2>1, <2>2, <2>3, ExamplesAssumption DEF BytesSent, Procs, ExamplesAssumption
  <2>7. InHand \in Nat
    BY <2>3 DEF InHand, Procs
  <2> HIDE DEF R
  <2>8. \A p \in Procs : held[p] <= CatLines + R
    BY <2>1, <2>2, <2>3, <2>6 DEF OneBall, OneMessage, LinesCounted, KidsWaited, Is, Procs,
       Pairs
  <2>9. held \in [Procs -> 0..(CatLines + R)]
    BY <2>1, <2>2, <2>3, <2>8
  <2>10. flow[1] + flow[2] <= (IF Is("dup") THEN Room ELSE IF Is("echo") THEN R ELSE 1)
    <3>1. CASE Is("dup")
      BY <2>1, <2>3, <3>1 DEF LinesCounted
    <3>2. CASE Is("echo")
      BY <2>2, <2>3, <2>6, <2>7, <3>2 DEF Is
    <3>3. CASE Is("pingpong")
      BY <2>3, <3>3 DEF OneBall, HasBall, Is
    <3>4. CASE Is("pipe") \/ program \in Families
      BY <2>3, <3>4 DEF OneMessage, KidsWaited, Is, Families
    <3>5. QED
      BY <2>3, <3>1, <3>2, <3>3, <3>4 DEF Is, Pairs
  <2>11. QED
    BY <2>3, <2>4, <2>5, <2>9, <2>10 DEF ExamplesTypeOK, R
<1>2. QED
  BY <1>1, ExamplesInitInv, ExamplesStep, PTL DEF ExamplesSpec

\* A program that ends well has done its work, in whatever order its processes
\* closed, failed or were killed, for any number of lines, pings and children.
THEOREM EndsCompleteHolds == ExamplesSpec => []EndsComplete
<1>1. ExamplesInv => EndsComplete
  <2> SUFFICES ASSUME ExamplesInv
               PROVE  EndsComplete
    OBVIOUS
  <2> USE DEF ExamplesInv
  <2>1. /\ held["parent"] \in Nat /\ held["child"] \in Nat /\ flow[1] \in Nat /\ total \in Nat
    BY ExamplesAssumption DEF ExamplesAssumption, Typed, Procs
  <2>2. At("parent", "done") /\ program \in {"fork", "forks"} =>
          kids.alive = 0 /\ kids.ended = 0
    BY DEF KidsWaited, At, Families
  <2>3. At("parent", "done") /\ Is("dup") =>
          Over("child") /\ held["parent"] = total - held["child"]
    BY <2>1 DEF LinesCounted, At
  <2>4. Is("echo") /\ pc["child"] \in {"failed", "broken"} /\ held["child"] > 0 =>
          Over("parent")
    BY DEF BytesSent
  <2>5. QED
    BY <2>2, <2>3, <2>4 DEF EndsComplete
<1>2. QED
  BY <1>1, ExamplesInitInv, ExamplesStep, PTL DEF ExamplesSpec

-----------------------------------------------------------------------------
(* The pipelines of the shell: the invariant *)

\* The values each part of the state takes.
PipeTypes ==
    /\ restarts \in BOOLEAN /\ interrupted \subseteq {"shell", "runner"}
    /\ shell \in {"prompt", "front"} /\ background \in BOOLEAN
    /\ runner \in {"forked", "dup", "wait", "exec", "program", "piped_shell", "shell",
                   "ended"}
    /\ first \in {"dup", "exec", "program", "shell", "ended"}
    /\ halt \in {"no", "untold", "told", "continued"}
    /\ reading \subseteq {"runner", "first"} /\ writing \subseteq {"runner", "first"}
    /\ pipe \in Seq(Lines) /\ Len(pipe) <= Capacity
    /\ todo \in Seq(Lines) /\ written \in Seq(Lines)
    /\ received \in Seq(Lines)

\* Who has an end of the pipe open.
PipeEnds ==
    /\ "first" \in writing <=> first # "ended"
    /\ "first" \in reading <=> first = "dup"
    /\ runner \in {"dup", "wait", "exec", "program", "piped_shell"} => "runner" \in reading
    /\ runner \in {"forked", "ended"} => "runner" \notin reading
    /\ runner \notin {"dup", "shell"} => "runner" \notin writing

\* Who waits for whom.
PipeWaits ==
    /\ shell = "prompt" /\ ~background /\ "shell" \notin interrupted => runner = "ended"
    /\ runner \in {"forked", "shell"} => first = "ended"
    /\ halt = "no" /\ "runner" \notin interrupted /\ runner \notin {"dup", "wait"} =>
         first = "ended"

\* What was written was read or is in the pipe, until a shell reads the pipe.
PipeFlow == runner \notin {"piped_shell", "ended"} => written = received \o pipe

PipelineInv == PipeTypes /\ PipeEnds /\ PipeWaits /\ PipeFlow

-----------------------------------------------------------------------------
(* The pipelines of the shell: the initial state *)

\* PipelineInv holds before the first pipeline.
LEMMA PipelineInit == Init => PipelineInv
<1> SUFFICES ASSUME Init PROVE PipelineInv
  OBVIOUS
<1>1. <<>> \in Seq(Lines) /\ Len(<<>>) <= Capacity
  BY EmptySeq, PipelineAssumption DEF PipelineAssumption
<1>2. PipeTypes
  BY <1>1 DEF Init, PipeTypes
<1>3. PipeEnds /\ PipeWaits /\ PipeFlow
  BY DEF Init, PipeEnds, PipeWaits, PipeFlow
<1>4. QED
  BY <1>2, <1>3 DEF PipelineInv

-----------------------------------------------------------------------------
(* The pipelines of the shell: what a step does to lines *)

\* What a program may write is a sequence of lines.
LEMMA OutputIsLines ==
  ASSUME NEW n, NEW s \in SeqOf(Lines, n)
  PROVE  s \in Seq(Lines)
<1>1. PICK k \in 0..n : s \in [1..k -> Lines]
  BY DEF SeqOf
<1>2. QED
  BY <1>1

\* A line that is written goes to the end of the pipe.
LEMMA WriteFlow ==
  ASSUME NEW w \in Seq(Lines), NEW r \in Seq(Lines),
         NEW p \in Seq(Lines), NEW x \in Lines
  PROVE  w = r \o p => Append(w, x) = r \o Append(p, x)
<1>1. <<x>> \in Seq(Lines) /\ Append(p, x) = p \o <<x>>
      /\ Append(w, x) = w \o <<x>>
  BY AppendIsConcat
<1>2. (r \o p) \o <<x>> = r \o (p \o <<x>>)
  BY <1>1, ConcatAssociative
<1>3. QED
  BY <1>1, <1>2

\* A line that is read comes from the front of the pipe.
LEMMA ReadFlow ==
  ASSUME NEW r \in Seq(Lines), NEW p \in Seq(Lines), p # <<>>
  PROVE  /\ Tail(p) \in Seq(Lines) /\ Head(p) \in Lines
         /\ Len(Tail(p)) = Len(p) - 1
         /\ Append(r, Head(p)) \in Seq(Lines)
         /\ Append(r, Head(p)) \o Tail(p) = r \o p
<1>1. Tail(p) \in Seq(Lines) /\ Head(p) \in Lines /\ Len(Tail(p)) = Len(p) - 1
  BY HeadTailProperties
<1>2. Append(r, Head(p)) = r \o <<Head(p)>> /\ <<Head(p)>> \in Seq(Lines)
  BY <1>1, AppendIsConcat
<1>3. p = <<Head(p)>> \o Tail(p)
  BY HeadTailProperties, ConcatProperties, <1>1
<1>4. (r \o <<Head(p)>>) \o Tail(p) = r \o (<<Head(p)>> \o Tail(p))
  BY <1>1, <1>2, ConcatAssociative
<1>5. QED
  BY <1>1, <1>2, <1>3, <1>4, AppendProperties

-----------------------------------------------------------------------------
(* The pipelines of the shell: every step keeps the invariant *)

\* A signal that ends what the child runs.
LEMMA WriterDiesInv ==
  ASSUME PipelineInv, WriterDies, first \in {"program", "shell"}
  PROVE  PipelineInv'
<1> USE DEF PipelineInv, PipeTypes, PipeEnds, PipeWaits, PipeFlow, shell_data,
   signal_data
<1>1. <<>> \in Seq(Lines)
  BY EmptySeq
<1>2. CASE first = "program"
  BY <1>1, <1>2 DEF WriterDies, FirstEnds
<1>3. CASE first = "shell"
  BY <1>1, <1>3 DEF WriterDies
<1>4. QED
  BY <1>2, <1>3

\* PipelineInv is inductive.
LEMMA PipelineStep ==
  ASSUME PipelineInv, [Next]_vars
  PROVE  PipelineInv'
<1> USE DEF PipelineInv, PipeTypes, PipeEnds, PipeWaits, PipeFlow, shell_data,
   signal_data, child_data
<1>1. CASE UNCHANGED vars
  BY <1>1 DEF vars
<1>2. ASSUME NEW amp \in BOOLEAN, RunPipeline(amp) PROVE PipelineInv'
  <2>1. <<>> \in Seq(Lines) /\ Len(<<>>) <= Capacity /\ <<>> = <<>> \o <<>>
    BY EmptySeq, ConcatEmptySeq, PipelineAssumption DEF PipelineAssumption
  <2>2. PipeTypes'
    BY <1>2, <2>1 DEF RunPipeline
  <2>3. PipeFlow'
    BY <1>2, <2>1 DEF RunPipeline
  <2>4. PipeEnds' /\ PipeWaits'
    BY <1>2 DEF RunPipeline
  <2>5. QED
    BY <2>2, <2>3, <2>4
<1>3. CASE ShellReturns
  BY <1>3 DEF ShellReturns
<1>4. CASE ShellInterrupted
  BY <1>4 DEF ShellInterrupted, Interrupts
<1>5. CASE RunnerFails
  BY <1>5 DEF RunnerFails
<1>6. CASE RunnerForks
  BY <1>6 DEF RunnerForks
<1>7. CASE RunnerRedirects
  BY <1>7 DEF RunnerRedirects
<1>8. CASE RunnerWaits
  BY <1>8 DEF RunnerWaits
<1>9. CASE RunnerInterrupted
  BY <1>9 DEF RunnerInterrupted, Interrupts
<1>10. CASE RunnerExec
  BY <1>10 DEF RunnerExec
<1>11. CASE SecondReads
  <2>1. /\ pipe' \in Seq(Lines) /\ Len(pipe') = Len(pipe) - 1
        /\ received' \in Seq(Lines) /\ received' \o pipe' = received \o pipe
    BY <1>11, ReadFlow DEF SecondReads
  <2>2. Len(pipe') <= Capacity
    BY <2>1, LenProperties, PipelineAssumption DEF PipelineAssumption
  <2>3. PipeTypes' /\ PipeFlow'
    BY <1>11, <2>1, <2>2 DEF SecondReads
  <2>4. PipeEnds' /\ PipeWaits'
    BY <1>11 DEF SecondReads
  <2>5. QED
    BY <2>3, <2>4
<1>12. CASE SecondEndsAtEof
  BY <1>12 DEF SecondEndsAtEof, RunnerEnds
<1>13. CASE SecondEndsEarly
  BY <1>13 DEF SecondEndsEarly, RunnerEnds
<1>14. CASE PipedShellReads
  <2>1. pipe' \in Seq(Lines) /\ Len(pipe') = Len(pipe) - 1
    BY <1>14, HeadTailProperties DEF PipedShellReads
  <2>2. Len(pipe') <= Capacity
    BY <2>1, LenProperties, PipelineAssumption DEF PipelineAssumption
  <2>3. CASE Head(pipe) = "exit"
    BY <1>14, <2>1, <2>2, <2>3 DEF PipedShellReads, RunnerEnds
  <2>4. CASE Head(pipe) # "exit"
    BY <1>14, <2>1, <2>2, <2>4 DEF PipedShellReads
  <2>5. QED
    BY <2>3, <2>4
<1>15. CASE PipedShellSpins
  BY <1>15 DEF PipedShellSpins, vars
<1>16. CASE RunnerShellExits
  BY <1>16 DEF RunnerShellExits, RunnerEnds
<1>17. CASE FirstRedirects
  BY <1>17 DEF FirstRedirects, FirstAt
<1>18. CASE FirstExec
  BY OutputIsLines, <1>18 DEF FirstExec, FirstAt
<1>19. CASE FirstWrites
  <2>1. first # "ended" /\ todo # <<>> /\ Len(pipe) < Capacity /\ "first" \in writing
    BY <1>19 DEF FirstWrites, Writes, FirstAt
  <2>2. Head(todo) \in Lines /\ todo' \in Seq(Lines)
    BY <1>19, <2>1, HeadTailProperties DEF FirstWrites
  <2>3. pipe' = Append(pipe, Head(todo)) /\ written' = Append(written, Head(todo))
    BY <1>19, <2>1 DEF FirstWrites
  <2>4. pipe' \in Seq(Lines) /\ Len(pipe') = Len(pipe) + 1
        /\ written' \in Seq(Lines)
    BY <2>2, <2>3, AppendProperties
  <2>5. Len(pipe') <= Capacity
    BY <2>1, <2>4, LenProperties,
       PipelineAssumption DEF PipelineAssumption
  <2>6. PipeTypes'
    BY <1>19, <2>2, <2>4, <2>5 DEF FirstWrites
  <2>7. ASSUME written = received \o pipe PROVE written' = received \o pipe'
    <3>1. written \in Seq(Lines)
          /\ received \in Seq(Lines) /\ pipe \in Seq(Lines)
      OBVIOUS
    <3>2. \A x \in Lines : Append(written, x) = received \o Append(pipe, x)
      <4> HIDE DEF PipelineInv, PipeTypes, PipeEnds, PipeWaits, PipeFlow
      <4>1. QED
        BY ZenonT(40), <2>7, <3>1, WriteFlow
    <3>3. QED
      BY <2>2, <2>3, <3>2
  <2>8. PipeEnds' /\ PipeWaits' /\ PipeFlow'
    BY <1>19, <2>7 DEF FirstWrites
  <2>9. QED
    BY <2>6, <2>8
<1>20. CASE FirstBreaks
  BY <1>20, WriterDiesInv DEF FirstBreaks, Writes, FirstAt
<1>21. CASE FirstKilled
  BY <1>21, WriterDiesInv DEF FirstKilled
<1>22. CASE FirstDone
  BY <1>22 DEF FirstDone, FirstAt, FirstEnds
<1>23. CASE FirstShellRuns
  BY OutputIsLines, <1>23 DEF FirstShellRuns, FirstAt
<1>24. CASE FirstShellExits
  <2>1. <<"text">> \in Seq(Lines)
    BY DEF Lines
  <2>2. QED
    BY <1>24, <2>1 DEF FirstShellExits, FirstAt
<1>25. CASE FirstStops
  BY <1>25 DEF FirstStops
<1>26. CASE FirstContinues
  BY <1>26 DEF FirstContinues
<1>27. QED
  BY <1>1, <1>2, <1>3, <1>4, <1>5, <1>6, <1>7, <1>8, <1>9, <1>10, <1>11, <1>12, <1>13,
     <1>14, <1>15, <1>16, <1>17, <1>18, <1>19, <1>20, <1>21, <1>22, <1>23, <1>24, <1>25,
     <1>26 DEF Next, RunnerStep, FirstStep, Others

-----------------------------------------------------------------------------
(* The pipelines of the shell: theorems *)

\* The invariant, for both ways an interrupted waitpid() goes on.
THEOREM PipelineHolds == Spec => []PipelineInv
BY PipelineInit, PipelineStep, PTL DEF Spec

\* A program never runs with the end of the pipe open that is not its own, and
\* the pipe never holds more than it can.
THEOREM PipelineTypeCorrect == Spec => []TypeOK
<1>1. PipelineInv => TypeOK
  BY DEF PipelineInv, PipeTypes, PipeEnds, TypeOK
<1>2. QED
  BY PipelineHolds, <1>1, PTL

\* The first command keeps its reader while it runs, whatever the order of
\* redirections, exits and signals.
THEOREM ReaderStaysHolds == Spec => []ReaderStays
<1>1. PipelineInv => ReaderStays
  BY DEF PipelineInv, PipeTypes, PipeEnds, PipeWaits, ReaderStays
<1>2. QED
  BY PipelineHolds, <1>1, PTL

\* Two shells never read the terminal under a foreground pipeline, whichever of
\* pipe(), fork() and execvp() failed.
THEOREM OneTerminalShellHolds == Spec => []OneTerminalShell
<1>1. PipelineInv => OneTerminalShell
  <2> SUFFICES ASSUME PipelineInv, ~background, halt = "no", interrupted = {}
               PROVE  \A p, q \in TerminalShells : p = q
    BY DEF OneTerminalShell
  <2> USE DEF PipelineInv, PipeTypes, PipeWaits
  <2>1. shell = "prompt" => runner = "ended" /\ first = "ended"
    OBVIOUS
  <2>2. runner = "shell" => first = "ended"
    OBVIOUS
  <2>3. QED
    BY <2>1, <2>2 DEF TerminalShells
<1>2. QED
  BY PipelineHolds, <1>1, PTL

\* When the second command meets the end of file it has read all that the first
\* one wrote, in order, and the first is over.
THEOREM OutputArrives == Spec => AllOutputArrives
<1>1. PipelineInv /\ [Next]_vars =>
        [SecondEndsAtEof => first = "ended" /\ received = written]_vars
  <2> SUFFICES ASSUME PipelineInv, SecondEndsAtEof
               PROVE  first = "ended" /\ received = written
    OBVIOUS
  <2>1. runner = "program" /\ pipe = <<>> /\ writing = {}
    BY DEF SecondEndsAtEof, EndOfFile
  <2>2. first = "ended"
    BY <2>1 DEF PipelineInv, PipeEnds
  <2>3. written = received \o <<>> /\ received \in Seq(Lines)
    BY <2>1 DEF PipelineInv, PipeFlow, PipeTypes
  <2>4. QED
    BY <2>2, <2>3, ConcatEmptySeq
<1>2. QED
  BY PipelineHolds, <1>1, PTL DEF Spec, AllOutputArrives
================================================================================
