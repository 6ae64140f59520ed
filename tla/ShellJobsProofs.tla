---------------------------- MODULE ShellJobsProofs ----------------------------
(***************************************************************************)
(* Proofs about ShellJobs, for every set of programs, any number of        *)
(* arguments of `wait' and both versions of the shell.  Beside the types   *)
(* the inductive invariant says where the shell is when the flag of `wait' *)
(* is set and what a pending SIGINT means (Flags), and which of the named  *)
(* programs `wait' may still miss (Missed).                                *)
(***************************************************************************)
EXTENDS ShellJobs, SequenceTheorems, FiniteSetTheorems, TLAPS

\* What the flags and the handler tell about the version and the command.
Flags ==
    /\ wait_check = 1 /\ ShellRuns => at \in {"wait", "report"}
    /\ at = "front" => front \in Jobs
    /\ "INT" \in pending => cancelled
    /\ version = "muster" => handler = "stays"
    /\ interrupted => handler = "kills"

\* The programs `wait' has gone past although they had neither ended nor stopped.
Missed == {j \in Jobs \cap ToSet(named) : j \notin ToSet(args) /\ job[j] \in {"running", "stopping"}}

\* There is at most one of them, and only after Ctrl-C in work.
Covered ==
    at \in {"wait", "report"} =>
        /\ ~interrupted => Missed = {}
        /\ \A i, j \in Missed : i = j

Inv == TypeOK /\ Flags /\ Covered

-----------------------------------------------------------------------------
(* Sequences of arguments *)

\* The first argument and the others make up the arguments.
LEMMA ArgsSplit ==
  ASSUME NEW S, NEW s \in Seq(S), s # <<>>
  PROVE  /\ Head(s) \in S /\ Tail(s) \in Seq(S)
         /\ ToSet(s) = {Head(s)} \cup ToSet(Tail(s))
<1>1. Head(s) \in S /\ Tail(s) \in Seq(S)
  BY HeadTailProperties
<1>2. /\ DOMAIN s = 1..Len(s) /\ Len(s) \in Nat \ {0}
      /\ DOMAIN Tail(s) = 1..Len(s) - 1
      /\ \A i \in 1..Len(s) - 1 : Tail(s)[i] = s[i + 1]
  BY HeadTailProperties, LenProperties, EmptySeq
<1>3. s[1] = Head(s)
  BY <1>2
<1>4. ASSUME NEW x \in ToSet(s) PROVE x \in {Head(s)} \cup ToSet(Tail(s))
  <2>1. PICK i \in 1..Len(s) : x = s[i]
    BY <1>2 DEF ToSet
  <2>2. CASE i = 1
    BY <1>3, <2>1, <2>2
  <2>3. CASE i # 1
    <3>1. i - 1 \in 1..Len(s) - 1 /\ Tail(s)[i - 1] = s[i]
      BY <1>2, <2>3
    <3>2. QED
      BY <1>2, <2>1, <3>1 DEF ToSet
  <2>4. QED
    BY <2>2, <2>3
<1>5. ASSUME NEW x \in ToSet(Tail(s)) PROVE x \in ToSet(s)
  <2>1. PICK i \in 1..Len(s) - 1 : x = Tail(s)[i]
    BY <1>2 DEF ToSet
  <2>2. i + 1 \in 1..Len(s) /\ x = s[i + 1]
    BY <1>2, <2>1
  <2>3. QED
    BY <1>2, <2>2 DEF ToSet
<1>6. Head(s) \in ToSet(s)
  BY <1>2, <1>3 DEF ToSet
<1>7. QED
  BY <1>1, <1>4, <1>5, <1>6

\* The arguments of a command are a sequence.
LEMMA ArgsAreSeq ==
  ASSUME NEW S, NEW n, NEW a \in SeqOf(S, n)
  PROVE  a \in Seq(S)
<1>1. PICK k \in 0..n : a \in [1..k -> S]
  BY DEF SeqOf
<1>2. QED
  BY <1>1

-----------------------------------------------------------------------------
(* What waitpid() does *)

\* It returns a program or fails; no program becomes a running one; and the
\* program it was called for has ended or stopped by then.
LEMMA WaitpidFacts ==
  ASSUME TypeOK, NEW a \in Jobs \cup {AnyChild}, NEW r \in Jobs \cup {None}, Waitpid(a, r)
  PROVE  /\ job' \in [Jobs -> {"none", "zombie", "reaped"} \cup Alive]
         /\ \A j \in Jobs : job'[j] # job[j] => job'[j] \in {"reaped", "stopped"}
         /\ a \in Jobs => job'[a] \notin {"running", "stopping", "continued"}
<1>1. job \in [Jobs -> {"none", "zombie", "reaped"} \cup Alive]
  BY DEF TypeOK
<1>2. a \in Jobs => Candidates(a) = {a} \cap Children
  BY JobsAssumption DEF JobsAssumption, Candidates
<1>3. CASE /\ r \in Candidates(a)
           /\ \/ job[r] = "zombie"   /\ job' = [job EXCEPT ![r] = "reaped"]
              \/ job[r] = "stopping" /\ job' = [job EXCEPT ![r] = "stopped"]
  <2>1. r \in Jobs
    BY <1>3 DEF Candidates, Children
  <2>2. a \in Jobs => r = a
    BY <1>2, <1>3
  <2>3. QED
    BY <1>1, <1>3, <2>1, <2>2 DEF Alive
<1>4. CASE Candidates(a) = {} /\ r = None /\ UNCHANGED job
  <2>1. a \in Jobs => job[a] \in {"none", "reaped"}
    BY <1>2, <1>4 DEF Children
  <2>2. QED
    BY <1>1, <1>4, <2>1
<1>5. QED
  BY <1>3, <1>4 DEF Waitpid

\* As long as no program starts, `wait' misses no more than before, if it
\* takes an argument only when the program has ended or stopped.
LEMMA MissedShrinks ==
  ASSUME named' = named,
         \A j \in Jobs \cap ToSet(args) :
            j \in ToSet(args') \/ job'[j] \notin {"running", "stopping"},
         \A j \in Jobs : job'[j] \in {"running", "stopping"} =>
            job[j] \in {"running", "stopping"}
  PROVE  Missed' \subseteq Missed
BY DEF Missed

\* Then Covered is kept, wherever `wait' goes.
LEMMA CoveredStays ==
  ASSUME Covered, at \in {"wait", "report"}, interrupted' = interrupted, Missed' \subseteq Missed
  PROVE  Covered'
BY DEF Covered

-----------------------------------------------------------------------------
(* The invariant *)

\* Inv holds at the first prompt.
LEMMA InitInv == Init => Inv
<1> SUFFICES ASSUME Init PROVE Inv
  OBVIOUS
<1>1. <<>> \in Seq(Jobs \cup {AnyChild}) /\ <<>> \in Seq(Jobs)
  BY EmptySeq
<1>2. TypeOK
  BY <1>1 DEF Init, TypeOK
<1>3. Flags /\ Covered
  BY DEF Init, Flags, ShellRuns, Covered
<1>4. QED
  BY <1>2, <1>3 DEF Inv

\* A step outside the shell's own code that starts no program.
LEMMA JobsMove ==
  ASSUME Inv, job' \in [Jobs -> {"none", "zombie", "reaped"} \cup Alive],
         \A j \in Jobs : job'[j] \in {"running", "stopping"} =>
            job[j] \in {"running", "stopping"},
         UNCHANGED <<at, named, args, interrupted>>
  PROVE  Covered'
<1>1. CASE at \in {"wait", "report"}
  <2>1. Missed' \subseteq Missed
    BY MissedShrinks
  <2>2. QED
    BY <1>1, <2>1, CoveredStays DEF Inv
<1>2. CASE at \notin {"wait", "report"}
  BY <1>2 DEF Covered
<1>3. QED
  BY <1>1, <1>2

\* The handler takes over a waitpid() only while nothing was missed.
LEMMA InterruptedFacts ==
  ASSUME Inv, NEW a, Interrupted(a)
  PROVE  /\ ~interrupted /\ version = "work" /\ cancelled
         /\ interrupted' /\ handler' = "kills" /\ wait_check' = 0
         /\ pending' \subseteq {"CHLD"}
         /\ UNCHANGED <<version, job, processes, output, cancelled>>
BY DEF Inv, Flags, TypeOK, Interrupted

\* Inv is inductive.
LEMMA NextInv ==
  ASSUME Inv, [Next]_vars
  PROVE  Inv'
<1> USE DEF wait_data, signal_data
<1>0. TypeOK /\ Flags /\ Covered
  BY DEF Inv
<1>1. CASE UNCHANGED vars
  BY <1>0, <1>1 DEF vars, Inv, TypeOK, Flags, ShellRuns, Covered, Missed
<1>2. ASSUME NEW j \in Jobs, RunForeground(j) PROVE Inv'
  BY <1>0, <1>2 DEF RunForeground, ShellAt, Inv, TypeOK, Flags, ShellRuns, Covered, Alive
<1>3. ASSUME NEW j \in Jobs, RunBackground(j) PROVE Inv'
  BY <1>0, <1>3 DEF RunBackground, ShellAt, Inv, TypeOK, Flags, ShellRuns, Covered, Alive
<1>4. CASE ForegroundReturns
  <2>1. front \in Jobs
    BY <1>0, <1>4 DEF ForegroundReturns, Flags
  <2>2. job' \in [Jobs -> {"none", "zombie", "reaped"} \cup Alive]
    BY <1>0, <1>4, <2>1, WaitpidFacts DEF ForegroundReturns
  <2>3. QED
    BY <1>0, <1>4, <2>2 DEF ForegroundReturns, Inv, TypeOK, Flags, ShellRuns, Covered
<1>5. ASSUME NEW a \in SeqOf(Jobs \cup {AnyChild}, MaxArgs), WaitCommand(a) PROVE Inv'
  <2>1. a \in Seq(Jobs \cup {AnyChild})
    BY ArgsAreSeq
  <2>2. TypeOK' /\ Flags'
    BY <1>0, <1>5, <2>1 DEF WaitCommand, ShellAt, TypeOK, Flags, ShellRuns
  <2>3. Missed' = {}
    BY <1>5 DEF WaitCommand, Missed
  <2>4. QED
    BY <2>2, <2>3 DEF Inv, Covered
<1>6. CASE WaitCommandAborts
  BY <1>0, <1>6 DEF WaitCommandAborts, ShellAt, Inv, TypeOK, Flags, ShellRuns, Covered
<1>7. CASE WaitNext
  <2>1. Head(args) \in Jobs \cup {AnyChild} /\ Tail(args) \in Seq(Jobs \cup {AnyChild})
        /\ ToSet(args) = {Head(args)} \cup ToSet(Tail(args))
    BY <1>0, <1>7, ArgsSplit DEF WaitNext, TypeOK
  <2>2. PICK r \in Jobs \cup {None} : Waitpid(Head(args), r) /\ got' = r
    BY <1>7 DEF WaitNext
  <2>3. /\ job' \in [Jobs -> {"none", "zombie", "reaped"} \cup Alive]
        /\ \A j \in Jobs : job'[j] # job[j] => job'[j] \in {"reaped", "stopped"}
        /\ Head(args) \in Jobs => job'[Head(args)] \notin {"running", "stopping"}
    BY <1>0, <2>1, <2>2, WaitpidFacts
  <2>4. TypeOK' /\ Flags'
    BY <1>0, <1>7, <2>1, <2>2, <2>3 DEF WaitNext, TypeOK, Flags, ShellRuns
  <2>5. Missed' \subseteq Missed
    BY <1>7, <2>1, <2>3, MissedShrinks DEF WaitNext
  <2>6. QED
    BY <1>0, <1>7, <2>4, <2>5, CoveredStays DEF WaitNext, Inv
<1>8. CASE WaitReport
  <2>1. output' \in Seq(Jobs)
    BY <1>0, <1>8, AppendProperties DEF WaitReport, TypeOK
  <2>2. TypeOK' /\ Flags'
    BY <1>0, <1>8, <2>1 DEF WaitReport, ShellAt, TypeOK, Flags, ShellRuns
  <2>3. Covered'
    BY <1>0, <1>8 DEF WaitReport, ShellAt, Covered, Missed
  <2>4. QED
    BY <2>2, <2>3 DEF Inv
<1>9. CASE WaitDone
  <2>1. TypeOK'
    BY <1>0, <1>9, EmptySeq DEF WaitDone, ShellAt, TypeOK
  <2>2. QED
    BY <1>0, <1>9, <2>1 DEF WaitDone, ShellAt, Inv, Flags, ShellRuns, Covered
<1>10. CASE Exit
  BY <1>0, <1>10 DEF Exit, ShellAt, Inv, TypeOK, Flags, ShellRuns, Covered
<1>11. CASE HandleSIGINT
  <2>1. TypeOK' /\ Flags'
    BY <1>0, <1>11 DEF HandleSIGINT, TypeOK, Flags, ShellRuns
  <2>2. Covered'
    BY <1>0, <1>11 DEF HandleSIGINT, Covered, Missed
  <2>3. QED
    BY <2>1, <2>2 DEF Inv
<1>12. CASE ForegroundInterrupted
  <2>1. Interrupted(front)
    BY <1>12 DEF ForegroundInterrupted
  <2>2. QED
    BY <1>0, <1>12, <2>1, InterruptedFacts
       DEF ForegroundInterrupted, Inv, TypeOK, Flags, ShellRuns, Covered
<1>13. CASE WaitInterrupted
  <2>1. Interrupted(Head(args))
    BY <1>13 DEF WaitInterrupted
  <2>2. Tail(args) \in Seq(Jobs \cup {AnyChild}) /\ ToSet(args) = {Head(args)} \cup ToSet(Tail(args))
    BY <1>0, <1>13, ArgsSplit DEF WaitInterrupted, TypeOK
  <2>3. TypeOK' /\ Flags'
    BY <1>0, <1>13, <2>1, <2>2, InterruptedFacts
       DEF WaitInterrupted, TypeOK, Flags, ShellRuns
  <2>4. Missed = {}
    BY <1>0, <1>13, <2>1, InterruptedFacts DEF WaitInterrupted, Covered
  <2>5. \A j \in Missed' : j = Head(args)
    BY <1>13, <2>1, <2>2, <2>4, InterruptedFacts DEF WaitInterrupted, Missed
  <2>6. QED
    BY <2>1, <2>3, <2>5, InterruptedFacts DEF Inv, Covered
<1>14. CASE HandleSIGCHLD
  <2>1. /\ job' \in [Jobs -> {"none", "zombie", "reaped"} \cup Alive]
        /\ \A j \in Jobs : job'[j] # job[j] => job'[j] = "reaped"
    BY <1>0, <1>14 DEF HandleSIGCHLD, TypeOK
  <2>2. output' \in Seq(Jobs)
    <3>1. output \in Seq(Jobs) /\ \A j \in Jobs : Append(output, j) \in Seq(Jobs)
      BY <1>0, AppendProperties DEF TypeOK
    <3>2. QED
      BY <1>14, <3>1 DEF HandleSIGCHLD, Zombies
  <2>3. TypeOK' /\ Flags'
    BY <1>0, <1>14, <2>1, <2>2 DEF HandleSIGCHLD, TypeOK, Flags, ShellRuns
  <2>4. Covered'
    BY <1>14, <2>1, JobsMove DEF HandleSIGCHLD
  <2>5. QED
    BY <2>3, <2>4 DEF Inv
<1>15. ASSUME NEW j \in Jobs, JobEnds(j) \/ JobStops(j) \/ JobContinues(j) PROVE Inv'
  <2>1. /\ job' \in [Jobs -> {"none", "zombie", "reaped"} \cup Alive]
        /\ \A i \in Jobs : job'[i] \in {"running", "stopping"} => job[i] \in {"running", "stopping"}
        /\ pending' = pending \cup ChildSignal
        /\ UNCHANGED <<at, front, wait_data, output, signal_data>>
    BY <1>0, <1>15 DEF JobEnds, JobStops, JobContinues, JobBecomes, TypeOK, Alive
  <2>2. TypeOK' /\ Flags'
    BY <1>0, <2>1 DEF ChildSignal, TypeOK, Flags, ShellRuns
  <2>3. Covered'
    BY <2>1, JobsMove
  <2>4. QED
    BY <2>2, <2>3 DEF Inv
<1>16. ASSUME NEW S \in SUBSET {j \in Jobs : job[j] \in {"running", "continued"}}, Interrupt(S)
       PROVE Inv'
  <2>1. /\ job' \in [Jobs -> {"none", "zombie", "reaped"} \cup Alive]
        /\ \A i \in Jobs : job'[i] \in {"running", "stopping"} => job[i] \in {"running", "stopping"}
    BY <1>0, <1>16 DEF Interrupt, TypeOK
  <2>2. TypeOK' /\ Flags'
    BY <1>0, <1>16, <2>1 DEF Interrupt, ChildSignal, TypeOK, Flags, ShellRuns
  <2>3. Covered'
    BY <1>16, <2>1, JobsMove DEF Interrupt
  <2>4. QED
    BY <2>2, <2>3 DEF Inv
<1>17. QED
  BY <1>1, <1>2, <1>3, <1>4, <1>5, <1>6, <1>7, <1>8, <1>9, <1>10, <1>11, <1>12, <1>13, <1>14,
     <1>15, <1>16 DEF Next, ShellStep, Command, Programs

\* The invariant, for both versions of the shell.
THEOREM InvHolds == Spec => []Inv
BY InitInv, NextInv, PTL DEF Spec

-----------------------------------------------------------------------------
(* What follows *)

\* The types of the state, whatever signals come when.
THEOREM TypeCorrect == Spec => []TypeOK
<1>1. Inv => TypeOK
  BY DEF Inv
<1>2. QED
  BY InvHolds, <1>1, PTL

\* The end of a program is only reported under `wait', by whoever saw it.
THEOREM ReportsHold == Spec => ReportsOnlyDuringWait
<1>1. Inv /\ [Next]_vars => [output' # output => at \in {"wait", "report"}]_vars
  <2> SUFFICES ASSUME Inv, Next, output' # output
               PROVE  at \in {"wait", "report"}
    BY DEF vars
  <2> USE DEF wait_data, signal_data
  <2>1. CASE WaitReport
    BY <2>1 DEF WaitReport, ShellAt
  <2>2. CASE HandleSIGCHLD
    BY <2>2 DEF HandleSIGCHLD, Inv, Flags
  <2>3. ~(Command \/ Programs)
    BY DEF Command, Programs, RunForeground, RunBackground, WaitCommand, WaitCommandAborts, Exit,
      JobEnds, JobStops, JobContinues, JobBecomes, Interrupt
  <2>4. ~(\/ ForegroundReturns \/ WaitNext \/ WaitDone \/ HandleSIGINT
          \/ ForegroundInterrupted \/ WaitInterrupted)
    BY DEF ForegroundReturns, WaitNext, WaitDone, HandleSIGINT, ForegroundInterrupted,
      WaitInterrupted, Interrupted
  <2>5. QED
    BY <2>1, <2>2, <2>3, <2>4 DEF Next, ShellStep
<1>2. QED
  BY InvHolds, <1>1, PTL DEF Spec, ReportsOnlyDuringWait

\* The prompt comes back from a foreground program that ended or stopped, and
\* in work also after the first Ctrl-C.
THEOREM ForegroundHolds == Spec => ForegroundWaits
<1> DEFINE Done == \/ job'[front] \notin {"running", "continued"}
                   \/ version = "work" /\ cancelled /\ handler = "once"
<1>1. Inv /\ [Next]_vars => [at = "front" /\ at' = "prompt" => Done]_vars
  <2> SUFFICES ASSUME Inv, Next, at = "front", at' = "prompt"
               PROVE  Done
    BY DEF vars
  <2>1. CASE ForegroundReturns
    <3>1. front \in Jobs /\ TypeOK
      BY DEF Inv, Flags
    <3>2. QED
      BY <2>1, <3>1, WaitpidFacts DEF ForegroundReturns
  <2>2. CASE ForegroundInterrupted
    <3>1. Interrupted(front)
      BY <2>2 DEF ForegroundInterrupted
    <3>2. version = "work" /\ cancelled
      BY <3>1, InterruptedFacts
    <3>3. QED
      BY <3>1, <3>2 DEF Interrupted
  <2>3. ~(Command \/ Programs)
    BY DEF Command, Programs, RunForeground, RunBackground, WaitCommand, WaitCommandAborts, Exit,
      ShellAt, JobEnds, JobStops, JobContinues, JobBecomes, Interrupt
  <2>4. ~(WaitNext \/ WaitReport \/ WaitDone \/ HandleSIGINT \/ HandleSIGCHLD \/ WaitInterrupted)
    BY DEF WaitNext, WaitReport, WaitDone, HandleSIGINT, HandleSIGCHLD, WaitInterrupted, ShellAt
  <2>5. QED
    BY <2>1, <2>2, <2>3, <2>4 DEF Next, ShellStep
<1>2. QED
  BY InvHolds, <1>1, PTL DEF Spec, ForegroundWaits

\* `wait' misses none of the programs it names, in work at most one.
LEMMA FewMissed ==
  ASSUME Inv, at = "wait", args = <<>>
  PROVE  Cardinality({j \in Jobs \cap ToSet(named) : job[j] \in {"running", "stopping"}})
            <= (IF interrupted /\ version = "work" THEN 1 ELSE 0)
<1> DEFINE left == {j \in Jobs \cap ToSet(named) : job[j] \in {"running", "stopping"}}
<1>1. ToSet(args) = {}
  BY DEF ToSet
<1>2. left = Missed
  BY <1>1 DEF Missed
<1>3. (~interrupted => Missed = {}) /\ \A i, j \in Missed : i = j
  BY DEF Inv, Covered
<1>4. interrupted => version = "work"
  BY DEF Inv, TypeOK, Flags
<1>5. CASE Missed = {}
  <2>1. Cardinality(left) = 0
    BY <1>2, <1>5, FS_EmptySet
  <2>2. QED
    BY <2>1
<1>6. CASE Missed # {}
  <2>1. PICK x : Missed = {x}
    BY <1>3, <1>6
  <2>2. Cardinality(left) = 1
    BY <1>2, <2>1, FS_Singleton
  <2>3. QED
    BY <1>3, <1>4, <1>6, <2>2
<1>7. QED
  BY <1>5, <1>6

\* `wait' is over when every program it names has ended or stopped, whichever
\* handler reaped it and in whatever order they ended.
THEOREM WaitsHold == Spec => WaitsForEach
<1> DEFINE few == Cardinality({j \in Jobs \cap ToSet(named) : job[j] \in {"running", "stopping"}})
                    <= (IF interrupted /\ version = "work" THEN 1 ELSE 0)
<1>1. Inv /\ [Next]_vars => [at = "wait" /\ at' = "prompt" => few]_vars
  <2> SUFFICES ASSUME Inv, Next, at = "wait", at' = "prompt"
               PROVE  few
    BY DEF vars
  <2>1. CASE WaitDone
    BY <2>1, FewMissed DEF WaitDone
  <2>2. ~(Command \/ Programs)
    BY DEF Command, Programs, RunForeground, RunBackground, WaitCommand, WaitCommandAborts, Exit,
      ShellAt, JobEnds, JobStops, JobContinues, JobBecomes, Interrupt
  <2>3. ~(\/ ForegroundReturns \/ WaitNext \/ WaitReport \/ HandleSIGINT \/ HandleSIGCHLD
          \/ ForegroundInterrupted \/ WaitInterrupted)
    BY DEF ForegroundReturns, WaitNext, WaitReport, HandleSIGINT, HandleSIGCHLD,
      ForegroundInterrupted, WaitInterrupted, ShellAt
  <2>4. QED
    BY <2>1, <2>2, <2>3 DEF Next, ShellStep
<1>2. QED
  BY InvHolds, <1>1, PTL DEF Spec, WaitsForEach
=============================================================================
