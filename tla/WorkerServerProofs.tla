------------------------- MODULE WorkerServerProofs -------------------------
(***************************************************************************)
(* Proofs about WorkerServer, for every finite set of clients.             *)
(*                                                                         *)
(* The invariant is TypeOK, WorkerAccounting and NoLostWakeup together     *)
(* with NotStarted, which says that MainCreate starts the only server      *)
(* thread: a second one would take over the count of the first.            *)
(* WorkerAccounting carries the argument: a decrement of num_workers is    *)
(* only ever made for a worker or a server-thread count that the sum       *)
(* contains, which is what keeps num_workers a natural number.             *)
(***************************************************************************)
EXTENDS WorkerServer, FiniteSetTheorems, TLAPS

\* There is no server thread before main() creates it.
NotStarted == main = "create" => srv = "none"

\* The invariant that is preserved by every step.
Inv == TypeOK /\ WorkerAccounting /\ NoLostWakeup /\ NotStarted

\* Two sets of clients, told apart by worker locations, are finite and have
\* natural cardinalities.
LEMMA SetsFinite ==
    /\ IsFiniteSet(Active) /\ Cardinality(Active) \in Nat
    /\ IsFiniteSet(Failed) /\ Cardinality(Failed) \in Nat
<1>1. IsFiniteSet(Clients)
  BY ConfigAssumption
<1>2. Active \in SUBSET Clients /\ Failed \in SUBSET Clients
  BY DEF Active, Failed
<1>3. IsFiniteSet(Active) /\ IsFiniteSet(Failed)
  BY <1>1, <1>2, FS_Subset
<1>4. QED
  BY <1>3, FS_CardinalityType

\* Moving one worker between locations outside "failed": the set of active
\* workers gains it, loses it, or stays the same.
LEMMA WorkerMoved ==
  ASSUME TypeOK, NEW c \in Clients, NEW to,
         worker[c] # "failed", to # "failed",
         worker' = [worker EXCEPT ![c] = to]
  PROVE  /\ Failed' = Failed
         /\ worker[c] \in Running /\ to \in Running => Active' = Active
         /\ worker[c] \in Running /\ to \notin Running =>
              Cardinality(Active') = Cardinality(Active) - 1
         /\ worker[c] \notin Running /\ to \in Running =>
              Cardinality(Active') = Cardinality(Active) + 1
<1>0. \A d \in Clients : worker'[d] = IF d = c THEN to ELSE worker[d]
  BY DEF TypeOK
<1>1. Failed' = Failed
  BY <1>0 DEF Failed
<1>2. ASSUME worker[c] \in Running, to \in Running
      PROVE  Active' = Active
  BY <1>0, <1>2 DEF Active
<1>3. ASSUME worker[c] \in Running, to \notin Running
      PROVE  Cardinality(Active') = Cardinality(Active) - 1
  <2>1. Active' = Active \ {c} /\ c \in Active
    BY <1>0, <1>3 DEF Active
  <2>2. QED
    BY <2>1, SetsFinite, FS_RemoveElement
<1>4. ASSUME worker[c] \notin Running, to \in Running
      PROVE  Cardinality(Active') = Cardinality(Active) + 1
  <2>1. Active' = Active \cup {c} /\ c \notin Active
    BY <1>0, <1>4 DEF Active
  <2>2. QED
    BY <2>1, SetsFinite, FS_AddElement
<1>5. QED
  BY <1>1, <1>2, <1>3, <1>4

\* A step that moves no worker keeps both sets.
LEMMA WorkersKept ==
  ASSUME worker' = worker
  PROVE  Active' = Active /\ Failed' = Failed
BY DEF Active, Failed

\* The sum of WorkerAccounting is a natural number.
LEMMA ShareType == SrvShare \in {0, 1}
BY DEF SrvShare

\* Inv holds before main() starts the server thread.
LEMMA InitInv == Init => Inv
<1> SUFFICES ASSUME Init PROVE Inv
  OBVIOUS
<1>1. TypeOK
  BY DEF Init, TypeOK, Tails
<1>2. Active = {} /\ Failed = {}
  BY DEF Init, Active, Failed, Running
<1>3. WorkerAccounting
  BY <1>2, FS_EmptySet DEF Init, WorkerAccounting, SrvShare, Counting
<1>4. NoLostWakeup
  BY DEF Init, NoLostWakeup
<1>5. QED
  BY <1>1, <1>3, <1>4 DEF Inv, Init, NotStarted

\* Steps that leave every counter, flag and thread where it is.
LEMMA DiesInv == Inv /\ ProcessDies => Inv'
<1> SUFFICES ASSUME Inv, ProcessDies PROVE Inv'
  OBVIOUS
<1>1. Active' = Active /\ Failed' = Failed
  BY WorkersKept DEF ProcessDies
<1>2. QED
  BY <1>1 DEF Inv, ProcessDies, TypeOK, WorkerAccounting, NoLostWakeup, NotStarted,
              SrvShare, server_data, client_data

\* Steps of main.
LEMMA MainInv == Inv /\ (MainStep \/ MainSpuriousWake) => Inv'
<1> SUFFICES ASSUME Inv, MainStep \/ MainSpuriousWake PROVE Inv'
  OBVIOUS
<1> USE DEF Inv, TypeOK, WorkerAccounting, NoLostWakeup, NotStarted,
            SrvShare, Counting, server_data, client_data
<1>0. ASSUME worker' = worker
      PROVE  Active' = Active /\ Failed' = Failed
  BY <1>0, WorkersKept
<1>1. CASE MainCreate
  <2>1. srv = "none"
    BY <1>1 DEF MainCreate
  <2>2. main' = "check" /\ srv' \in {"none", "open"}
    BY <1>1 DEF MainCreate
  <2>3. UNCHANGED <<num_workers, shutdown_requested, freed, alive, worker,
                    conn, tail, getPort>>
    BY <1>1 DEF MainCreate
  <2>4. Active' = Active /\ Failed' = Failed
    BY <2>3, <1>0
  <2>5. QED
    BY <2>1, <2>2, <2>3, <2>4
<1>2. CASE MainCheck
  BY <1>2, <1>0 DEF MainCheck
<1>3. CASE MainSpuriousWake
  BY <1>3, <1>0 DEF MainSpuriousWake
<1>4. CASE MainJoin
  BY <1>4, <1>0 DEF MainJoin
<1>5. CASE MainFree
  BY <1>5, <1>0 DEF MainFree
<1>6. CASE MainReturn
  BY <1>6, DiesInv DEF MainReturn
<1>7. QED
  BY <1>1, <1>2, <1>3, <1>4, <1>5, <1>6 DEF MainStep

\* Steps of the server thread.
LEMMA SrvInv == Inv /\ SrvStep => Inv'
<1> SUFFICES ASSUME Inv, SrvStep PROVE Inv'
  OBVIOUS
<1> USE DEF Inv, TypeOK, WorkerAccounting, NoLostWakeup, NotStarted,
            SrvShare, Counting, server_data, client_data
<1>0. ASSUME worker' = worker
      PROVE  Active' = Active /\ Failed' = Failed
  BY <1>0, WorkersKept
<1>1. CASE SrvOpen
  BY <1>1, <1>0 DEF SrvOpen
<1>2. CASE SrvOpenFails \/ SrvAcceptFails
  BY <1>2, DiesInv DEF SrvOpenFails, SrvAcceptFails
<1>3. CASE SrvCount
  BY <1>3, <1>0, SetsFinite DEF SrvCount
<1>4. CASE SrvReady \/ SrvTimeout
  BY <1>4, <1>0 DEF SrvReady, SrvTimeout
<1>5. ASSUME NEW c \in Clients, SrvAccept(c)
      PROVE  Inv'
  <2>1. worker[c] = "none" /\ worker' = [worker EXCEPT ![c] = "top"]
    BY <1>5 DEF SrvAccept, Backlog
  <2>2. Failed' = Failed /\ Cardinality(Active') = Cardinality(Active) + 1
    BY <2>1, WorkerMoved DEF Running
  <2>3. QED
    BY <1>5, <2>1, <2>2, SetsFinite DEF SrvAccept, Running
<1>6. ASSUME NEW c \in Clients, SrvSpawnFails(c)
      PROVE  Inv'
  <2>1. worker[c] = "none" /\ worker' = [worker EXCEPT ![c] = "failed"]
    BY <1>6 DEF SrvSpawnFails, Backlog
  <2>2. Active' = Active
    BY <2>1 DEF Active, Running
  <2>3. Failed' = Failed \cup {c} /\ c \notin Failed
    BY <2>1 DEF Failed
  <2>4. Cardinality(Failed') = Cardinality(Failed) + 1
    BY <2>3, SetsFinite, FS_AddElement
  <2>5. QED
    BY <1>6, <2>1, <2>2, <2>4, SetsFinite DEF SrvSpawnFails
<1>7. CASE SrvUncount
  BY <1>7, <1>0, SetsFinite DEF SrvUncount, Broadcast
<1>8. CASE SrvCheckShutdown
  BY <1>8, <1>0 DEF SrvCheckShutdown
<1>9. CASE SrvClose
  BY <1>9, <1>0 DEF SrvClose
<1>10. QED
  BY <1>1, <1>2, <1>3, <1>4, <1>5, <1>6, <1>7, <1>8, <1>9 DEF SrvStep

\* Steps of a worker.
LEMMA WorkerInv ==
  ASSUME Inv, NEW c \in Clients, WorkerStep(c) \/ WorkerServes(c)
  PROVE  Inv'
<1> USE DEF Inv, TypeOK, WorkerAccounting, NoLostWakeup, NotStarted,
            SrvShare, Counting, server_data, client_data
\* A worker that stays active changes neither set, and no count.
<1>0. ASSUME NEW from \in Running, NEW to \in Running, WorkerMoves(c, from, to)
      PROVE  /\ Active' = Active /\ Failed' = Failed
             /\ worker' \in [Clients -> {"none", "failed", "gone"} \cup Running]
  <2>1. worker[c] # "failed" /\ to # "failed" /\ worker[c] \in Running
    BY <1>0 DEF WorkerMoves, Running
  <2>2. QED
    BY <1>0, <2>1, WorkerMoved DEF WorkerMoves
<1>1. CASE WorkerTop(c) \/ WorkerRun(c) \/ WorkerPut(c) \/ WorkerLast(c)
  BY <1>1, <1>0 DEF WorkerTop, WorkerRun, WorkerPut, WorkerLast, Running
<1>2. CASE WorkerReadLine(c)
  <2>1. PICK l \in Lines : WorkerMoves(c, "read", LineStep[l])
    BY <1>2 DEF WorkerReadLine
  <2>2. LineStep[l] \in Running
    BY DEF Lines, LineStep, Running
  <2>3. QED
    BY <1>2, <2>1, <2>2, <1>0 DEF WorkerReadLine, Running
<1>3. CASE WorkerReadTail(c)
  <2>1. LineStep[tail[c]] \in Running
    BY <1>3 DEF WorkerReadTail, Tails, LineStep, Running
  <2>2. tail' \in [Clients -> Tails]
    BY <1>3 DEF WorkerReadTail, Tails
  <2>3. QED
    BY <1>3, <2>1, <2>2, <1>0 DEF WorkerReadTail, Running
<1>4. CASE WorkerReadEof(c)
  BY <1>4, <1>0 DEF WorkerReadEof, Running
<1>5. CASE WorkerWall(c)
  BY <1>5, <1>0 DEF WorkerWall, Broadcast, Running
<1>6. CASE WorkerShutdown(c)
  <2>1. /\ Active' = Active /\ Failed' = Failed
        /\ worker' \in [Clients -> {"none", "failed", "gone"} \cup Running]
    BY <1>6, <1>0 DEF WorkerShutdown, Running
  <2>2. main' \in {"create", "check", "join", "free", "return"}
    BY <1>6 DEF WorkerShutdown, Broadcast
  <2>3. main' = "create" => main = "create"
    BY <1>6 DEF WorkerShutdown, Broadcast
  <2>4. QED
    BY <1>6, <2>1, <2>2, <2>3 DEF WorkerShutdown
<1>7. CASE WorkerGetBind(c)
  BY <1>7, <1>0 DEF WorkerGetBind, Running
<1>8. CASE WorkerFaults(c) \/ WorkerGetDies(c) \/ WorkerGetServe(c)
  BY <1>8, DiesInv DEF WorkerFaults, WorkerGetDies, WorkerGetServe
<1>9. CASE WorkerLeave(c)
  <2>1. worker[c] = "leave" /\ worker' = [worker EXCEPT ![c] = "gone"]
    BY <1>9 DEF WorkerLeave, WorkerMoves
  <2>2. worker[c] \in Running /\ worker[c] # "failed" /\ "gone" \notin Running
    BY <2>1 DEF Running
  <2>3. Failed' = Failed /\ Cardinality(Active') = Cardinality(Active) - 1
    BY <2>1, <2>2, WorkerMoved
  <2>4. Cardinality(Active') \in Nat
    <3>1. Active' \subseteq Active
      BY <2>1 DEF Active, Running
    <3>2. QED
      BY <3>1, SetsFinite, FS_Subset, FS_CardinalityType
  <2>5. num_workers' = num_workers - 1 /\ num_workers' \in Nat
    BY <1>9, <2>3, <2>4, SetsFinite DEF WorkerLeave
  <2>6. QED
    BY <1>9, <2>1, <2>3, <2>5, SetsFinite DEF WorkerLeave, Broadcast
<1>10. QED
  BY <1>1, <1>2, <1>3, <1>4, <1>5, <1>6, <1>7, <1>8, <1>9 DEF WorkerStep, WorkerServes

\* Steps of a client, which touch only its connection.
LEMMA ClientInv ==
  ASSUME Inv, NEW c \in Clients, ClientStep(c)
  PROVE  Inv'
<1> USE DEF Inv, TypeOK, WorkerAccounting, NoLostWakeup, NotStarted,
            SrvShare, Counting, server_data
<1>1. CASE ClientConnect(c)
  BY <1>1, WorkersKept DEF ClientConnect
<1>2. CASE \E t \in Tails : ClientEnd(c, t)
  BY <1>2, WorkersKept DEF ClientEnd
<1>3. QED
  BY <1>1, <1>2 DEF ClientStep

\* Inv is inductive.
LEMMA NextInv == Inv /\ [Next]_vars => Inv'
<1> SUFFICES ASSUME Inv, [Next]_vars PROVE Inv'
  OBVIOUS
<1>1. CASE Next
  BY <1>1, MainInv, SrvInv, WorkerInv, ClientInv DEF Next
<1>2. CASE UNCHANGED vars
  BY <1>2, WorkersKept DEF vars, Inv, TypeOK, WorkerAccounting, NoLostWakeup,
     NotStarted, SrvShare, server_data, client_data
<1>3. QED
  BY <1>1, <1>2

\* Inv holds in every reachable state.
THEOREM InvHolds == Spec => []Inv
BY InitInv, NextInv, PTL DEF Spec

\* The state keeps its type; in particular num_workers never goes below 0,
\* although it is decremented by whichever thread takes over a count.
THEOREM TypeCorrect == Spec => []TypeOK
<1>1. Inv => TypeOK
  BY DEF Inv
<1>2. QED
  BY <1>1, InvHolds, PTL

\* num_workers is the number of workers, of failed spawns and of counts
\* the server thread holds, for every finite set of clients.
THEOREM AccountingHolds == Spec => []WorkerAccounting
<1>1. Inv => WorkerAccounting
  BY DEF Inv
<1>2. QED
  BY <1>1, InvHolds, PTL

\* main() is never asleep in pthread_cond_wait with its condition true.
THEOREM NoWakeupLost == Spec => []NoLostWakeup
<1>1. Inv => NoLostWakeup
  BY DEF Inv
<1>2. QED
  BY <1>1, InvHolds, PTL

\* main() leaves its wait loop only when no worker runs and the server
\* thread counts none.
THEOREM LoopExit == Spec => LeavesLoopOnlyWhenIdle
<1>1. ASSUME Inv, Next, main = "check", main' = "join"
      PROVE  shutdown_requested /\ Active = {} /\ srv \notin Counting
  <2>1. MainCheck
    <3>1. ~ProcessDies /\ ~(main' = main) /\ ~Broadcast
      BY <1>1 DEF ProcessDies, Broadcast
    <3>2. CASE MainStep
      BY <3>1, <3>2, <1>1 DEF MainStep, MainCreate, MainJoin, MainFree, MainReturn
    <3>3. CASE alive /\ MainSpuriousWake
      BY <3>3, <1>1 DEF MainSpuriousWake
    <3>4. CASE SrvStep
      BY <3>1, <3>4 DEF SrvStep, SrvOpen, SrvOpenFails, SrvCount, SrvReady, SrvTimeout,
         SrvAccept, SrvSpawnFails, SrvAcceptFails, SrvUncount, SrvCheckShutdown, SrvClose
    <3>5. ASSUME NEW c \in Clients, WorkerStep(c) \/ WorkerServes(c)
          PROVE  FALSE
      BY <3>1, <3>5 DEF WorkerStep, WorkerServes, WorkerTop, WorkerReadTail, WorkerReadEof,
         WorkerGetBind, WorkerGetDies, WorkerShutdown, WorkerLast, WorkerLeave,
         WorkerReadLine, WorkerRun, WorkerWall, WorkerPut, WorkerFaults, WorkerGetServe
    <3>6. ASSUME NEW c \in Clients, ClientStep(c)
          PROVE  FALSE
      BY <3>1, <3>6 DEF ClientStep, ClientConnect, ClientEnd
    <3>7. QED
      BY <1>1, <3>2, <3>3, <3>4, <3>5, <3>6 DEF Next
  <2>2. shutdown_requested /\ ~(num_workers > 0)
    BY <2>1, <1>1 DEF MainCheck
  <2>3. num_workers = 0
    BY <2>2, <1>1 DEF Inv, TypeOK
  <2>4. Cardinality(Active) = 0 /\ SrvShare = 0
    BY <2>3, <1>1, SetsFinite, ShareType DEF Inv, WorkerAccounting
  <2>5. Active = {}
    BY <2>4, SetsFinite, FS_EmptySet
  <2>6. QED
    BY <2>2, <2>4, <2>5 DEF SrvShare
<1>2. Inv /\ [Next]_vars =>
        [main = "check" /\ main' = "join" =>
            shutdown_requested /\ Active = {} /\ srv \notin Counting]_vars
  BY <1>1 DEF vars
<1>3. QED
  BY <1>2, InvHolds, PTL DEF Spec, LeavesLoopOnlyWhenIdle
=============================================================================
