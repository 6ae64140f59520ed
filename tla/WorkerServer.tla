---------------------------- MODULE WorkerServer ----------------------------
(***************************************************************************)
(* The thread life cycle of the threaded shell server,                     *)
(* "ALTE ABGABE/srv/server.c": main() waits on a condition variable until  *)
(* a shutdown was requested and num_workers is 0, joins the server thread  *)
(* and frees the shared Server structure; the server thread waits for      *)
(* connections with select() and spawns one detached worker for each; a    *)
(* worker reads lines from its client and executes them.                   *)
(*                                                                         *)
(* Every section between pthread_mutex_lock and pthread_mutex_unlock is    *)
(* one action: no thread performs a blocking call with the lock held       *)
(* (pthread_cond_wait releases it).  `alive' is FALSE once the process is  *)
(* gone: main returned, exit() was called in any thread, or a signal whose *)
(* default action is taken killed it.                                      *)
(***************************************************************************)
EXTENDS Integers, FiniteSets

CONSTANTS
    Clients,          \* connections made in a behaviour, each made once
    ResourceFaults    \* may socket(), accept(), pthread_create() fail?

ASSUME ConfigAssumption ==
    /\ IsFiniteSet(Clients)
    /\ ResourceFaults \in BOOLEAN

VARIABLES
    num_workers, shutdown_requested,   \* the Server structure
    freed,                             \* has main freed that structure?
    alive,                             \* does the process still exist?
    main,                              \* where main() is
    srv,                               \* where the server thread is
    worker,                            \* where each client's worker is
    conn,                              \* each client's end of its connection
    tail,                              \* unterminated last line it sent
    getPort                            \* is PORT + 1 bound by a listener?

vars == <<num_workers, shutdown_requested, freed, alive, main, srv, worker,
          conn, tail, getPort>>
server_data == <<num_workers, shutdown_requested, freed>>
client_data == <<conn, tail>>

(***************************************************************************)
(* Worker locations.  "top": the unlocked read of the last wall message;   *)
(* "read": fgets(); "run": execute() of a line that returns; "put", "get"  *)
(* and "getwait": inside server_put(), before bind() and in accept() of    *)
(* server_get(); "stop": the lock section of the shutdown command; "last": *)
(* execute() of a line that set done; "leave": past the loop.  "failed"    *)
(* marks a connection whose pthread_create() failed.                       *)
(***************************************************************************)
Running == {"top", "read", "run", "put", "get", "getwait", "stop", "last", "leave"}
Active  == {c \in Clients : worker[c] \in Running}
Failed  == {c \in Clients : worker[c] = "failed"}

\* The server thread's share of num_workers: it counts the next worker
\* before select() and keeps that count until a worker or a timeout takes it.
Counting == {"select", "accept", "uncount"}
SrvShare == IF srv \in Counting THEN 1 ELSE 0

\* Connections that completed the TCP handshake and were not accepted.
Backlog == {c \in Clients : conn[c] # "idle" /\ worker[c] = "none"}

\* pthread_cond_broadcast(&s->cond): only main ever waits on it.
Broadcast == main' = IF main = "wait" THEN "check" ELSE main

\* exit() in any thread, or a fatal signal, ends every thread.
ProcessDies ==
    /\ alive' = FALSE
    /\ UNCHANGED <<server_data, main, srv, worker, client_data, getPort>>

Init ==
    /\ num_workers = 0
    /\ shutdown_requested = FALSE
    /\ freed = FALSE
    /\ alive = TRUE
    /\ main = "create"
    /\ srv = "none"
    /\ worker = [c \in Clients |-> "none"]
    /\ conn = [c \in Clients |-> "idle"]
    /\ tail = [c \in Clients |-> "none"]
    /\ getPort = FALSE

-----------------------------------------------------------------------------
(* main() *)

\* pthread_create(&thr, NULL, &server, s); its result is not looked at.
MainCreate ==
    /\ main = "create"
    /\ main' = "check"
    /\ \/ srv' = "open"
       \/ ResourceFaults /\ srv' = "none"
    /\ UNCHANGED <<server_data, alive, worker, client_data, getPort>>

\* while (!shutdown_requested || num_workers > 0) pthread_cond_wait(...)
MainCheck ==
    /\ main = "check"
    /\ main' = IF ~shutdown_requested \/ num_workers > 0 THEN "wait" ELSE "join"
    /\ UNCHANGED <<server_data, alive, srv, worker, client_data, getPort>>

\* pthread_cond_wait may return without a broadcast.
MainSpuriousWake ==
    /\ main = "wait"
    /\ main' = "check"
    /\ UNCHANGED <<server_data, alive, srv, worker, client_data, getPort>>

MainJoin ==
    /\ main = "join"
    /\ srv = "done"
    /\ main' = "free"
    /\ UNCHANGED <<server_data, alive, srv, worker, client_data, getPort>>

MainFree ==
    /\ main = "free"
    /\ freed' = TRUE
    /\ main' = "return"
    /\ UNCHANGED <<num_workers, shutdown_requested, alive, srv, worker,
                   client_data, getPort>>

\* Returning from main() ends the process, detached workers included.
MainReturn ==
    /\ main = "return"
    /\ ProcessDies

-----------------------------------------------------------------------------
(* server(): the accepting thread *)

SrvOpen ==
    /\ srv = "open"
    /\ srv' = "count"
    /\ UNCHANGED <<server_data, alive, main, worker, client_data, getPort>>

\* socket(), bind() or listen() failed: exit(1).
SrvOpenFails ==
    /\ srv = "open"
    /\ ResourceFaults
    /\ ProcessDies

\* Mutant of SrvCount: the count is left to the worker.
SrvCountLater ==
    /\ srv = "count"
    /\ srv' = "select"
    /\ UNCHANGED <<server_data, alive, main, worker, client_data, getPort>>

\* "Preemptively increase the worker count"
SrvCount ==
    /\ srv = "count"
    /\ num_workers' = num_workers + 1
    /\ srv' = "select"
    /\ UNCHANGED <<shutdown_requested, freed, alive, main, worker, client_data,
                   getPort>>

SrvReady ==
    /\ srv = "select"
    /\ Backlog # {}
    /\ srv' = "accept"
    /\ UNCHANGED <<server_data, alive, main, worker, client_data, getPort>>

SrvTimeout ==
    /\ srv = "select"
    /\ Backlog = {}
    /\ srv' = "uncount"
    /\ UNCHANGED <<server_data, alive, main, worker, client_data, getPort>>

\* Mutant of SrvAccept: the loop goes back to select() without a new count.
SrvAcceptNoRecount(c) ==
    /\ srv = "accept"
    /\ c \in Backlog
    /\ worker' = [worker EXCEPT ![c] = "top"]
    /\ srv' = "select"
    /\ UNCHANGED <<server_data, alive, main, client_data, getPort>>

\* accept() and pthread_create(): the worker may run at once, before the
\* server thread reaches the top of its loop again.
SrvAccept(c) ==
    /\ srv = "accept"
    /\ c \in Backlog
    /\ worker' = [worker EXCEPT ![c] = "top"]
    /\ srv' = "count"
    /\ UNCHANGED <<server_data, alive, main, client_data, getPort>>

\* accept() failed: exit(1).
SrvAcceptFails ==
    /\ srv = "accept"
    /\ ResourceFaults
    /\ ProcessDies

\* pthread_create() failed; its result is not looked at.
SrvSpawnFails(c) ==
    /\ srv = "accept"
    /\ ResourceFaults
    /\ c \in Backlog
    /\ worker' = [worker EXCEPT ![c] = "failed"]
    /\ srv' = "count"
    /\ UNCHANGED <<server_data, alive, main, client_data, getPort>>

\* Mutant of SrvUncount: no broadcast after the timeout.
SrvUncountQuiet ==
    /\ srv = "uncount"
    /\ num_workers' = num_workers - 1
    /\ srv' = "checkdown"
    /\ UNCHANGED <<shutdown_requested, freed, alive, main, worker, client_data, getPort>>

SrvUncount ==
    /\ srv = "uncount"
    /\ num_workers' = num_workers - 1
    /\ Broadcast
    /\ srv' = "checkdown"
    /\ UNCHANGED <<shutdown_requested, freed, alive, worker, client_data, getPort>>

\* Mutant of SrvCheckShutdown: the listener stays while workers run.
SrvCheckShutdownIdle ==
    /\ srv = "checkdown"
    /\ srv' = IF shutdown_requested /\ num_workers = 0 THEN "close" ELSE "count"
    /\ UNCHANGED <<server_data, alive, main, worker, client_data, getPort>>

SrvCheckShutdown ==
    /\ srv = "checkdown"
    /\ srv' = IF shutdown_requested THEN "close" ELSE "count"
    /\ UNCHANGED <<server_data, alive, main, worker, client_data, getPort>>

\* close(server_sock_fd) resets the connections that were never accepted.
SrvClose ==
    /\ srv = "close"
    /\ srv' = "done"
    /\ conn' = [c \in Clients |-> IF c \in Backlog THEN "closed" ELSE conn[c]]
    /\ UNCHANGED <<server_data, alive, main, worker, tail, getPort>>

-----------------------------------------------------------------------------
(* worker(): one detached thread per accepted connection *)

\* What the worker does with a line.  fgets() keeps the newline, so strcmp
\* recognises "exit" and "shutdown" only in an unterminated last line; a
\* terminated one is executed as a program and falls under "run".
LineStep == [exit |-> "last", shutdown |-> "stop", run |-> "run",
             put |-> "put", get |-> "get"]
Lines == {"run", "put", "get"}
Tails == {"none", "exit", "shutdown", "run", "put", "get"}

WorkerMoves(c, from, to) ==
    /\ worker[c] = from
    /\ worker' = [worker EXCEPT ![c] = to]

\* The unlocked read of s->last_message_timestamp and s->last_message.
WorkerTop(c) ==
    /\ WorkerMoves(c, "top", "read")
    /\ UNCHANGED <<server_data, alive, main, srv, client_data, getPort>>

WorkerReadLine(c) ==
    /\ conn[c] = "open"
    /\ \E l \in Lines : WorkerMoves(c, "read", LineStep[l])
    /\ UNCHANGED <<server_data, alive, main, srv, client_data, getPort>>

WorkerReadTail(c) ==
    /\ conn[c] = "closed"
    /\ tail[c] # "none"
    /\ WorkerMoves(c, "read", LineStep[tail[c]])
    /\ tail' = [tail EXCEPT ![c] = "none"]
    /\ UNCHANGED <<server_data, alive, main, srv, conn, getPort>>

\* fgets() returned NULL: `continue' tests done, which is still 0.
WorkerReadEof(c) ==
    /\ conn[c] = "closed"
    /\ tail[c] = "none"
    /\ WorkerMoves(c, "read", "top")
    /\ UNCHANGED <<server_data, alive, main, srv, client_data, getPort>>

\* cd, an empty line, a program that ends, get without a name.
WorkerRun(c) ==
    /\ WorkerMoves(c, "run", "top")
    /\ UNCHANGED <<server_data, alive, main, srv, client_data, getPort>>

\* server_wall() broadcasts on the condition variable main waits on.
WorkerWall(c) ==
    /\ WorkerMoves(c, "run", "top")
    /\ Broadcast
    /\ UNCHANGED <<server_data, alive, srv, client_data, getPort>>

\* server_put() copies the announced number of bytes.  When the connection
\* ends before that, getc() returns EOF for ever and this step never comes.
WorkerPut(c) ==
    /\ WorkerMoves(c, "put", "top")
    /\ UNCHANGED <<server_data, alive, main, srv, client_data, getPort>>

\* A missing argument or an unopened file is dereferenced (put, wall), or
\* output, the wall message included, goes to a closed connection: SIGPIPE.
WorkerFaults(c) ==
    /\ \/ worker[c] \in {"put", "run"}
       \/ worker[c] \in {"top", "last"} /\ conn[c] = "closed"
    /\ ProcessDies

\* server_get() binds PORT + 1 and never closes that socket, so a later
\* bind() fails and die() ends the process.
WorkerGetBind(c) ==
    /\ ~getPort
    /\ WorkerMoves(c, "get", "getwait")
    /\ getPort' = TRUE
    /\ UNCHANGED <<server_data, alive, main, srv, client_data>>

WorkerGetDies(c) ==
    /\ getPort
    /\ worker[c] = "get"
    /\ ProcessDies

\* The file is written to the listening socket, not to the accepted one:
\* EPIPE and SIGPIPE (or, without the file, a NULL FILE pointer).
WorkerGetServe(c) ==
    /\ worker[c] = "getwait"
    /\ ProcessDies

WorkerShutdown(c) ==
    /\ WorkerMoves(c, "stop", "last")
    /\ shutdown_requested' = TRUE
    /\ Broadcast
    /\ UNCHANGED <<num_workers, freed, alive, srv, client_data, getPort>>

WorkerLast(c) ==
    /\ WorkerMoves(c, "last", "leave")
    /\ UNCHANGED <<server_data, alive, main, srv, client_data, getPort>>

\* Mutant of WorkerLeave: the count drops without a broadcast.
WorkerLeaveQuiet(c) ==
    /\ WorkerMoves(c, "leave", "gone")
    /\ num_workers' = num_workers - 1
    /\ UNCHANGED <<shutdown_requested, freed, alive, main, srv, client_data, getPort>>

WorkerLeave(c) ==
    /\ WorkerMoves(c, "leave", "gone")
    /\ num_workers' = num_workers - 1
    /\ Broadcast
    /\ UNCHANGED <<shutdown_requested, freed, alive, srv, client_data, getPort>>

-----------------------------------------------------------------------------
(* The clients, as the server sees them.  A connection is "closed" once   *)
(* the worker has been given all of its terminated lines; `tail' is what  *)
(* followed the last newline.                                             *)

ClientConnect(c) ==
    /\ conn[c] = "idle"
    /\ srv \notin {"none", "open", "done"}
    /\ conn' = [conn EXCEPT ![c] = "open"]
    /\ UNCHANGED <<server_data, alive, main, srv, worker, tail, getPort>>

ClientEnd(c, t) ==
    /\ conn[c] = "open"
    /\ worker[c] = "put" => t = "none"
    /\ conn' = [conn EXCEPT ![c] = "closed"]
    /\ tail' = [tail EXCEPT ![c] = t]
    /\ UNCHANGED <<server_data, alive, main, srv, worker, getPort>>

-----------------------------------------------------------------------------
MainStep == alive /\ (MainCreate \/ MainCheck \/ MainJoin \/ MainFree \/ MainReturn)

SrvStep ==
    /\ alive
    /\ \/ SrvOpen \/ SrvOpenFails \/ SrvCount \/ SrvReady \/ SrvTimeout
       \/ \E c \in Clients : SrvAccept(c) \/ SrvSpawnFails(c)
       \/ SrvAcceptFails \/ SrvUncount \/ SrvCheckShutdown \/ SrvClose

\* Steps a worker takes without its client or a child process.
WorkerStep(c) ==
    /\ alive
    /\ \/ WorkerTop(c) \/ WorkerReadTail(c) \/ WorkerReadEof(c)
       \/ WorkerGetBind(c) \/ WorkerGetDies(c)
       \/ WorkerShutdown(c) \/ WorkerLast(c) \/ WorkerLeave(c)

\* Steps that wait for a client, for a child process or for bad luck.
WorkerServes(c) ==
    /\ alive
    /\ \/ WorkerReadLine(c) \/ WorkerRun(c) \/ WorkerWall(c) \/ WorkerPut(c)
       \/ WorkerFaults(c) \/ WorkerGetServe(c)

ClientStep(c) ==
    alive /\ (ClientConnect(c) \/ \E t \in Tails : ClientEnd(c, t))

Next ==
    \/ MainStep
    \/ alive /\ MainSpuriousWake
    \/ SrvStep
    \/ \E c \in Clients : WorkerStep(c) \/ WorkerServes(c) \/ ClientStep(c)

Spec == Init /\ [][Next]_vars

\* The scheduler runs every runnable thread; select() returns after its
\* timeout.  Nothing is assumed of clients or of the programs they start.
FairSpec == Spec /\ WF_vars(MainStep) /\ WF_vars(SrvStep)
                 /\ \A c \in Clients : WF_vars(WorkerStep(c))

-----------------------------------------------------------------------------
(* Properties *)

\* The values each part of the state takes.
TypeOK ==
    /\ num_workers \in Nat
    /\ shutdown_requested \in BOOLEAN
    /\ freed \in BOOLEAN
    /\ alive \in BOOLEAN
    /\ main \in {"create", "check", "wait", "join", "free", "return"}
    /\ srv \in {"none", "open", "count", "checkdown", "close", "done"} \cup Counting
    /\ worker \in [Clients -> {"none", "failed", "gone"} \cup Running]
    /\ conn \in [Clients -> {"idle", "open", "closed"}]
    /\ tail \in [Clients -> Tails]
    /\ getPort \in BOOLEAN

\* num_workers is exactly the number of workers that have not left, plus the
\* count the server thread holds for the next one, plus one for ever for each
\* connection whose worker thread could not be started (lines 312-361, 435-438).
WorkerAccounting ==
    num_workers = Cardinality(Active) + Cardinality(Failed) + SrvShare

\* main never sleeps in pthread_cond_wait when its condition already holds:
\* every section that can make it true also broadcasts (lines 358-361,
\* 416-419, 436-439 against 461-463).
NoLostWakeup ==
    main = "wait" => ~shutdown_requested \/ num_workers > 0

\* main leaves its wait loop only at a moment when a shutdown was requested,
\* no worker runs and the server thread holds no count for another one.
LeavesLoopOnlyWhenIdle ==
    [][main = "check" /\ main' = "join" =>
          shutdown_requested /\ Active = {} /\ srv \notin Counting]_vars

\* Once a shutdown was requested the server thread closes its listening
\* socket, however many of the connections, each made once, come after it
\* (lines 363-368).
ListenerCloses == shutdown_requested ~> (srv = "done" \/ ~alive)

\* When a shutdown was requested, the workers are all gone for good and none
\* of them failed to start, main() ends the process (lines 459-472).
ShutdownCompletes ==
    <>[](shutdown_requested /\ Active = {} /\ Failed = {}) => <>(~alive)

\* "Wait for shutdown and for workers to finish" (line 459), then "Free
\* Server structure": no worker runs once the structure is freed.
WorkersFinishBeforeFree == freed => Active = {}

=============================================================================
