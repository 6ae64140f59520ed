------------------------------- MODULE ShellJobs -------------------------------
(***************************************************************************)
(* Job control of the shell in its two versions: "muster",                 *)
(* "Shell/ShellCodeMusterLoesung/shell.c", and "work",                     *)
(* "Shell/Work/shell.c": the command loop, foreground and background       *)
(* programs, the built-in `wait', and the handlers of SIGCHLD (muster      *)
(* only) and SIGINT, which run between any two instructions of the shell,  *)
(* blocking calls included.                                                *)
(*                                                                         *)
(* signal() has two forms.  In muster's build a handler stays installed,   *)
(* and an interrupted waitpid() starts again.  With -std=c11, as work is   *)
(* built, a handler is good for one signal, and a blocked waitpid() fails. *)
(*                                                                         *)
(* The kernel's part is what waitpid() and signals do: a child is running, *)
(* stopped, a zombie or reaped; signals are not queued, so a pending       *)
(* SIGCHLD stands for any number of children; each handler is one action,  *)
(* and the order of two pending signals is open.  The shell's own code     *)
(* only goes on when no signal is pending, while waitpid() looks for       *)
(* children before it looks for signals.                                   *)
(***************************************************************************)
EXTENDS Integers, Sequences, FiniteSets, SequencesExt

CONSTANTS
    Jobs,         \* programs the shell starts in a behaviour, each once
    AnyChild,     \* an argument of `wait' that is no number: waitpid(0)
    CanStop,      \* may a program be stopped (and continued) by a signal?
    MaxArgs       \* bound on the arguments of one `wait'

ASSUME JobsAssumption ==
    /\ IsFiniteSet(Jobs)
    /\ AnyChild \notin Jobs
    /\ CanStop \in BOOLEAN
    /\ MaxArgs \in Nat

VARIABLES
    version,      \* "muster" or "work"
    handler,      \* what SIGINT does: the handler "stays", runs "once", or "kills"
    job,          \* what the kernel knows of each program
    pending,      \* signals sent to the shell and not yet handled
    at,           \* where the shell is
    front,        \* the program run in the foreground
    named, args,  \* the arguments of `wait': all, and those not yet waited for
    got,          \* what waitpid() returned to b_wait()
    wait_check,
    processes,    \* the pointer: "null", "live", or "freed" and still kept
    output,       \* the programs reported as terminated, in order
    cancelled,    \* has Ctrl-C been typed since the last command?
    interrupted   \* did it end a waitpid() of that command? (history)

vars == <<version, handler, job, pending, at, front, named, args, got, wait_check, processes,
          output, cancelled, interrupted>>
signal_data == <<version, handler, cancelled, interrupted>>
wait_data == <<named, args, got, wait_check, processes>>

\* A program that was continued is not stopped a second time (bound).
Alive    == {"running", "stopping", "stopped", "continued"}
Zombies  == {j \in Jobs : job[j] = "zombie"}
Children == {j \in Jobs : job[j] \notin {"none", "reaped"}}

None == "none"                        \* waitpid() = -1
ShellRuns == at \notin {"exited", "aborted", "killed"}

\* The shell's own code runs.
ShellAt(place) == at = place /\ pending = {}

\* The children waitpid() looks at when called with pid a.
Candidates(a) == IF a = AnyChild THEN Children ELSE {a} \cap Children

\* waitpid(a, &status, WUNTRACED) returns r: a child that ended is reaped, a
\* stop is told once, and without such children the call fails.
Waitpid(a, r) ==
    \/ /\ r \in Candidates(a)
       /\ \/ job[r] = "zombie"   /\ job' = [job EXCEPT ![r] = "reaped"]
          \/ job[r] = "stopping" /\ job' = [job EXCEPT ![r] = "stopped"]
    \/ Candidates(a) = {} /\ r = None /\ UNCHANGED job

Init ==
    /\ version \in {"muster", "work"}
    /\ handler = IF version = "muster" THEN "stays" ELSE "once"
    /\ job = [j \in Jobs |-> "none"]
    /\ pending = {}
    /\ at = "prompt"
    /\ front = None
    /\ named = <<>> /\ args = <<>> /\ got = None
    /\ wait_check = 0
    /\ processes = "null"
    /\ output = <<>>
    /\ cancelled = FALSE /\ interrupted = FALSE

-----------------------------------------------------------------------------
(* The command loop: run() and b_wait() *)

\* fork() and execvp(); a failed execvp() is a program that ends at once.
RunForeground(j) ==
    /\ ShellAt("prompt")
    /\ job[j] = "none"
    /\ job' = [job EXCEPT ![j] = "running"]
    /\ front' = j
    /\ at' = "front"
    /\ cancelled' = FALSE /\ interrupted' = FALSE
    /\ UNCHANGED <<version, handler, pending, wait_data, output>>

\* The last argument is "&".
RunBackground(j) ==
    /\ ShellAt("prompt")
    /\ job[j] = "none"
    /\ job' = [job EXCEPT ![j] = "running"]
    /\ UNCHANGED <<pending, at, front, wait_data, output, signal_data>>

\* Mutant of ForegroundReturns: the parent's waitpid() takes any child.
ForegroundReturnsAny ==
    /\ at = "front"
    /\ \E r \in Jobs \cup {None} : Waitpid(AnyChild, r)
    /\ at' = "prompt"
    /\ front' = None
    /\ UNCHANGED <<pending, wait_data, output, signal_data>>

\* waitpid() in run(): the program ended or stopped, or the SIGCHLD handler
\* has reaped it before.
ForegroundReturns ==
    /\ at = "front"
    /\ \E r \in Jobs \cup {None} : Waitpid(front, r)
    /\ at' = "prompt"
    /\ front' = None
    /\ UNCHANGED <<pending, wait_data, output, signal_data>>

\* processes = realloc(processes, ...).  After an earlier `wait' the pointer
\* is freed memory: undefined, in the builds at hand it works or aborts.
WaitCommand(a) ==
    /\ ShellAt("prompt")
    /\ named' = a /\ args' = a
    /\ wait_check' = 1
    /\ processes' = "live"
    /\ at' = "wait"
    /\ cancelled' = FALSE /\ interrupted' = FALSE
    /\ UNCHANGED <<version, handler, job, pending, front, got, output>>

WaitCommandAborts ==
    /\ ShellAt("prompt")
    /\ processes = "freed"
    /\ at' = "aborted"
    /\ UNCHANGED <<job, pending, front, wait_data, output, signal_data>>

\* Mutant of WaitNext: a failed waitpid() is tried again.
WaitNextRetries ==
    /\ at = "wait"
    /\ args # <<>>
    /\ \E r \in Jobs \cup {None} :
          /\ Waitpid(Head(args), r)
          /\ got' = r
          /\ args' = IF r = None THEN args ELSE Tail(args)
    /\ at' = "report"
    /\ UNCHANGED <<pending, front, named, wait_check, processes, output, signal_data>>

\* Mutant of WaitNext: WNOHANG is added to the options.
WaitNextNoHang ==
    /\ at = "wait"
    /\ args # <<>>
    /\ \/ \E r \in Jobs \cup {None} : Waitpid(Head(args), r) /\ got' = r
       \/ got' = None /\ UNCHANGED job
    /\ args' = Tail(args)
    /\ at' = "report"
    /\ UNCHANGED <<pending, front, named, wait_check, processes, output, signal_data>>

\* processes[i] = waitpid(pid, &status, WUNTRACED)
WaitNext ==
    /\ at = "wait"
    /\ args # <<>>
    /\ \E r \in Jobs \cup {None} : Waitpid(Head(args), r) /\ got' = r
    /\ args' = Tail(args)
    /\ at' = "report"
    /\ UNCHANGED <<pending, front, named, wait_check, processes, output, signal_data>>

\* if (processes[i] > 0 && wait_check == 1) printf(...)
WaitReport ==
    /\ ShellAt("report")
    /\ output' = IF got # None /\ wait_check = 1 THEN Append(output, got) ELSE output
    /\ got' = None
    /\ at' = "wait"
    /\ UNCHANGED <<job, pending, front, named, args, wait_check, processes, signal_data>>

\* Mutant of WaitDone: the flag is decremented, also after Ctrl-C cleared it.
WaitDoneCountsDown ==
    /\ ShellAt("wait")
    /\ args = <<>>
    /\ processes' = IF version = "muster" THEN "freed" ELSE processes
    /\ named' = <<>>
    /\ wait_check' = wait_check - 1
    /\ at' = "prompt"
    /\ UNCHANGED <<job, pending, front, args, got, output, signal_data>>

\* Mutant of WaitDone: wait_check stays 1.
WaitDoneKeepsCheck ==
    /\ ShellAt("wait")
    /\ args = <<>>
    /\ processes' = IF version = "muster" THEN "freed" ELSE processes
    /\ named' = <<>>
    /\ at' = "prompt"
    /\ UNCHANGED <<job, pending, front, args, got, wait_check, output, signal_data>>

\* free(processes) leaves the pointer as it is; work does not free.
WaitDone ==
    /\ ShellAt("wait")
    /\ args = <<>>
    /\ processes' = IF version = "muster" THEN "freed" ELSE processes
    /\ named' = <<>>
    /\ wait_check' = 0
    /\ at' = "prompt"
    /\ UNCHANGED <<job, pending, front, args, got, output, signal_data>>

Exit ==
    /\ ShellAt("prompt")
    /\ at' = "exited"
    /\ UNCHANGED <<job, pending, front, wait_data, output, signal_data>>

-----------------------------------------------------------------------------
(* The handlers *)

\* The handler, before a blocking call or after it; or the signal's default.
HandleSIGINT ==
    /\ ShellRuns
    /\ "INT" \in pending
    /\ pending' = pending \ {"INT"}
    /\ IF handler = "kills"
       THEN at' = "killed" /\ UNCHANGED <<wait_check, handler>>
       ELSE /\ wait_check' = 0
            /\ handler' = IF handler = "once" THEN "kills" ELSE handler
            /\ UNCHANGED at
    /\ UNCHANGED <<version, job, front, named, args, got, processes, output, cancelled,
                   interrupted>>

\* The handler while waitpid(a, &status, WUNTRACED) blocks, which then returns
\* -1 in work.
Interrupted(a) ==
    /\ "INT" \in pending /\ handler = "once"
    /\ \A r \in Candidates(a) : job[r] \notin {"zombie", "stopping"}
    /\ Candidates(a) # {}
    /\ pending' = pending \ {"INT"}
    /\ handler' = "kills"
    /\ wait_check' = 0
    /\ interrupted' = TRUE
    /\ UNCHANGED <<version, job, processes, output, cancelled>>

\* run() takes no notice: the program is not waited for any more.
ForegroundInterrupted ==
    /\ at = "front"
    /\ Interrupted(front)
    /\ at' = "prompt"
    /\ front' = None
    /\ UNCHANGED <<named, args, got>>

\* shell_wait() goes on with the next argument.
WaitInterrupted ==
    /\ at = "wait"
    /\ args # <<>>
    /\ Interrupted(Head(args))
    /\ got' = None
    /\ args' = Tail(args)
    /\ at' = "report"
    /\ UNCHANGED <<front, named>>

\* One waitpid(-1, &status, WNOHANG), whatever the number of zombies.
HandleSIGCHLD ==
    /\ ShellRuns
    /\ "CHLD" \in pending
    /\ pending' = pending \ {"CHLD"}
    /\ \/ \E j \in Zombies :
             /\ job' = [job EXCEPT ![j] = "reaped"]
             /\ output' = IF wait_check = 1 THEN Append(output, j) ELSE output
       \/ Zombies = {} /\ UNCHANGED <<job, output>>
    /\ UNCHANGED <<at, front, wait_data, signal_data>>

-----------------------------------------------------------------------------
(* The programs and the terminal *)

\* Every change of a child sends SIGCHLD (SA_NOCLDSTOP is not set), which work
\* ignores.
ChildSignal == IF version = "muster" THEN {"CHLD"} ELSE {}

JobBecomes(j, from, to) ==
    /\ job[j] \in from
    /\ job' = [job EXCEPT ![j] = to]
    /\ pending' = pending \cup ChildSignal
    /\ UNCHANGED <<at, front, wait_data, output, signal_data>>

JobEnds(j)      == JobBecomes(j, Alive, "zombie")
JobStops(j)     == CanStop /\ JobBecomes(j, {"running"}, "stopping")
JobContinues(j) == JobBecomes(j, {"stopping", "stopped"}, "continued")

\* Ctrl-C, once for each command (bound): SIGINT goes to the shell and to
\* every program; those in S die of it.
Interrupt(S) ==
    /\ at \in {"front", "wait", "report"}
    /\ ~cancelled
    /\ job' = [j \in Jobs |-> IF j \in S THEN "zombie" ELSE job[j]]
    /\ pending' = pending \cup {"INT"} \cup (IF S = {} THEN {} ELSE ChildSignal)
    /\ cancelled' = TRUE
    /\ UNCHANGED <<version, handler, at, front, wait_data, output, interrupted>>

-----------------------------------------------------------------------------
ShellStep ==
    \/ ForegroundReturns \/ WaitNext \/ WaitReport \/ WaitDone
    \/ HandleSIGINT \/ HandleSIGCHLD \/ ForegroundInterrupted \/ WaitInterrupted

Command ==
    \/ \E j \in Jobs : RunForeground(j) \/ RunBackground(j)
    \/ \E a \in SeqOf(Jobs \cup {AnyChild}, MaxArgs) : WaitCommand(a)
    \/ WaitCommandAborts \/ Exit

Programs ==
    \/ \E j \in Jobs : JobEnds(j) \/ JobStops(j) \/ JobContinues(j)
    \/ \E S \in SUBSET {j \in Jobs : job[j] \in {"running", "continued"}} : Interrupt(S)

Next == ShellStep \/ Command \/ Programs

Spec == Init /\ [][Next]_vars

\* The shell goes on whenever it can; nothing is assumed of the programs.
FairSpec == Spec /\ WF_vars(ShellStep)

-----------------------------------------------------------------------------
(* Properties *)

\* The values each part of the state takes.
TypeOK ==
    /\ version \in {"muster", "work"} /\ handler \in {"stays", "once", "kills"}
    /\ job \in [Jobs -> {"none", "zombie", "reaped"} \cup Alive]
    /\ pending \subseteq {"INT", "CHLD"}
    /\ at \in {"prompt", "front", "wait", "report", "exited", "aborted", "killed"}
    /\ front \in Jobs \cup {None}
    /\ named \in Seq(Jobs \cup {AnyChild})
    /\ args \in Seq(Jobs \cup {AnyChild})
    /\ got \in Jobs \cup {None}
    /\ wait_check \in {0, 1}
    /\ processes \in {"null", "live", "freed"}
    /\ output \in Seq(Jobs)
    /\ cancelled \in BOOLEAN /\ interrupted \in BOOLEAN

\* A program is only reported while `wait' runs, by b_wait() or by the
\* handler, never at the prompt or under a foreground program (151, 166, 365).
ReportsOnlyDuringWait ==
    [][output' # output => at \in {"wait", "report"}]_vars

\* The prompt comes back from a foreground program only when that program
\* ended or stopped, whatever other children and signals do meanwhile (muster
\* 239); in work the first Ctrl-C can bring it back as well (172).
ForegroundWaits ==
    [][at = "front" /\ at' = "prompt" =>
          \/ job'[front] \notin {"running", "continued"}
          \/ version = "work" /\ cancelled /\ handler = "once"]_vars

\* "just waits for the first one. once thats completed it waits for the next"
\* (153-154): `wait' is only over when every program it names has ended, or
\* has at least been stopped (which waitpid(..., WUNTRACED) takes for an end);
\* in work it gives up on one of them when it is interrupted (219).
WaitsForEach ==
    [][at = "wait" /\ at' = "prompt" =>
          Cardinality({j \in Jobs \cap ToSet(named) : job[j] \in {"running", "stopping"}})
              <= (IF interrupted /\ version = "work" THEN 1 ELSE 0)]_vars

\* `wait' comes back when all programs end, also for those that are reaped
\* by the handler between two waitpid() calls or that never were children,
\* unless the second Ctrl-C kills the shell of work.
WaitReturns ==
    (\A j \in Jobs : job[j] \in Alive ~> job[j] \notin Alive)
        => (at = "wait" ~> at \in {"prompt", "killed"})

\* "catches all child processes that exit before the waitpid() in bi_wait()
\* returns" (360): the handler has left no zombie when `wait' is over.
CatchesAll ==
    [][version = "muster" /\ at = "wait" /\ at' = "prompt" /\ named # <<>> =>
          Zombies = {}]_vars
=============================================================================
