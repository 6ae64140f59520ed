----------------------------- MODULE ShellPipeline -----------------------------
(***************************************************************************)
(* Pipelines of the shell, run() and run_piped() of                        *)
(* "Shell/ShellCodeMusterLoesung/shell.c", and run() and runWithPipe() of  *)
(* "Shell/Work/shell.c", which make the same calls but do not restart a    *)
(* waitpid() that Ctrl-C interrupts.  The shell forks a runner, the        *)
(* runner makes the pipe and forks a child for the first command; the      *)
(* child writes the pipe, and the runner itself becomes the second command *)
(* once the first is over.  A process whose execvp(), pipe() or fork()     *)
(* fails falls out of run_piped() and run() and is one more shell in       *)
(* loop(), with the descriptors it has by then.                            *)
(*                                                                         *)
(* Outside are the kernel (a pipe that holds Capacity lines, end of file   *)
(* once no process has the write end open, SIGPIPE for a writer without    *)
(* reader) and the programs, which write some lines and end.               *)
(***************************************************************************)
EXTENDS Integers, Sequences, SequencesExt

CONSTANTS
    Capacity,     \* lines a pipe holds
    MaxLines,     \* bound on the lines the first command writes
    CanStop       \* may the first command be stopped by a signal?

ASSUME PipelineAssumption ==
    /\ Capacity \in Nat \ {0}
    /\ MaxLines \in Nat
    /\ CanStop \in BOOLEAN

\* All that matters of a line: is it "exit", should a shell read it?
Lines == {"text", "exit"}

VARIABLES
    restarts,     \* is an interrupted waitpid() restarted?
    interrupted,  \* whose waitpid() did Ctrl-C end in this pipeline?
    shell,        \* "prompt", or "front": in waitpid() for the runner
    background,   \* was the last argument "&"?
    runner,       \* where the runner is
    first,        \* where its child is
    halt,         \* has the child been stopped, and does the runner know?
    reading,      \* the processes with the read end of the pipe open
    writing,      \* the processes with the write end open
    pipe,         \* the lines in the pipe
    todo,         \* the lines the child writes before it ends or reads a command
    written,      \* what the child wrote to its standard output (history)
    received      \* what the second command read (history)

vars == <<restarts, interrupted, shell, background, runner, first, halt, reading, writing, pipe, todo,
          written, received>>
child_data == <<first, halt, todo, written>>
signal_data == <<restarts, interrupted>>
shell_data == <<shell, background, signal_data>>

\* "exit" or falling out of loop() closes what a process has open.
RunnerEnds ==
    /\ runner' = "ended"
    /\ reading' = reading \ {"runner"}
    /\ writing' = writing \ {"runner"}
FirstEnds ==
    /\ first' = "ended"
    /\ reading' = reading \ {"first"}
    /\ writing' = writing \ {"first"}

\* The child does something: it is there and not stopped.
FirstAt(place) == first = place /\ halt \notin {"untold", "told"}

Init ==
    /\ restarts \in BOOLEAN /\ interrupted = {}
    /\ shell = "prompt" /\ background = FALSE
    /\ runner = "ended" /\ first = "ended" /\ halt = "no"
    /\ reading = {} /\ writing = {}
    /\ pipe = <<>> /\ todo = <<>>
    /\ written = <<>> /\ received = <<>>

-----------------------------------------------------------------------------
(* The shell *)

\* Mutant of RunPipeline: the shell never waits.
RunPipelineOnly(amp) ==
    /\ shell = "prompt"
    /\ runner = "ended" /\ first = "ended"
    /\ background' = amp
    /\ shell' = "prompt"
    /\ runner' = "forked"
    /\ halt' = "no" /\ pipe' = <<>>
    /\ written' = <<>> /\ received' = <<>>
    /\ interrupted' = {}
    /\ UNCHANGED <<restarts, first, todo, reading, writing>>

\* run() forks.  One pipeline at a time (bound), so the histories start anew.
RunPipeline(amp) ==
    /\ shell = "prompt"
    /\ runner = "ended" /\ first = "ended"
    /\ background' = amp
    /\ shell' = IF amp THEN "prompt" ELSE "front"
    /\ runner' = "forked"
    /\ halt' = "no" /\ pipe' = <<>>
    /\ written' = <<>> /\ received' = <<>>
    /\ interrupted' = {}
    /\ UNCHANGED <<restarts, first, todo, reading, writing>>

\* waitpid(pid, &status, WUNTRACED) in run()
ShellReturns ==
    /\ shell = "front"
    /\ runner = "ended"
    /\ shell' = "prompt"
    /\ UNCHANGED <<signal_data, background, runner, child_data, reading, writing, pipe, received>>

\* Ctrl-C ends the waitpid() of a process once (bound), unless it restarts.
Interrupts(p) ==
    /\ ~restarts
    /\ p \notin interrupted
    /\ interrupted' = interrupted \cup {p}

\* run() in Work takes the interrupted waitpid() for the end of the pipeline.
ShellInterrupted ==
    /\ shell = "front"
    /\ runner # "ended"
    /\ Interrupts("shell")
    /\ shell' = "prompt"
    /\ UNCHANGED <<restarts, background, runner, child_data, reading, writing, pipe, received>>

-----------------------------------------------------------------------------
(* The runner *)

\* pipe() fails, or fork() after it: return -1, then loop() on the terminal.
RunnerFails ==
    /\ runner = "forked"
    /\ runner' = "shell"
    /\ \E ends \in {{}, {"runner"}} : reading' = ends /\ writing' = ends
    /\ UNCHANGED <<shell_data, child_data, pipe, received>>

RunnerForks ==
    /\ runner = "forked"
    /\ runner' = "dup" /\ first' = "dup"
    /\ reading' = {"runner", "first"}
    /\ writing' = {"runner", "first"}
    /\ UNCHANGED <<shell_data, halt, todo, written, pipe, received>>

\* Mutant of RunnerRedirects: close(fd[1]) is missing.
RunnerRedirectsOnly ==
    /\ runner = "dup"
    /\ runner' = "wait"
    /\ UNCHANGED <<shell_data, child_data, reading, writing, pipe, received>>

\* dup2(fd[0],0); close(fd[1]);  fd[0] stays open as well.
RunnerRedirects ==
    /\ runner = "dup"
    /\ runner' = "wait"
    /\ writing' = writing \ {"runner"}
    /\ UNCHANGED <<shell_data, child_data, reading, pipe, received>>

\* Mutant of RunnerWaits: WNOHANG.
RunnerPolls ==
    /\ runner = "wait"
    /\ runner' = "exec"
    /\ halt' = IF halt = "untold" THEN "told" ELSE halt
    /\ UNCHANGED <<shell_data, first, todo, written, reading, writing, pipe, received>>

\* waitpid(pid, &status, WUNTRACED): the child ended or has been stopped.
RunnerWaits ==
    /\ runner = "wait"
    /\ first = "ended" \/ halt = "untold"
    /\ runner' = "exec"
    /\ halt' = IF halt = "untold" THEN "told" ELSE halt
    /\ UNCHANGED <<shell_data, first, todo, written, reading, writing, pipe, received>>

\* runWithPipe(): so does the runner, which reads while the child still writes.
RunnerInterrupted ==
    /\ runner = "wait"
    /\ first # "ended" /\ halt # "untold"
    /\ Interrupts("runner")
    /\ runner' = "exec"
    /\ UNCHANGED <<restarts, shell, background, child_data, reading, writing, pipe, received>>

\* execvp(second[0], second).  The array ends with an uninitialised element:
\* execvp() may fail for a command that exists.
RunnerExec ==
    /\ runner = "exec"
    /\ runner' \in {"program", "piped_shell"}
    /\ UNCHANGED <<shell_data, child_data, reading, writing, pipe, received>>

\* The second command reads a line, ends at the end of file, or sooner.
SecondReads ==
    /\ runner = "program"
    /\ pipe # <<>>
    /\ pipe' = Tail(pipe)
    /\ received' = Append(received, Head(pipe))
    /\ UNCHANGED <<shell_data, child_data, runner, reading, writing>>

EndOfFile == pipe = <<>> /\ writing = {}

SecondEndsAtEof ==
    /\ runner = "program"
    /\ EndOfFile
    /\ RunnerEnds
    /\ UNCHANGED <<shell_data, child_data, pipe, received>>

SecondEndsEarly ==
    /\ runner = "program"
    /\ ~EndOfFile
    /\ RunnerEnds
    /\ UNCHANGED <<shell_data, child_data, pipe, received>>

\* The runner as a shell on the pipe takes the lines of the first command as
\* commands.
PipedShellReads ==
    /\ runner = "piped_shell"
    /\ pipe # <<>>
    /\ pipe' = Tail(pipe)
    /\ IF Head(pipe) = "exit" THEN RunnerEnds ELSE UNCHANGED <<runner, reading, writing>>
    /\ UNCHANGED <<shell_data, child_data, received>>

\* At the end of file getchar() fails for ever, and loop() prints prompts.
PipedShellSpins ==
    /\ runner = "piped_shell"
    /\ EndOfFile
    /\ UNCHANGED vars

\* The user types "exit" to the runner as a shell on the terminal.
RunnerShellExits ==
    /\ runner = "shell"
    /\ RunnerEnds
    /\ UNCHANGED <<shell_data, child_data, pipe, received>>

-----------------------------------------------------------------------------
(* The child *)

\* Mutant of FirstRedirects: both ends are closed.
FirstClosesBoth ==
    /\ FirstAt("dup")
    /\ first' = "exec"
    /\ reading' = reading \ {"first"}
    /\ writing' = writing \ {"first"}
    /\ UNCHANGED <<shell_data, runner, halt, todo, written, pipe, received>>

\* Mutant of FirstRedirects: close(fd[0]) is missing.
FirstKeepsReader ==
    /\ FirstAt("dup")
    /\ first' = "exec"
    /\ UNCHANGED <<shell_data, runner, halt, todo, written, reading, writing, pipe, received>>

\* dup2(fd[1],1); close(fd[0]);
FirstRedirects ==
    /\ FirstAt("dup")
    /\ first' = "exec"
    /\ reading' = reading \ {"first"}
    /\ UNCHANGED <<shell_data, runner, halt, todo, written, writing, pipe, received>>

\* execvp(first[0], first): a program with some output, or loop() on the
\* terminal, with the pipe as standard output.
FirstExec ==
    /\ FirstAt("exec")
    /\ \/ first' = "program" /\ todo' \in SeqOf(Lines, MaxLines)
       \/ first' = "shell" /\ UNCHANGED todo
    /\ UNCHANGED <<shell_data, runner, halt, written, reading, writing, pipe, received>>

\* Who writes: the program, or the one the child runs as a shell.
Writes == (FirstAt("program") \/ first = "shell") /\ todo # <<>>

\* write() blocks while the pipe is full.
FirstWrites ==
    /\ Writes
    /\ reading # {} /\ Len(pipe) < Capacity
    /\ pipe' = IF "first" \in writing THEN Append(pipe, Head(todo)) ELSE pipe
    /\ written' = Append(written, Head(todo))
    /\ todo' = Tail(todo)
    /\ UNCHANGED <<shell_data, runner, first, halt, reading, writing, received>>

WriterDies ==
    /\ todo' = <<>>
    /\ IF first = "program" THEN FirstEnds ELSE UNCHANGED <<first, reading, writing>>
    /\ UNCHANGED <<shell_data, runner, halt, written, pipe, received>>

\* SIGPIPE
FirstBreaks == Writes /\ reading = {} /\ WriterDies

\* Ctrl-C, or any other signal that ends a program; the shells handle SIGINT.
FirstKilled == first \in {"program", "shell"} /\ todo # <<>> /\ WriterDies

FirstDone ==
    /\ FirstAt("program")
    /\ todo = <<>>
    /\ FirstEnds
    /\ UNCHANGED <<shell_data, runner, halt, todo, written, pipe, received>>

\* The child as a shell runs a command; a program's output goes to the pipe.
FirstShellRuns ==
    /\ FirstAt("shell")
    /\ todo = <<>>
    /\ todo' \in SeqOf(Lines, MaxLines - Len(written))
    /\ UNCHANGED <<shell_data, runner, first, halt, written, reading, writing, pipe, received>>

\* On "exit" it only has to write what stdio has buffered, its own prompts.
FirstShellExits ==
    /\ FirstAt("shell")
    /\ todo = <<>>
    /\ first' = "program"
    /\ todo' = <<"text">>
    /\ UNCHANGED <<shell_data, runner, halt, written, reading, writing, pipe, received>>

\* SIGSTOP and SIGCONT, each at most once (bound).
FirstStops ==
    /\ CanStop
    /\ first \in {"program", "shell"}
    /\ halt = "no"
    /\ halt' = "untold"
    /\ UNCHANGED <<shell_data, runner, first, todo, written, reading, writing, pipe, received>>

FirstContinues ==
    /\ halt \in {"untold", "told"} /\ first # "ended"
    /\ halt' = "continued"
    /\ UNCHANGED <<shell_data, runner, first, todo, written, reading, writing, pipe, received>>

-----------------------------------------------------------------------------
RunnerStep ==
    \/ RunnerFails \/ RunnerForks \/ RunnerRedirects \/ RunnerWaits \/ RunnerExec
    \/ SecondReads \/ SecondEndsAtEof \/ PipedShellReads
FirstStep ==
    FirstRedirects \/ FirstExec \/ FirstWrites \/ FirstBreaks \/ FirstDone

Others ==
    \/ \E amp \in BOOLEAN : RunPipeline(amp)
    \/ ShellInterrupted \/ RunnerInterrupted
    \/ SecondEndsEarly \/ PipedShellSpins \/ RunnerShellExits
    \/ FirstKilled \/ FirstShellRuns \/ FirstShellExits \/ FirstStops \/ FirstContinues

Next == ShellReturns \/ RunnerStep \/ FirstStep \/ Others

Spec == Init /\ [][Next]_vars

\* Every process goes on when it can; nothing is assumed of the user, of
\* signals, or of a program that ends before its input does.
FairSpec == Spec /\ WF_vars(ShellReturns) /\ WF_vars(RunnerStep) /\ WF_vars(FirstStep)

-----------------------------------------------------------------------------
(* Properties *)

\* The values each part of the state takes.  A program never runs with the
\* end of the pipe open that is not its own: a reader that keeps the write end
\* meets no end of file, a writer that keeps the read end no SIGPIPE.
TypeOK ==
    /\ restarts \in BOOLEAN /\ interrupted \subseteq {"shell", "runner"}
    /\ shell \in {"prompt", "front"} /\ background \in BOOLEAN
    /\ runner \in {"forked", "dup", "wait", "exec", "program", "piped_shell", "shell", "ended"}
    /\ first \in {"dup", "exec", "program", "shell", "ended"}
    /\ halt \in {"no", "untold", "told", "continued"}
    /\ reading \subseteq {"runner", "first"} /\ writing \subseteq {"runner", "first"}
    /\ first \in {"program", "shell"} => "first" \notin reading
    /\ runner \in {"program", "piped_shell"} => "runner" \notin writing
    /\ pipe \in Seq(Lines) /\ Len(pipe) <= Capacity
    /\ todo \in Seq(Lines) /\ written \in Seq(Lines) /\ received \in Seq(Lines)

\* The processes that read command lines from the terminal.
TerminalShells ==
    {p \in {"shell"} : shell = "prompt"} \cup {p \in {"runner"} : runner = "shell"}
        \cup {p \in {"first"} : first = "shell"}

\* Under a foreground pipeline at most one shell reads commands from the
\* terminal, whichever of pipe(), fork() and execvp() failed on the way,
\* unless the child was stopped (206-239) or Ctrl-C has brought back the prompt
\* of Work.
OneTerminalShell ==
    ~background /\ halt = "no" /\ interrupted = {} =>
        \A p, q \in TerminalShells : p = q

\* The first command has a reader for as long as it runs (209-212): it gets
\* SIGPIPE only if the runner took a stopped child for one that completed, or
\* did not wait for it after Ctrl-C (Work).
ReaderStays ==
    first # "ended" /\ halt = "no" /\ "runner" \notin interrupted => "runner" \in reading

\* "parent waits for the child to complete since it needs the output" (212):
\* when the second command meets the end of file the first is over, and all
\* that it wrote was read, in order, even if it was stopped and continued or
\* killed on the way.
AllOutputArrives ==
    [][SecondEndsAtEof => first = "ended" /\ received = written]_vars

Failed  == runner \in {"shell", "piped_shell"} \/ first = "shell"
TooMuch == Len(written) + Len(todo) > Capacity

\* A pipeline whose two commands can be executed, and whose first writes no
\* more than a pipe holds, gives the prompt back (239), unless the first is
\* stopped and never continued.
PipelineReturns ==
    shell = "front" ~> shell = "prompt" \/ Failed \/ TooMuch \/ halt # "no"

\* "not a background process => wait for completion" (239): the same without
\* a limit on the output of the first command.
PipelineCompletes ==
    shell = "front" ~> shell = "prompt" \/ Failed \/ halt # "no"
=============================================================================
