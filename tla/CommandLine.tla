------------------------------ MODULE CommandLine ------------------------------
(***************************************************************************)
(* What the shells do before a command runs: the prompt with the relative  *)
(* path, reading the line, splitting it, and the built-ins that only touch *)
(* the directory (cd, cd-mode, help, exit).  The programs are              *)
(*   muster   Shell/ShellCodeMusterLoesung/shell.c                         *)
(*   work     Shell/Work/shell.c                                           *)
(*   tmp, old Shell/tmp/shell.c and Shell/tmp/shell(1).c                   *)
(*   client   ALTE ABGABE/cli/client.c                                     *)
(*   server   ALTE ABGABE/srv/server.c, which gets its lines from fgets()  *)
(* and each behaviour runs one of them.  Buffers have their real sizes, a  *)
(* line is its number of bytes and of tokens, a path its characters.       *)
(***************************************************************************)
EXTENDS Integers, Sequences, SequencesExt

CONSTANTS
    Dirs,         \* the directories there are, as sequences of characters
    StartDirs,    \* those a shell may be started in
    MaxBytes,     \* bound on the length of a line
    TokenCounts,  \* numbers of tokens a line may have
    Faults        \* may malloc(), realloc() and getcwd() fail?

ASSUME CommandLineAssumption ==
    /\ StartDirs \subseteq Dirs /\ Dirs \subseteq Seq(STRING)
    /\ MaxBytes \in Nat /\ TokenCounts \subseteq Nat
    /\ Faults \in BOOLEAN

(***************************************************************************)
(* The growing buffers.  `start' elements at first; `grow' gives the next  *)
(* size; the room is tested after a store ("after"), or, in the readers    *)
(* with a countdown, before one ("before").                                *)
(***************************************************************************)
Double(n) == 2 * n
AfterFull(n, grow)  == [start |-> n, grow |-> grow, test |-> "after"]

MusterReader == AfterFull(512, "double")
WorkReader   == [start |-> 100, grow |-> "double", test |-> "before"]
TmpReader    == [start |-> 100, grow |-> "double", test |-> "before"]
OldReader    == [start |-> 100, grow |-> "double", test |-> "before"]
ClientReader == AfterFull(1024, "add")
ServerReader == AfterFull(1024, "add")

MusterSplitter == AfterFull(64, "double")
WorkSplitter   == AfterFull(64, "double")
TmpSplitter    == AfterFull(64, "double")
OldSplitter    == AfterFull(64, "double")
ClientSplitter == AfterFull(64, "add")
ServerSplitter == AfterFull(64, "add")

(***************************************************************************)
(* Where getcwd() stores the path: in a block of its own that lives on, or *)
(* in a local array whose address outlives it.                             *)
(***************************************************************************)
MusterCwd == "heap"
WorkCwd   == "stack"
TmpCwd    == "stack"
OldCwd    == "stack"

\* What exit does with the two paths.
MusterExit == "frees"
WorkExit   == "keeps"
TmpExit    == "frees"
OldExit    == "frees"

Programs ==
    [muster |-> [read |-> MusterReader, split |-> MusterSplitter, cwd |-> MusterCwd, exit |-> MusterExit],
     work   |-> [read |-> WorkReader,   split |-> WorkSplitter,   cwd |-> WorkCwd,   exit |-> WorkExit],
     tmp    |-> [read |-> TmpReader,    split |-> TmpSplitter,    cwd |-> TmpCwd,    exit |-> TmpExit],
     old    |-> [read |-> OldReader,    split |-> OldSplitter,    cwd |-> OldCwd,    exit |-> OldExit],
     client |-> [read |-> ClientReader, split |-> ClientSplitter, cwd |-> "none", exit |-> "keeps"],
     server |-> [read |-> ServerReader, split |-> ServerSplitter, cwd |-> "none", exit |-> "keeps"]]

VARIABLES
    program,      \* which program runs
    at,           \* where it is
    block,        \* the buffer being filled: next index, elements, countdown
    outside,      \* has an element been stored behind the buffer? (history)
    tokens,       \* the tokens of the line
    scanned,      \* has strtok() been called before?
    dir,          \* the working directory, as the kernel knows it
    entry, cwd,   \* the two paths; None: not set
    cd_mode,
    sure,         \* was every getcwd() since the last chdir() a success? (history)
    shown         \* the path in the prompt

vars == <<program, at, block, outside, tokens, scanned, dir, entry, cwd, cd_mode,
          sure, shown>>
paths == <<dir, entry, cwd, cd_mode, sure>>
line_data == <<block, outside, tokens, scanned>>

None == <<>>
Garbage == <<"?">>
My == Programs[program]
Empty(policy) == [pos |-> 0, room |-> policy.start, left |-> policy.start]

Grown(policy, b) == IF policy.grow = "double" THEN Double(b.room) ELSE b.room + policy.start

\* Does the next element need a larger block, before or after it is stored?
Grows(policy, b) ==
    IF policy.test = "after" THEN b.pos + 1 >= b.room ELSE b.left = 1

\* Mutant of Stored: the block grows when the next element no longer fits.
StoredLate(policy, b) ==
    LET full == IF policy.test = "after" THEN b.pos + 1 > b.room ELSE b.left = 0
    IN [pos  |-> b.pos + 1,
        room |-> IF full THEN Grown(policy, b) ELSE b.room,
        left |-> IF full THEN b.room ELSE b.left - 1]

\* The block once the next element is stored.
Stored(policy, b) ==
    [pos  |-> b.pos + 1,
     room |-> IF Grows(policy, b) THEN Grown(policy, b) ELSE b.room,
     left |-> IF Grows(policy, b) THEN b.room ELSE b.left - 1]

\* Is the element stored at b.pos behind the block it is stored in?
StoresOutside(policy, b) ==
    b.pos >= (IF policy.test = "before" THEN Stored(policy, b).room ELSE b.room)

Init ==
    /\ program \in DOMAIN Programs
    /\ at = "start"
    /\ block = Empty(Programs[program].read)
    /\ outside = FALSE /\ tokens = 0 /\ scanned = FALSE
    /\ dir \in StartDirs
    /\ entry = None /\ cwd = None
    /\ cd_mode = 0
    /\ sure = TRUE
    /\ shown = <<>>

-----------------------------------------------------------------------------
(* The prompt *)

\* getcwd() called in a function at `frame': the path, or the address of an
\* array that is gone.
Fetched(frame) == IF My.cwd = "heap" THEN dir ELSE <<frame>>

\* main(): the entry directory, then the current one.
Start ==
    /\ at = "start"
    /\ \E e, c \in BOOLEAN :
         /\ (~e \/ ~c) => Faults
         /\ entry' = IF e THEN Fetched("main") ELSE None
         /\ cwd' = IF c THEN Fetched("main") ELSE None
         /\ sure' = c
    /\ at' = "prompt"
    /\ UNCHANGED <<program, line_data, dir, cd_mode, shown>>

\* Mutant of RelativePath: the separator is cut off as well.
RelativePathCut ==
    IF Len(cwd) > Len(entry) THEN SubSeq(cwd, Len(entry) + 2, Len(cwd))
    ELSE IF Len(cwd) < Len(entry) THEN cwd ELSE <<".">>

\* relative_path() in muster compares lengths, not prefixes.
RelativePath ==
    IF Len(cwd) > Len(entry) THEN SubSeq(cwd, Len(entry) + 1, Len(cwd))
    ELSE IF Len(cwd) < Len(entry) THEN cwd ELSE <<".">>

\* relative_path() in the others reads two arrays that are gone: the same
\* one as long as no cd succeeded, so the lengths are equal; then anything,
\* also what is behind an unterminated copy.
WorkRelativePath(p) == p = IF cwd = entry THEN <<>> ELSE Garbage

BeginRead == block' = Empty(My.read) /\ at' = "read"

Prompt ==
    /\ at = "prompt"
    /\ My.cwd # "none" => entry # None /\ cwd # None
    /\ \/ My.cwd = "heap" /\ shown' = RelativePath
       \/ My.cwd = "stack" /\ WorkRelativePath(shown')
       \/ My.cwd = "none" /\ UNCHANGED shown
    /\ BeginRead
    /\ UNCHANGED <<program, outside, tokens, scanned, paths>>

\* A path that was never set is NULL; dead stack memory may end anywhere.
PromptFaults ==
    /\ at = "prompt"
    /\ \/ My.cwd # "none" /\ (entry = None \/ cwd = None)
       \/ My.cwd = "stack" /\ cwd # entry
    /\ at' = "crashed"
    /\ UNCHANGED <<program, line_data, paths, shown>>

-----------------------------------------------------------------------------
(* Reading and splitting *)

\* One more byte of the line.
ReadByte ==
    /\ at = "read"
    /\ block.pos < MaxBytes
    /\ block' = Stored(My.read, block)
    /\ outside' = (outside \/ StoresOutside(My.read, block))
    /\ UNCHANGED <<program, at, tokens, scanned, paths, shown>>

\* Newline or end of file: the '\0', and malloc() in split().  The countdown
\* readers store a newline first.  A line of n bytes has up to (n+1)/2 tokens.
ReadEnds ==
    /\ at = "read"
    /\ \E b \in {block} \cup (IF My.read.test = "before" THEN {Stored(My.read, block)} ELSE {}) :
         outside' = (outside \/ StoresOutside(My.read, block) \/ b.pos >= b.room)
    /\ tokens' \in {k \in TokenCounts : 2 * k <= block.pos + 1}
    /\ block' = Empty(My.split)
    /\ at' = "split"
    /\ UNCHANGED <<program, scanned, paths, shown>>

\* malloc() or realloc() fails.  readinput() of the countdown readers returns
\* NULL: strtok() crashes, or goes on at the end of the line before it.
ReadFails ==
    /\ at = "read" /\ Faults
    /\ block.pos = 0 \/ Grows(My.read, block)
    /\ IF My.read.test = "after" THEN at' = "exited" /\ UNCHANGED <<block, tokens>>
       ELSE IF scanned THEN at' = "split" /\ tokens' = 0 /\ block' = Empty(My.split)
       ELSE at' = "crashed" /\ UNCHANGED <<block, tokens>>
    /\ UNCHANGED <<program, outside, scanned, paths, shown>>

SplitToken ==
    /\ at = "split"
    /\ block.pos < tokens
    /\ block' = Stored(My.split, block)
    /\ outside' = (outside \/ StoresOutside(My.split, block))
    /\ scanned' = TRUE
    /\ UNCHANGED <<program, at, tokens, paths, shown>>

SplitFails ==
    /\ at = "split" /\ Faults
    /\ block.pos = 0 \/ Grows(My.split, block)
    /\ at' = "exited"
    /\ UNCHANGED <<program, line_data, paths, shown>>

\* args[pos] = NULL.
SplitEnds ==
    /\ at = "split"
    /\ block.pos = tokens
    /\ outside' = (outside \/ block.pos >= block.room)
    /\ scanned' = TRUE
    /\ block' = Empty(My.read)
    /\ at' = "command"
    /\ UNCHANGED <<program, tokens, paths, shown>>

-----------------------------------------------------------------------------
(* The commands *)

Next1 == at' = "prompt" /\ tokens' = 0
HasDirs == at = "command" /\ My.cwd # "none"

\* Nothing, a program, help, wait: the directory stays as it is.  The client
\* sends its line, the server executes it.
OtherCommand ==
    /\ at = "command"
    /\ Next1
    /\ UNCHANGED <<program, block, outside, scanned, paths, shown>>

\* Where chdir() goes: to the argument, or without one, to the entry
\* directory if cd_mode allows; chdir(NULL) fails.
Target(d) ==
    /\ d \in Dirs
    /\ \/ tokens > 1
       \/ tokens = 1 /\ cd_mode > 0 /\ d = entry

\* Mutant of Cd: the path is not fetched again.
CdForgets ==
    /\ HasDirs
    /\ \E d \in Dirs : Target(d) /\ dir' = d
    /\ Next1
    /\ UNCHANGED <<program, block, outside, scanned, entry, cwd, cd_mode, sure, shown>>

\* cd: chdir(), then getcwd().
Cd ==
    /\ HasDirs
    /\ \E d \in Dirs : Target(d) /\ dir' = d
    /\ \E ok \in BOOLEAN :
         /\ ~ok => Faults
         /\ sure' = ok
         /\ cwd' = IF ~ok THEN cwd ELSE IF My.cwd = "heap" THEN dir' ELSE <<"run_cd">>
    /\ Next1
    /\ UNCHANGED <<program, block, outside, scanned, entry, cd_mode, shown>>

\* malloc() fails in fetch_cwd(): exit(18), but only after chdir().
CdExits ==
    /\ HasDirs /\ Faults /\ My.cwd = "heap"
    /\ \E d \in Dirs : Target(d) /\ dir' = d
    /\ at' = "exited"
    /\ UNCHANGED <<program, line_data, entry, cwd, cd_mode, sure, shown>>

\* cd-mode, which only muster has; atoi() of the argument.
CdMode ==
    /\ HasDirs /\ program = "muster"
    /\ tokens > 1
    /\ cd_mode' \in {0, 1}
    /\ Next1
    /\ UNCHANGED <<program, block, outside, scanned, dir, entry, cwd, sure, shown>>

\* exit: free() of a path in a local array aborts.
Exit ==
    /\ at = "command"
    /\ tokens > 0 /\ program # "server"
    /\ at' = IF My.exit = "frees" /\ My.cwd = "stack" THEN "aborted" ELSE "exited"
    /\ UNCHANGED <<program, line_data, paths, shown>>

Next ==
    \/ Start \/ Prompt \/ PromptFaults
    \/ ReadByte \/ ReadEnds \/ ReadFails
    \/ SplitToken \/ SplitFails \/ SplitEnds
    \/ OtherCommand \/ Cd \/ CdExits \/ CdMode \/ Exit

Spec == Init /\ [][Next]_vars

-----------------------------------------------------------------------------
(* Properties *)

\* The values each part of the state takes; a countdown and the index make up
\* the size of the block.
TypeOK ==
    /\ program \in DOMAIN Programs
    /\ at \in {"start", "prompt", "read", "split", "command", "crashed", "exited", "aborted"}
    /\ block \in [pos : 0..MaxBytes, room : Nat \ {0}, left : Int]
    /\ at = "read" /\ My.read.test = "before" =>
         block.left >= 1 /\ block.pos + block.left = block.room
    /\ outside \in BOOLEAN /\ scanned \in BOOLEAN
    /\ tokens \in TokenCounts \cup {0}
    /\ dir \in Dirs /\ cd_mode \in {0, 1} /\ sure \in BOOLEAN
    /\ entry \in Dirs \cup {None, <<"main">>}
    /\ cwd \in Dirs \cup {None, <<"main">>, <<"run_cd">>}
    /\ shown \in {<<>>, <<".">>, Garbage} \cup UNION {Suffixes(d) : d \in Dirs}

\* No reader and no splitter stores anything behind its buffer, the '\0' and
\* the terminating NULL included, whatever the length of the line (muster
\* 273-328, work 257-318, client 133-195, server 57-119).
StoresInside == ~outside

\* In the solution a prompt tells the directory: below the entry directory
\* the entry and the prompt make up the path (60-76), unless getcwd() failed
\* after chdir() (53-54).  The one exception is the directory whose name is
\* the entry's and a dot: its prompt is the entry's own.
PromptTells ==
    at = "read" /\ program = "muster" /\ sure
    /\ IsPrefix(entry, dir) /\ dir # entry \o <<".">> =>
        dir = entry \o (IF shown = <<".">> THEN <<>> ELSE shown)
=============================================================================
