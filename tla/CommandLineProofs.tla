--------------------------- MODULE CommandLineProofs ---------------------------
(***************************************************************************)
(* Proofs about CommandLine, for every set of directories and lines of     *)
(* every length.  A reader or splitter keeps one element free: that is     *)
(* Room, which is inductive, and the buffers never overflow because of it. *)
(* The prompt tells the directory because the path that is kept is the     *)
(* kernel's (Current) and the prompt was made from it (Fresh).  TypeOK     *)
(* needs both and the bounds of the indices (Sizes).                       *)
(***************************************************************************)
EXTENDS CommandLine, SequenceTheorems, TLAPS

\* What is true of the buffers of all programs.
Policies ==
    { p \in [start : Nat \ {0, 1}, grow : {"double", "add"}, test : {"after", "before"}] :
        p.test = "before" => p.grow = "double" }

\* A block with a place for the next element; the countdown counts the places.
Free(policy, b) ==
    /\ b \in [pos : Nat, room : Nat \ {0}, left : Int]
    /\ b.pos < b.room
    /\ policy.test = "before" => b.left >= 1 /\ b.pos + b.left = b.room

\* Wherever something is stored, there is a place for it.
Room ==
    /\ program \in DOMAIN Programs
    /\ at = "read" => Free(My.read, block)
    /\ at = "split" => Free(My.split, block)
    /\ ~outside

\* The buffers of each program are of that kind.
LEMMA ProgramPolicies ==
  ASSUME NEW p \in DOMAIN Programs
  PROVE  Programs[p].read \in Policies /\ Programs[p].split \in Policies
         /\ Programs[p].split.test = "after"
<1>1. p \in {"muster", "work", "tmp", "old", "client", "server"}
  BY DEF Programs
<1>2. QED
  BY <1>1 DEF Programs, Policies, AfterFull, MusterReader, WorkReader, TmpReader, OldReader,
    ClientReader, ServerReader, MusterSplitter, WorkSplitter, TmpSplitter, OldSplitter,
    ClientSplitter, ServerSplitter

\* An empty block has a place.
LEMMA EmptyFree ==
  ASSUME NEW policy \in Policies
  PROVE  Free(policy, Empty(policy))
BY DEF Policies, Free, Empty

\* An element that is stored goes into the block and leaves a place behind it.
LEMMA StoredFree ==
  ASSUME NEW policy \in Policies, NEW b, Free(policy, b)
  PROVE  ~StoresOutside(policy, b) /\ Free(policy, Stored(policy, b))
<1>1. Grown(policy, b) > b.room /\ Grown(policy, b) \in Nat \ {0}
  BY DEF Policies, Free, Grown, Double
<1>2. policy.test \in {"after", "before"}
  BY DEF Policies
<1>3. CASE policy.test = "after"
  BY <1>1, <1>3 DEF Free, StoresOutside, Stored, Grows
<1>4. CASE policy.test = "before"
  <2>1. Grown(policy, b) = 2 * b.room
    BY <1>4 DEF Policies, Grown, Double
  <2>2. QED
    BY <1>1, <1>4, <2>1 DEF Free, StoresOutside, Stored, Grows
<1>5. QED
  BY <1>2, <1>3, <1>4

\* Room holds in the initial state.
LEMMA InitRoom == Init => Room
BY ProgramPolicies, EmptyFree DEF Init, Room, My

\* Room is inductive.
LEMMA NextRoom ==
  ASSUME Room, [Next]_vars
  PROVE  Room'
<1> DEFINE read == My.read  split == My.split
<1>0. read \in Policies /\ split \in Policies /\ split.test = "after"
  BY ProgramPolicies DEF Room, My
<1>1. CASE UNCHANGED vars
  BY <1>1 DEF vars, Room, My
<1>2. CASE Start
  BY <1>2 DEF Start, Room, My, line_data
<1>3. CASE Prompt
  BY <1>0, <1>3, EmptyFree DEF Prompt, BeginRead, Room, My
<1>4. CASE PromptFaults
  BY <1>4 DEF PromptFaults, Room, My, line_data
<1>5. CASE ReadByte
  BY <1>0, <1>5, StoredFree DEF ReadByte, Room, My
<1>6. CASE ReadEnds
  <2>1. Free(read, block) /\ Free(read, Stored(read, block)) /\ ~StoresOutside(read, block)
    BY <1>0, <1>6, StoredFree DEF ReadEnds, Room
  <2>2. PICK b \in {block, Stored(read, block)} :
          outside' = (outside \/ StoresOutside(read, block) \/ b.pos >= b.room)
    BY <1>6 DEF ReadEnds
  <2>3. ~(b.pos >= b.room)
    BY <2>1, <2>2 DEF Free
  <2>4. ~outside'
    BY <2>1, <2>2, <2>3 DEF Room
  <2>5. QED
    BY <1>0, <1>6, <2>4, EmptyFree DEF ReadEnds, Room, My
<1>7. CASE ReadFails
  BY <1>0, <1>7, EmptyFree DEF ReadFails, Room, My
<1>8. CASE SplitToken
  <2>1. Free(split, Stored(split, block)) /\ ~StoresOutside(split, block)
    BY <1>0, <1>8, StoredFree DEF SplitToken, Room
  <2>2. QED
    BY <1>8, <2>1 DEF SplitToken, Room, My
<1>9. CASE SplitFails
  BY <1>9 DEF SplitFails, Room, My, line_data
<1>10. CASE SplitEnds
  <2>1. ~(block.pos >= block.room)
    BY <1>10 DEF SplitEnds, Room, Free
  <2>2. ~outside'
    BY <1>10, <2>1 DEF SplitEnds, Room
  <2>3. QED
    BY <1>10, <2>2 DEF SplitEnds, Room, My
<1>11. CASE OtherCommand
  BY <1>11 DEF OtherCommand, Next1, Room, My
<1>12. CASE Cd
  BY <1>12 DEF Cd, Next1, Room, My
<1>13. CASE CdExits
  BY <1>13 DEF CdExits, Room, My, line_data
<1>14. CASE CdMode
  BY <1>14 DEF CdMode, Next1, HasDirs, Room, My
<1>15. CASE Exit
  BY <1>15 DEF Exit, Room, My, line_data
<1>16. QED
  BY <1>1, <1>2, <1>3, <1>4, <1>5, <1>6, <1>7, <1>8, <1>9, <1>10, <1>11, <1>12, <1>13,
     <1>14, <1>15 DEF Next

\* Readers and splitters store nothing behind their buffers, for lines and
\* numbers of tokens of every size and whatever fails.
THEOREM StoresInsideHolds == Spec => []StoresInside
<1>1. Room => StoresInside
  BY DEF Room, StoresInside
<1>2. QED
  BY InitRoom, NextRoom, <1>1, PTL DEF Spec

-----------------------------------------------------------------------------
\* The values the paths take, and what is known of the path in the solution:
\* it is the kernel's one unless getcwd() failed, and the prompt was made of it.
Prompts == {<<>>, <<".">>, Garbage} \cup UNION {Suffixes(d) : d \in Dirs}

Running == at \in {"prompt", "read", "split", "command"}
Current == Running /\ program = "muster" /\ sure => cwd = dir
Fresh   == at = "read" /\ program = "muster" => shown = RelativePath

PathInv ==
    /\ program \in DOMAIN Programs
    /\ dir \in Dirs /\ cd_mode \in {0, 1} /\ sure \in BOOLEAN
    /\ entry \in Dirs \cup {None, <<"main">>}
    /\ cwd \in Dirs \cup {None, <<"main">>, <<"run_cd">>}
    /\ My.cwd = "heap" => entry \in Dirs \cup {None} /\ cwd \in Dirs \cup {None}
    /\ shown \in Prompts
    /\ Current
    /\ Fresh

\* The solution, and no other program, keeps its paths in blocks of its own.
LEMMA MusterHeap ==
  ASSUME program \in DOMAIN Programs
  PROVE  My.cwd = "heap" <=> program = "muster"
<1>1. program \in {"muster", "work", "tmp", "old", "client", "server"}
  BY DEF Programs
<1>2. QED
  BY <1>1 DEF My, Programs, MusterCwd, WorkCwd, TmpCwd, OldCwd

\* A directory, or no path, is a sequence of strings.
LEMMA DirIsSequence ==
  ASSUME NEW d \in Dirs \cup {None}
  PROVE  d \in Seq(STRING) /\ Len(d) \in Nat
<1>1. d \in Seq(STRING)
  BY EmptySeq, CommandLineAssumption DEF CommandLineAssumption, None
<1>2. QED
  BY <1>1, LenProperties

\* What relative_path() gives is a dot, or the end of a directory's path.
LEMMA RelativeIsSuffix ==
  ASSUME entry \in Dirs, cwd \in Dirs
  PROVE  RelativePath \in Prompts
<1> DEFINE n == Len(entry)  m == Len(cwd)
<1>1. n \in Nat /\ m \in Nat /\ cwd \in Seq(STRING)
  BY DirIsSequence
<1>2. SUFFICES ASSUME n # m
               PROVE  RelativePath \in Suffixes(cwd)
  BY <1>1 DEF RelativePath, Prompts
<1>3. CASE m > n
  <2>1. n + 1 \in 1..m /\ RelativePath = SubSeq(cwd, n + 1, m)
    BY <1>1, <1>3 DEF RelativePath
  <2>2. QED
    BY <2>1 DEF Suffixes
<1>4. CASE m < n /\ m > 0
  <2>1. RelativePath = SubSeq(cwd, 1, m)
    BY <1>1, <1>4, SubSeqFull DEF RelativePath
  <2>2. QED
    BY <1>1, <1>4, <2>1 DEF Suffixes
<1>5. CASE m < n /\ m = 0
  <2>1. RelativePath = <<>>
    BY <1>1, <1>5, EmptySeq DEF RelativePath
  <2>2. QED
    BY <2>1 DEF Suffixes
<1>6. QED
  BY <1>1, <1>2, <1>3, <1>4, <1>5

\* PathInv holds in the initial state.
LEMMA InitPath == Init => PathInv
BY CommandLineAssumption DEF CommandLineAssumption, Init, PathInv, Prompts, Current, Fresh, Running

\* PathInv is inductive.
LEMMA NextPath ==
  ASSUME PathInv, [Next]_vars
  PROVE  PathInv'
<1> USE DEF PathInv, Current, Fresh, Running, My
<1>0. (My.cwd = "heap" <=> program = "muster") /\ Garbage \in Prompts /\ <<>> \in Prompts
  BY MusterHeap DEF Prompts
<1>1. CASE UNCHANGED vars
  BY <1>1 DEF vars, RelativePath
<1>2. CASE Start
  <2>1. Fetched("main") \in Dirs \cup {<<"main">>}
        /\ (program = "muster" => Fetched("main") = dir)
    BY <1>0 DEF Fetched
  <2>2. QED
    BY <1>0, <1>2, <2>1 DEF Start
<1>3. CASE Prompt
  <2>1. CASE My.cwd = "heap" /\ shown' = RelativePath
    <3>1. RelativePath \in Prompts
      BY <1>3, <2>1, RelativeIsSuffix DEF Prompt
    <3>2. QED
      BY <1>0, <1>3, <2>1, <3>1 DEF Prompt, BeginRead, paths, RelativePath
  <2>2. CASE My.cwd # "heap"
    <3>1. shown' \in Prompts
      BY <1>0, <1>3, <2>2 DEF Prompt, WorkRelativePath
    <3>2. QED
      BY <1>0, <1>3, <2>2, <3>1 DEF Prompt, BeginRead, paths
  <2>3. QED
    BY <1>3, <2>1, <2>2 DEF Prompt
<1>4. CASE PromptFaults
  BY <1>4 DEF PromptFaults, paths
<1>5. CASE ReadByte
  BY <1>5 DEF ReadByte, paths, RelativePath
<1>6. CASE ReadEnds
  BY <1>6 DEF ReadEnds, paths
<1>7. CASE ReadFails
  BY <1>7 DEF ReadFails, paths
<1>8. CASE SplitToken
  BY <1>8 DEF SplitToken, paths
<1>9. CASE SplitFails
  BY <1>9 DEF SplitFails, paths
<1>10. CASE SplitEnds
  BY <1>10 DEF SplitEnds, paths
<1>11. CASE OtherCommand
  BY <1>11 DEF OtherCommand, Next1, paths
<1>12. CASE Cd
  <2>1. dir' \in Dirs
    BY <1>12 DEF Cd, Target
  <2>2. PICK ok \in BOOLEAN :
          /\ sure' = ok
          /\ cwd' = IF ~ok THEN cwd ELSE IF My.cwd = "heap" THEN dir' ELSE <<"run_cd">>
    BY <1>12 DEF Cd
  <2>3. QED
    BY <1>0, <1>12, <2>1, <2>2 DEF Cd, Next1
<1>13. CASE CdExits
  BY <1>13 DEF CdExits, Target
<1>14. CASE CdMode
  BY <1>14 DEF CdMode, Next1, HasDirs
<1>15. CASE Exit
  BY <1>15 DEF Exit, paths
<1>16. QED
  BY <1>1, <1>2, <1>3, <1>4, <1>5, <1>6, <1>7, <1>8, <1>9, <1>10, <1>11, <1>12, <1>13,
     <1>14, <1>15 DEF Next

\* A path below the entry directory is the entry and the prompt.
LEMMA PromptIsPath == PathInv => PromptTells
<1> SUFFICES ASSUME PathInv, at = "read", program = "muster", sure,
                    IsPrefix(entry, dir), dir # entry \o <<".">>
             PROVE  dir = entry \o (IF shown = <<".">> THEN <<>> ELSE shown)
  BY DEF PromptTells
<1> DEFINE n == Len(entry)  m == Len(dir)
<1>1. cwd = dir /\ shown = RelativePath
  BY DEF PathInv, Current, Fresh, Running
<1>2. entry \in Seq(STRING) /\ dir \in Seq(STRING) /\ n \in Nat /\ m \in Nat
  BY MusterHeap, DirIsSequence DEF PathInv
<1>3. n <= m /\ SubSeq(entry, 1, n) = SubSeq(dir, 1, n)
  BY DEF IsPrefix
<1>4. SubSeq(entry, 1, n) = entry /\ SubSeq(dir, 1, m) = dir
  BY <1>2, SubSeqFull
<1>5. CASE m = n
  <2>1. shown = <<".">>
    BY <1>1, <1>2, <1>5 DEF RelativePath
  <2>2. dir = entry
    BY <1>3, <1>4, <1>5
  <2>3. QED
    BY <1>2, <2>1, <2>2, ConcatEmptySeq
<1>6. CASE m > n
  <2>1. shown = SubSeq(dir, n + 1, m)
    BY <1>1, <1>6 DEF RelativePath
  <2>2. SubSeq(dir, 1, n) \o SubSeq(dir, n + 1, m) = SubSeq(dir, 1, m)
    <3>1. 1 \in 1..m + 1 /\ n \in 1 - 1..m /\ m \in n..m
      BY <1>2, <1>6
    <3>2. QED
      BY <1>2, <3>1, ConcatAdjacentSubSeq
  <2>3. dir = entry \o shown
    BY <1>3, <1>4, <2>1, <2>2
  <2>4. shown # <<".">>
    BY <2>3
  <2>5. QED
    BY <2>3, <2>4
<1>7. QED
  BY <1>2, <1>3, <1>5, <1>6

\* In the solution the prompt tells the directory, whatever directories there
\* are, wherever the shell was started and wherever cd went.
THEOREM PromptTellsHolds == Spec => []PromptTells
BY InitPath, NextPath, PromptIsPath, PTL DEF Spec

-----------------------------------------------------------------------------
\* The places of the program, and how far the indices get: a reader is bounded
\* by the line, a splitter by the tokens, and a token needs a byte of the line.
Sizes ==
    /\ at \in {"start", "prompt", "read", "split", "command", "crashed", "exited", "aborted"}
    /\ block \in [pos : 0..MaxBytes, room : Nat \ {0}, left : Int]
    /\ tokens \in TokenCounts \cup {0}
    /\ at = "split" => block.pos <= tokens /\ tokens <= MaxBytes
    /\ outside \in BOOLEAN /\ scanned \in BOOLEAN

\* An empty block is within the bounds.
LEMMA EmptySize ==
  ASSUME NEW policy \in Policies
  PROVE  /\ Empty(policy) \in [pos : 0..MaxBytes, room : Nat \ {0}, left : Int]
         /\ Empty(policy).pos = 0
<1>1. 0 \in 0..MaxBytes
  BY CommandLineAssumption DEF CommandLineAssumption
<1>2. QED
  BY <1>1 DEF Policies, Empty

\* An element that is stored moves the index by one.
LEMMA StoredSize ==
  ASSUME NEW policy \in Policies, NEW b, Free(policy, b), b.pos < MaxBytes
  PROVE  /\ Stored(policy, b) \in [pos : 0..MaxBytes, room : Nat \ {0}, left : Int]
         /\ Stored(policy, b).pos = b.pos + 1
<1>1. Stored(policy, b) \in [pos : Nat, room : Nat \ {0}, left : Int]
  BY StoredFree DEF Free
<1>2. Stored(policy, b).pos = b.pos + 1
  BY DEF Stored
<1>3. b.pos + 1 \in 0..MaxBytes
  BY CommandLineAssumption DEF CommandLineAssumption, Free
<1>4. QED
  BY <1>1, <1>2, <1>3 DEF Stored

\* Sizes holds in the initial state.
LEMMA InitSizes == Init => Sizes
BY ProgramPolicies, EmptySize DEF Init, Sizes

\* Sizes is inductive beside Room.
LEMMA NextSizes ==
  ASSUME Sizes, Room, [Next]_vars
  PROVE  Sizes'
<1> DEFINE read == My.read  split == My.split
<1>0. read \in Policies /\ split \in Policies
  BY ProgramPolicies DEF Room, My
<1> USE DEF Sizes
<1>1. CASE UNCHANGED vars
  BY <1>1 DEF vars
<1>2. CASE Start
  BY <1>2 DEF Start, line_data
<1>3. CASE Prompt
  BY <1>0, <1>3, EmptySize DEF Prompt, BeginRead
<1>4. CASE PromptFaults
  BY <1>4 DEF PromptFaults, line_data
<1>5. CASE ReadByte
  <2>1. block' \in [pos : 0..MaxBytes, room : Nat \ {0}, left : Int]
    BY <1>0, <1>5, StoredSize DEF ReadByte, Room
  <2>2. outside' \in BOOLEAN
    BY <1>5 DEF ReadByte
  <2>3. QED
    BY <1>5, <2>1, <2>2 DEF ReadByte
<1>6. CASE ReadEnds
  <2>1. tokens' \in TokenCounts /\ 2 * tokens' <= block.pos + 1
    BY <1>6 DEF ReadEnds
  <2>2. tokens' \in Nat /\ tokens' <= MaxBytes
    BY <2>1, CommandLineAssumption DEF CommandLineAssumption
  <2>3. block' \in [pos : 0..MaxBytes, room : Nat \ {0}, left : Int] /\ block'.pos = 0
    BY <1>0, <1>6, EmptySize DEF ReadEnds
  <2>4. outside' \in BOOLEAN
    BY <1>6 DEF ReadEnds
  <2>5. QED
    BY <1>6, <2>1, <2>2, <2>3, <2>4 DEF ReadEnds
<1>7. CASE ReadFails
  <2>1. 0 <= MaxBytes
    BY CommandLineAssumption DEF CommandLineAssumption
  <2>2. QED
    BY <1>0, <1>7, <2>1, EmptySize DEF ReadFails
<1>8. CASE SplitToken
  <2>1. block.pos \in Nat /\ tokens \in Nat /\ MaxBytes \in Nat
    BY CommandLineAssumption DEF CommandLineAssumption
  <2>2. block.pos < tokens /\ tokens <= MaxBytes /\ Free(split, block)
    BY <1>8 DEF SplitToken, Room
  <2>3. block' \in [pos : 0..MaxBytes, room : Nat \ {0}, left : Int]
        /\ block'.pos = block.pos + 1
    BY <1>0, <1>8, <2>1, <2>2, StoredSize DEF SplitToken
  <2>4. outside' \in BOOLEAN
    BY <1>8 DEF SplitToken
  <2>5. QED
    BY <1>8, <2>1, <2>2, <2>3, <2>4 DEF SplitToken
<1>9. CASE SplitFails
  BY <1>9 DEF SplitFails, line_data
<1>10. CASE SplitEnds
  <2>1. outside' \in BOOLEAN
    BY <1>10 DEF SplitEnds
  <2>2. QED
    BY <1>0, <1>10, <2>1, EmptySize DEF SplitEnds
<1>11. CASE OtherCommand
  BY <1>11 DEF OtherCommand, Next1
<1>12. CASE Cd
  BY <1>12 DEF Cd, Next1
<1>13. CASE CdExits
  BY <1>13 DEF CdExits, line_data
<1>14. CASE CdMode
  BY <1>14 DEF CdMode, Next1, HasDirs
<1>15. CASE Exit
  BY <1>15 DEF Exit, line_data
<1>16. QED
  BY <1>1, <1>2, <1>3, <1>4, <1>5, <1>6, <1>7, <1>8, <1>9, <1>10, <1>11, <1>12, <1>13,
     <1>14, <1>15 DEF Next

\* Each variable keeps its values, for lines of every length: indices and
\* tokens stay within the line, and a countdown and its index make up the
\* size of the block.
THEOREM TypeCorrect == Spec => []TypeOK
<1>1. Sizes /\ Room /\ PathInv => TypeOK
  BY DEF Sizes, Room, PathInv, TypeOK, Free, Prompts
<1>2. QED
  BY InitRoom, NextRoom, InitPath, NextPath, InitSizes, NextSizes, <1>1, PTL DEF Spec
=============================================================================
