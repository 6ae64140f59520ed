# Verification of the BS_2024 laboratory programs

`src/` holds the programs of an operating-systems laboratory: two network
shells (a threaded one and a sequential one), a local shell with pipelines and
background jobs, the fork/pipe/signal examples it grew from, a growable-vector
module used by most of them, and a thread-pool exercise with its clients. There
are no tests; the documentation is the comments (German and English) and
`Network Shell/README.md`. The programs share no process: they are separate
systems, and each gets modules of its own.

## 1. Inventory

### 1.1 Threaded shell server, `ALTE ABGABE/srv/server.c`

*State*: the heap structure `Server` (worker count, shutdown flag, one wall
message and its time stamp, a mutex, a condition variable), one `Worker` record
per connection, and state of the process every worker shares: the working
directory, file descriptors 1 and 2, the scan position inside `strtok`, and the
port `PORT + 1`.

*Operations*: `main` starts the server thread, waits on the condition variable
for a shutdown without workers, joins, frees. `server` counts a worker *before*
it waits in `select`, accepts and starts a detached worker, or takes the count
back on the one-second timeout and looks at the shutdown flag there and only
there. `worker` shows the wall message, reads a line with `fgets`, redirects
1 and 2 to its client, recognises `exit` and `shutdown`, splits and executes
the line: `cd`, `get`, `put`, `wall`, or a program.

*Interaction*: threads through `Server` (lock) and through process-wide state
(no lock); client and server by an unframed byte stream.

*Hard*: the count taken early and given back by whoever ends the wait; main
testing two conditions made true by different threads; the wall slot read
without the lock; `strtok`, `chdir` and `dup2` in every worker thread; end of
stream; file transfer inside the command stream.

*Correct when*: the count is exact, no wake-up is lost, main frees only when
nobody can touch the structure any more, a shutdown ends the process, a line is
executed with the tokens and the directory of the client that sent it.

### 1.2 Its client, `ALTE ABGABE/cli/client.c`

A parent that reads lines and sends their tokens, and a forked child that
copies the socket to the terminal without blocking. Sends tokens without a
newline, files after a `put` header, fetches files from `PORT + 1`. Correct
when the server finds in the stream the commands the user typed.

### 1.3 Sequential network shell, `Network Shell/Work`

A server for one client at a time and a client, both with fixed-size messages
over TCP: a 255-byte handshake, 128-byte commands and replies, 1024-byte file
blocks ended by a one-byte message. `recv` is called without `MSG_WAITALL`,
so a message may arrive in pieces or together with the next. Correct when every
reply is read as the reply to its own command, and both sides never wait for
each other.

### 1.4 Echo server, `Network Shell/Echo Server`

A client sends five pings and reads what comes back; the server of one client
echoes what each `read` returns. Hard: short reads, either side gone, a
connection reset with data in it. Correct when both end.

### 1.5 Shell, `Shell/ShellCodeMusterLoesung`, `Shell/Work`, `Shell/tmp`

The solution ("muster"), the students' version ("work"), and two earlier states
of the latter ("tmp", "old").

*State*: the background job table (a vector of pids), `wait_check`, the entry and
current directory strings, `cd_mode`. *Operations*: read a line, split
it, built-ins `cd`, `cd-mode`, `wait`, `exit`, `lhelp`, run in the foreground or
(`&`) in the background, run a pipeline of two, and the `SIGCHLD` (muster) and
`SIGINT` handlers. *Hard*: a handler
runs between any two instructions and reaps one child per signal while signals
coalesce; `wait` and the handler compete for the same children; `signal()` in its
one-shot form, which also makes `waitpid` fail on Ctrl-C; both sides of a
pipeline under a finite pipe; a failed `exec`; buffers that grow after or before
a store; a path kept as the address of a dead array. *Correct when* every child is
reaped and reported once, `wait` returns, a pipeline ends when its programs do,
no buffer overflows, and the prompt tells the directory.

### 1.6 Examples, `Shell/Beispiel`, `Shell/shell_old.c`, and `prog.c`

dup2 (`cat | wc`), fork, fork and wait, signals, one pipe, and ping-pong over two
pipes (`pipe_bidirect/pingpong.c`) ended by SIGINT; `shell_old.c` forks children
and waits for none of them. Correct when each ends and has then done its work:
no child left, no line lost. `prog.c` is a test program the shell runs.

### 1.7 Growable vector, `vec.c`/`vec.h` (also `array.c`/`array.h`)

A header (`len`, `cap`) in front of the elements, doubled when full; macros for
typed push, pop, insertion and iteration. Correct when no element is
written past the capacity and the contents are those of a stack.

### 1.8 Thread pool and its clients, `Threadpool`

`threadpool.h` promises asynchronous calls with futures; `threadpool.c` holds
empty bodies. `main.c` computes Fibonacci numbers with futures, `quicksort.c`
sorts with `partition` and compares two variants. `ppmlib.h` is a preprocessor
library. Correct when `partition` splits around the pivot inside the bounds and
`quicksort` returns the sorted permutation.

### 1.9 Not modelled for good

The course templates (`Vorlage`, `Vorrlage`), `Test_Praktika`, which does not
compile, `signal.c` (one memory fault and a handler that exits), `prog.c` and the
empty thread pool: `PROJECT.json` gives the reason for each. Help texts and the
layout of messages appear in no property and in no model.

## 2. Modules

| Module | Models | Theorems | Runs |
| --- | --- | --- | --- |
| `WorkerServer` | 1.1: threads, worker count, shutdown | `WorkerServerProofs` | `worker_threads`, `worker_early_free` |
| `LineSession` | 1.1 and 1.2: commands, streams, what workers share | `LineSessionProofs` | `line_session` |
| `ShellJobs` | 1.5: jobs, `wait`, signals, two versions | `ShellJobsProofs` | `jobs_wait`, `jobs_zombie` |
| `ShellPipeline` | 1.5: pipelines, two versions | `PipeProofs` | `pipeline_fits`, `pipeline_full` |
| `CommandLine` | 1.5, 1.1, 1.2: prompt, reading, splitting, `cd` | `CommandLineProofs` | `command_lines` |
| `NetShell` | 1.3: client and server together | `NetShellProofs` | `net_session` |
| `Examples` | 1.4, 1.6: seven small programs | `PipeProofs` | `examples` |
| `Quicksort` | 1.8: `quicksort`, `partition` | `QuicksortProofs` | `quicksort_sort` |
| `Stack` | what `vec.h` promises | | |
| `Vec` | 1.7, refines `Stack` | `VecProofs` | `vec_stack` |

A module `MCx` only gives values to the constants of `x`. A definition whose
comment begins with "Mutant of" is not part of any specification: it is a
plausible mistake in the definition it precedes, and the runs are known to
find it.

## 3. WorkerServer

Each lock section of `server.c` is one action, because no thread blocks inside
one (`pthread_cond_wait` releases the lock). `main`, `srv` and `worker[c]` say
where the threads are, `conn[c]` and `tail[c]` what is left of a client: a
connection counts as closed when its worker was given all terminated lines, and
`tail` is what followed the last newline. `fgets` keeps the newline, so only an
unterminated last line can equal `exit` or `shutdown`; the actions follow that.
What commands do is reduced to what they do to the threads: return, block, end
the process (`die`, `exit`, a signal), bind `PORT + 1`.

`MainStep`, `SrvStep` and `WorkerStep(c)` are weakly fair: they are the steps a
thread takes alone, mutexes and `select` with its timeout included, and the
programs called `exit` and `shutdown` that the two last lines start. Reading from
a client, running a program and a transfer (`WorkerServes`) are not fair.

* `worker_threads` (two clients, any resource call may fail): one worker
  running while another is counted, spawned, fails to spawn or waits in the
  backlog, and one client that keeps the server thread away from its timeout
  while the other shuts down. The count is exact (`WorkerAccounting`), `main` does
  not sleep with its condition true (`NoLostWakeup`), the listener closes
  once clients stop coming, and the process ends if workers do.
* `worker_early_free`: leaving the loop is too early all the same. The server
  thread may still accept a worker before it looks at the flag (finding).

Deadlock is not checked: the process ends, and a worker that waits for a silent
client is a state the system may stay in.

*Proofs.* `Inv` is `TypeOK`, `WorkerAccounting`, `NoLostWakeup` and `NotStarted`.
`num_workers \in Nat` is not inductive: a decrement keeps it only because the
sum in `WorkerAccounting` contains the count that is given back. `NotStarted`
is needed because a second server thread would take over the first one's count.
`WorkerMoved` states once what moving a worker does to the cardinalities.
`LoopExit` (`main` leaves its loop only when nobody works at that moment; proved,
in no run) then needs no further invariant: a natural sum that is 0 has zero terms.
The proofs assume a finite set of clients, nothing about its size.

## 4. ShellJobs

`job[j]` is what the kernel knows of a program (running, stopped, zombie,
reaped), `pending` the signals not yet handled, `at` where the shell is. A
handler is one action, enabled between any two steps of the shell: the shell's
own code only goes on with no signal pending, but a blocked `waitpid` looks for
children before it returns to user mode and so may win against the handler.
`SIGCHLD` is in a set: any number of children share one. `processes` follows
the array that is freed after one `wait` and reallocated in the next.

`version` chooses the program. "muster" has a `SIGCHLD` handler and handlers that
stay (BSD form of `signal`, `waitpid` is restarted). "work" is built with
`-std=c11`, which selects the System V form: the `SIGINT` handler is good for one
signal, the interrupted `waitpid` fails (`ForegroundInterrupted`,
`WaitInterrupted`), and the second Ctrl-C kills the shell (`at = "killed"`).

* `jobs_wait` (both versions, two programs, waits of up to two arguments, one
  argument that is no number, stops, Ctrl-C once per command): two children are
  what it takes to have one
  reaped by the handler and one by `waitpid`, or two by one signal. A wait is
  over only after the programs it names, and over when all programs are, although
  each `waitpid` may find its child gone. In "work" the properties allow what
  the interrupted call makes of them, and no more: the first Ctrl-C may bring the
  prompt back early, and a wait may miss one program.
* `jobs_zombie`: the handler's comment promises all children; it catches one
  per signal (finding).

Fair are the steps of the shell alone (`ShellStep`); programs may run for ever,
and `WaitReturns` says so in its premise. Deadlock is not checked: the user may
stop typing and the shell exits.

*Proofs.* For any set of programs and any number of arguments, and both versions:
`TypeOK`, `ReportsOnlyDuringWait`, `ForegroundWaits`, `WaitsForEach`. The invariant
adds two parts to `TypeOK`. `Flags`: a running shell has `wait_check` set only
inside a `wait`, a `SIGINT` is pending only after Ctrl-C, and a `waitpid` was
interrupted only if its handler kills the next time. `Covered`: every program `wait` named and has gone past
has ended or stopped (`Missed` is empty), except for at most one, after the
interruption of "work". It cannot be had from the last step of `wait` alone: the
handler may reap a program before `wait` comes to it, or the signal may tell of
two at once, so the set has to be carried along. `WaitpidFacts` says once what a
`waitpid` that returned tells about the program, whoever reaped it.
`WaitReturns` stays with TLC.

## 5. ShellPipeline

Three processes: the shell, the runner it forks, the runner's child. `reading`
and `writing` are the processes with an end of the pipe open, which decides end
of file and `SIGPIPE`. When `pipe`, `fork` or `execvp` fails, the process falls
through to the command loop; `first = "shell"`, `runner = "shell"` and
`runner = "piped_shell"` are these extra shells, reading the terminal or the
pipe. A line is "exit" or any other text: that is all such a shell cares about.
The unterminated `second` array makes the second `execvp` succeed or not.
`restarts` says whether an interrupted `waitpid` is restarted (muster) or fails
(work: `ShellInterrupted`, `RunnerInterrupted`); two properties exempt a
pipeline in which that happened (`interrupted`).

* `pipeline_fits` (a pipe of two lines, a first command that writes up to three,
  stop, continue, kill): closing is right (no end of the pipe is open in the
  wrong program), the first command keeps its reader, the second has read all of
  the output when it meets the end of file, at most one shell reads the terminal
  under a foreground pipeline, and a pipeline whose output fits ends. Two lines
  allow an empty, a half full and a full pipe; the third makes a writer block.
* `pipeline_full`: the same without the limit (finding); a line like
  `seq 100000 | wc` is such a pipeline.

Fair are the processes of the shell and the two programs as long as they write,
respectively read. A program ending early, the user and signals are not.

*Proofs.* For every capacity of the pipe, every output and both ways of going on
after a signal: `TypeOK`, `ReaderStays`, `OneTerminalShell`, `AllOutputArrives`.
None is inductive. `Ends` ties the open ends of the pipe to where the three
processes are, `Waits` says who waits for whom (so that two shells at the
terminal would need a parent that does not wait), and `Flow` that `received \o
pipe` is `written` until a shell gets to read the pipe; with an empty pipe and
no writer, end of file means that everything has arrived. `PipelineReturns`
stays with TLC. These are the last part of `PipeProofs`; the examples of section
11, which live on pipes as well, come before them.

## 6. NetShell

Client and server are composed in one module, because every property is about
the pair. `Send` appends a whole message to the stream, and `recv` takes all
that is there up to the size of its buffer: a message may come together with the
next, or cut where a buffer ends (`Skip`: the piece that the next byte is in,
without what was received of it, and the pieces behind). TCP delivering half a message is not modelled.
Messages are records whose kind, and whether they are
answer `i`, is all that is kept of the text. The history variables `right` and
`past` say whether a transfer began with the file the user named, and whether
one ever disturbed the session.

* `net_session` (four commands, all but `ls` and programs, which are answered like
  a wrong command, reconnects, files of up to two
  lines, missing files, unanswered `cd`s): until a transfer disturbs the session
  answers match and nobody waits for ever; a transfer that began with the right
  name copies the file completely; the prompt returns. Four commands are enough
  for a transfer, the shifted answer, and a transfer that trips over it.

Behind the two exemptions are two defects of the code; no document of the repository promises
the opposite, so no run is devoted to them. After a `get` the server sends
one more buffer (`server.c:162`) that the client may read as the answer to its
next command, and every later answer is one late. A
command that arrives together with the end mark of a `put` is dropped with it
(`server.c:61`), and both sides wait for ever.

Fair are `CliStep` and `SrvStep`: the processes and the connection; the user is not.

*Proofs.* For every set of commands, every number of them and files of every
length: `TypeOK`, `NoMutualWaitBefore`, `AnswersMatchUntilGet`, `GetCopies`,
`PutCopies`. First come facts about streams: `Before` is a sum over the pieces, so
that the piece byte k is in exists (`ByteHasPiece`) is an induction; it is done
with a set of numbers in place of a predicate (`SetInduction`). From there on
`SkipShape`, `SkipFirst` and `SkipAll` are all the steps need to know of `recv`.
None of the properties is inductive, the parts of `IInv` are:

* `WholeCommands`, `AnswerComes`: before a `put` the server reads along the
  borders of what was sent, so a client that waits has an answer or its command
  on the way. A `put` ends this, because its end mark takes what follows with it.
* `Asked`, `NewFile`: a client that waits for a file name sent its command last;
  the server has not received it, or works on nothing else and has written nothing.
* `Gets`, `Puts`: what the receiver has of the file, what is on its way and what
  the sender still has make up the file (`GetRest`, `PutRest`). An earlier buffer
  in front of the name does not matter, because the history `right` tells whether
  the name that came is the one for this command (`Numbers` keeps the commands apart).
* `OneAnswer`: without `get` at most one answer is on its way, the one to the
  command typed last (`Answer`), although a `put` may have lost commands
  (`Request` follows the file, its end mark and the one command behind it).

TLC has checked every part of `IInv` with the constants of `net_session`.
`PromptReturns` stays with TLC.

## 7. Quicksort

The recursion is a stack of sublists still to sort; `l`, `r` and the pivot are
positions in the current one, as in the code. `quicksort_sort` takes every list
of one to five items over three values: sublists of length 0, 1, 2 and more on both
sides, and values equal to the pivot. `Terminates` needs fairness of the one process.

*Proofs.* For every set of integers and every length: `TypeOK` (positions stay
in bounds, so the unsigned ones do not wrap around), `Scanned` (in no run), `Split`,
`Rearranged`, `Sorted`. `TypeOK`, with `l <= r`, is inductive by itself. Three
further invariants are needed. `Stopped`, for `Scanned` and `Split`: what is known
of the items at `l` and `r` when a scan ends, the case that `r` never moved
included. `Disjoint`: the sublists still to be sorted do not overlap each other or
the current one, so that work on one leaves the others alone. `Ordered`, for
`Sorted`: any two items are in order unless both lie in one sublist still to be
sorted; with no sublist left that is `Sorted`. It survives a rearrangement
inside a sublist because everything before the sublist is no larger, and
everything behind it no smaller, than all of its items. `Rearranged` composes
the permutation so far with the transposition of a swap. Termination is
model-checked only.

## 8. Vec and Stack

`Stack` is what the example in `vec.h` shows the user. `Vec` has the header
(`len`, `cap`), the memory as a function on the allocated indices, the address
of the block and the user's pointers; `realloc` keeps the items and moves the
block or not. `vecPush(p) = x` reserves first and stores second, so the
refinement mapping `contents` leaves out a reserved item. The user keeps the
rules of `vec.h`: a pointer is used while it points to the block, and nothing is
taken from an empty vector (`assert` in `vec.c`).

`vec_stack` starts with one item instead of eight and doubles twice, with two
pointers and two addresses: growth in place and growth that moves, a pointer that
goes stale and one that becomes right again because the block moved back.
Deadlock is not checked: after `exit(-1)` nothing happens.

*Proofs.* `TypeOK` is inductive; it contains `cap > 0`, without which doubling
makes no room. The refinement maps `Store` to `Put`, `vecPop` to `Take`, `vecTop`
to `Look`, release and clear to `Empty`, everything else to a stutter.

## 9. LineSession

A stream is a sequence of words, blanks and newlines, which is what decides
where `fgets` ends a line and what `strtok` makes one token (`Letters`, `Token`,
`Rest`); `Words` is any set of words, and `Size` names the one that `"%i"` makes of
the length of each file. The client's parent
sends what the user types (`ClientLaunch`, `ClientPut`, `ClientGet`,
`ClientExit`); only a `put` header contains a newline, so a line on the server is
everything since the last one. `worker[w].at` follows `worker()` through wall
message, line, redirection, tokens and command. `shared` is what the threads share
without a lock: descriptor 1 (`out`), `strtok`'s position (`scan`: one call, one
action), what `stdout` holds back (`held`), the directory (which a `cd` may fail
to change), `PORT + 1`, and whether
the process still lives: a `get` makes the server write to its listening socket
and die of SIGPIPE, a `wall` without text dereferences NULL. `server_wall` copies
its text in two halves under the lock, and `worker()` reads without it.

`line_session` runs two clients in four scenarios of up to two lines each, every
interleaving of users, both processes of each client and both workers. The two
files, of different lengths and one without a newline at its end, are themselves
commands (`wall y`, `get f`): a byte of a file read as a line would be executed. A
`put` stores a whole file whatever came before the header (`FilesArriveWhole`, for
files that do not hold the word `put`: `PlainFiles`), output goes to its client
(`OwnOutput`), wall messages are whole and in order (`WallsInOrder`), `exit`
ends the worker (`ExitEndsWorker`, with fair workers and no assumption on users).
They hold only without the races the code has. These are
recorded, not excluded: `overlap` is set when a worker redirects while another is
between line and echo, `raced` when a wall message is written while
the worker looks. The scenarios reach two different wall messages in one client
unraced, and each property has a bug it finds. Two lines per client
are enough for a `put` behind an unterminated line, a `wall` before the one of
another client, and an `exit` after a `put`.

Assumed: lines fit into `BUFSIZE`, programs end, and a file is small enough for
one `send`. The client makes its socket non-blocking (`client.c:244`), so a large
`put` may lose bytes when the socket's buffer is full; that is not modelled.

*Proofs.* `OwnOutput` and `WallsInOrder`, for any number of clients, whatever they
type. `Routed`: without `overlap`, descriptor 1 belongs to the worker that
is past its redirection, so there is only one. `Locked` says who holds the lock
and which half of the text is written; `Seen` that an unraced worker looks at the
slot only while nobody holds the lock, and that the latest message was shown to
it only if its time stamp has been noted or is about to be: without this
the message could be shown twice.

`TypeOK`, from `Typed`: beside the types it says what `fgets` and `strtok` return of
any line (a token has at least one word and no blank, a rest is a part of the line),
and that a `put` never takes more bytes than were announced.

`FilesArriveWhole`, for any clients, lines, words and files. It needs `Framing`, which
follows a header through all the places where it can be.

* On its way (`StreamFrom`): some of the words `put` in the stream are headers with
  their whole file behind them, and any other `put` is in a line that has begun with
  another word (`Quiet`), so no worker takes it for a command. This is true from
  where the worker reads, and again from the end of each of the files: what
  a command without newline swallows is a header, and what comes after that is the
  file, in which `PlainFiles` excludes a `put`.
* As a line (`PutNext`): a line whose first token is `put` is exactly one header, and
  its file is next in the stream.
* In `strtok` (`Arguments`): the tokens are a prefix of put, name, size, and what
  `scan` holds is the rest. `scan` is shared: this is where `Routed` is needed, by which
  there is one worker that splits.
* While it is read (`Putting`): the bytes so far are a prefix of the file, the rest is
  next in the stream, and the length is the one announced.

The hypothesis `PlainFiles` is necessary: with the file `put f 3` and a newline, sent
twice behind a command, TLC finds the `put` of the file's text executed, which takes
the next header for its bytes. That is the code: a command ends with a blank and no
newline (`client.c:123`), so the header behind it becomes part of its line.

## 10. CommandLine

One behaviour runs one of six programs (`Programs`): a record says how its reader
and splitter grow, where `getcwd` stores the path, and what `exit` frees. A line
is its number of bytes and tokens, a buffer its next index, size and, in the
readers of "work" and "tmp", the countdown of free bytes. A path is a
sequence of characters, because `relative_path` compares lengths. In "work" the
path is the address of a dead array: it is `Garbage` after the first `cd`, and
the prompt may crash (`PromptFaults`).

`command_lines` takes lines of up to 1030 bytes, which is past the first growth
of every reader (512, 100, 1024) and three growths of the countdown; token
counts around 64 and 128; directories at, below, above and beside the
entry. Any `malloc`, `realloc` or `getcwd` may fail. Nothing is
stored behind a buffer (`StoresInside`), and the solution's prompt tells the
directory (`PromptTells`) unless `getcwd` failed after `chdir` (`sure`). A
directory whose name is the entry's with a dot behind it has the entry's prompt.
Deadlock is not checked: programs exit.

*Proofs.* For lines and token numbers of every size, and every set of directories.
`StoresInside` is not inductive; `Room` is: in a reader and a splitter the next
element always has a place, and the countdown is the number of places.
`StoredFree` says that storing keeps that, for every buffer that grows by a
factor of two or by its first size of at least 2. `PromptTells` follows from
`PathInv`: the path kept is the kernel's, and the prompt was made of it. `TypeOK`
needs `Sizes`, how index, countdown and numbers of tokens hang together.

## 11. Examples

Seven programs share one small kernel: two streams with the processes that have an
end open (`readers`, `writers`), end of file, SIGPIPE, and children to wait for.
`pc` is where each process is, `flow` counts messages, lines or bytes. In ping-pong
each process closes the ends it does not use in steps of their own, and Ctrl-C
(`Interrupt`, `SigHandler`) or another signal (`Killed`) may come between any
two. In the echo, closing a socket with unread bytes resets the connection.

`examples` uses the code's numbers (five pings, five children); four bytes per
ping let a `read` return a part, and a pipe of two lines is smaller than the three
`cat` has. The streams never hold more than they may (`ExamplesTypeOK`: one ball), who
ends well has done its work (`EndsComplete`), and all end
(`AllEnd`) when each process goes on and signals that were sent are delivered.
Nobody has to be interrupted or killed: ping-pong, which runs for ever, is
only required to end after a signal or a failure, and an echo server without
client waits. Deadlock is not checked: programs end.

*Proofs.* `ExamplesTypeOK` and `EndsComplete`, for any size of a pipe, number of lines,
pings, bytes of a ping and children. Neither is inductive: how much is in a stream
depends on who may still write. What is conserved is: the ball of ping-pong is in
a stream or with a process about to write (`OneBall`); the lines `wc` counted, those in
the pipe and those in `cat` are all there are (`LinesCounted`), so that the end of
file, which needs `cat` gone and the pipe empty, comes when all are counted; `forks`
has a `wait` for every child that runs, has ended or will be made (`KidsWaited`); and the
bytes of the echo, in both streams and in the server's hands, are no more than those of
the pings sent (`BytesSent`), which also says that the connection is reset only
after one side has gone. They are `ExamplesInv` in `PipeProofs`.

## 12. Assumptions and limits

* Bounds: `MaxArgs`, `MaxCommands`, `MaxLines`, `MaxLen`, `MaxRoom`, `MaxClock`, `MaxBytes`,
  `TokenCounts`, `Rounds`, `MaxChildren`, `Scripts` and the sets of clients, jobs,
  directories, values and addresses are bounds of the instances; where a bound restricts what
  the program could do (one Ctrl-C per command, one stop per program, one pipeline and one
  vector at a time) the comment at the action says "(bound)".
* Liveness (`ListenerCloses`, `ShutdownCompletes`, `WaitReturns`, `PromptReturns`,
  `PipelineReturns`, `ExitEndsWorker`, `AllEnd`, `Terminates`) is model-checked and
  not proved: fairness and `ENABLED` are out of the prover's reach, and so is
  induction over data.
* Every invariant and every action property of a passing run is also proved, and so
  is that `Vec` implements `Stack`; only the liveness
  properties above are model-checked alone.
* `FilesArriveWhole` speaks of files without the word `put` (section 9).
* Memory errors whose outcome cannot be enumerated (the 128-byte listing in
  the sequential server, `printf` in a signal handler) are in no model. Undefined
  behaviour with a small set of outcomes (`processes` after `free`, `second`
  without terminator, the lost path arrays) is a choice.
* The pipelines and foreground programs of the two states in `Shell/tmp` make the
  calls of `Shell/Work` and have no definitions of their own.

## 13. Plan

Modelling left: an abstract `Session` (every line executed with its own tokens, in
its client's directory, answered to its client) that `LineSession` with one client
refines.
