# Verification of pyflame

Pyflame profiles a running Python process with `ptrace(2)`: it stops the
process some hundred times a second, reads the interpreter's frames word by
word out of its memory, lets it run again, and prints at the end how often each
stack was seen. This directory holds TLA+ models of that program, translated
from the sources in `src/src`, the TLC runs that check them on small instances,
and TLAPS proofs of the properties of a session for every instance.

In short:

- a **session** (attach, dump or trace; the signals, exits and kills of the
  target at every step) is modelled in `Prober` over `Tracee`, model-checked,
  and proved safe and to implement the abstract `Session`;
- the **injection** of code into the target for `--threads` is modelled in
  `Trampoline`, the **search for symbols** in `Symbols`, the **files** it opens in
  the target's mount namespace in `Namespace`; these are model-checked, and their
  safety properties are proved for every number of threads, symbols and attempts;
- the **reading of stacks** of a program whose other threads run is in `Snapshot`:
  model-checked, and proved to report the stopped thread's own stack always, and
  one instant of the program while that thread holds the GIL;
- the **command line**, the **report** and the flame chart made of it are in `Options`
  and `Report`: model-checked, and proved right for any samples and any number of turns;
- the **decoding** of names and lines is in `Decode`: model-checked, and proved right
  for every name and every line table that does not go back;
- four runs show where the code does something else than its documentation or
  comments say (section "Findings").

## 1. Inventory

### The system's parts

| part | code | state it keeps | operations |
|---|---|---|---|
| main | `pyflame.cc` | the `Prober` | `main`: parse, initiate, run, exit status |
| command line | `prober.cc` `ParseOpts` | the option members of `Prober` | one pass over `argv` |
| session control | `prober.cc`, `prober.h` | `pid_`, options, `call_stacks`, `idle_count`, `failed_count` | `InitiatePtrace`, `FindSymbols`, `Run`, `DumpStacks`, `ProbeLoop` |
| ptrace wrappers | `ptrace.cc` | none | one wrapper a request, `DoWait`, which interprets stops |
| code injection | `ptrace.cc` (amd64, threads) | `probe_`, a page mapped in the target | `PtraceCallFunction`, `PtraceCleanup` |
| stack walking | `frob.cc` (once per Python ABI) | none | `GetThreads`, `FollowFrame` |
| decoders | `frob.cc` | none | `GetLine`, `StringData*` |
| symbol and address location | `symbol.cc`, `aslr.cc`, `pyfrob.cc` | `addrs_`, the ABI | `WalkTable`, `GetAddresses`, `Addrs`, `DetectABI` |
| mount namespaces and files | `namespace.cc`, `posix.cc` | two descriptors, the current namespace | `Namespace::Open` |
| reports | `prober.cc`, `frame.*`, `thread.*` | buckets | `PrintFrames`, `PrintFramesTS` |
| flame chart converter | `utils/flame-chart-json` | nodes by id | one pass over the report |

### How they interact

`main` calls `ParseOpts`, `InitiatePtrace`, `FindSymbols` and `Run` in turn.
`InitiatePtrace` seizes the target, or forks and execs it under ptrace, detaches
and seizes again. `FindSymbols` retries `PyFrob::DetectABI`, letting the target
run in between while ld.so is still at work; `DetectABI` calls `Addrs`, which
opens the target's files in its mount namespace, and for `--threads` may call a
function *in the target* (`PtraceCallFunction`). `Run` dumps once or enters
`ProbeLoop`: `GetThreads`, `PtraceCont`, sleep, `PtraceInterrupt`, and again.
`~PyFrob` undoes the injection (`PtraceCleanup`) and detaches.

Nothing is called back and pyflame has one thread. What makes the program hard
is the other party: the target and the kernel act between any two requests.
Pyflame and the target share the tracee's run state, its pending stops and
interrupts, its registers, its text and its memory.

Errors travel as exceptions: `FatalException` (and `SymbolException`),
`TerminateException` (the target exited), `PtraceException` (anything else; it is
not a `FatalException`, so what does not name it does not catch it).

### What is hard, and what correctness means

- *Session control.* Which stop is reported when a SIGCHLD, another signal, a
  PTRACE_INTERRUPT and an exit race; what state the target is in on each path
  out of a `try`. Correct: requests ptrace refuses on a running tracee are made
  of a stopped one, waits are answered, the target is held while it is read and
  never forgotten, the sample count keeps to the duration, a profile that was
  taken is printed, the exit status tells a complete profile from a broken one,
  and every session ends.
- *Code injection.* A word of the program's text and the registers of its leader
  are replaced while other threads may start, end or execute that text, and a
  signal may interrupt each step. Correct: the program never executes what is not
  its own, the page is freed, every thread is let go.
- *Stack walking.* Only the thread whose id is the pid is stopped. Correct: a
  stack that is reported is one the program had.
- *Symbol location.* The outcome must not depend on the order of the symbols or
  on what a file imports; a library that is not mapped yet must be tried again.
- *Decoders, reports, namespaces, options.* Sequential; boundaries (deltas,
  surrogates, equal frames, failed system calls) are the matter.

`PROJECT.json` lists each hazard at its line, with the properties that would
catch it, or why none does yet.

## 2. Plan

| step | module | models | state |
|---|---|---|---|
| 1 | `Tracee` | the target's leader thread and the kernel's ptrace rules | done |
| 2 | `Prober` (extends `Tracee`) | session control, main | done |
| 3 | `Session` | what a session promises; refined by `Prober` | done |
| 4 | `ProberProofs` | theorems about `Prober`, and that it implements `Session` | done |
| 5 | `Trampoline` (extends `Tracee`), `TrampolineProofs` | code injection | done |
| 6 | `Snapshot`, `SnapshotProofs`, `Induction` | stack walking against a running interpreter | done |
| 7 | `Symbols`, `SymbolsProofs` | symbol and address location, the version | done |
| 8 | `Decode`, `DecodeProofs` | names and lines out of CPython's objects | done |
| 9 | `Namespace`, `NamespaceProofs` | the mount namespace around each open, with each system call failing | done |
| 10 | `Options` | `ParseOpts` | done |
| 11 | `Report` (extends `Options`), `ReportProofs` | what a turn keeps, buckets, the two formats, the converter | done |

Not taken up: an abstract specification of the injection (registers and text as the
program sees them) refined by `Trampoline` the way `Session` is by `Prober`. The
inductive invariant of `TrampolineProofs` says it request by request already.

## 3. The modules

### Tracee: the target, and the kernel on its behalf

The thread whose id is the pid, as its tracer can tell it: `task` and `stop` (the
run state and why it is stopped), `notice` (has waitpid reported this stop),
`trap` (a PTRACE_INTERRUPT still to be served), `sigs`, `tracing`, and the
program as `prog` (the stages of the fork, then python) and `work` (how far it
is). Operators `Resume`, `Release`, `SeizeTask`, `InterruptTask`, `Report`, `Reap`
are what a ptrace or waitpid call does; the actions `UserStep`, `KernelStep` and
`OthersStep` are what happens without pyflame. They follow ptrace(2) as the code
uses it: a PTRACE_INTERRUPT of a stopped tracee is kept and stops it again when it
is resumed, traps go before signals, PTRACE_CONT with 0 drops a signal, a
tracer's exit releases the tracee, a zombie can still be interrupted but no
longer read. The stages of the child (`PtraceTraceme`, `execvp`) are pyflame's
own code and are translated from it.

### Prober: a session

One action for each system call that can fail or block; `pc` names the next one
and `caller` the function that called `PtraceInterrupt`, `PtraceCont` and `DoWait`
(`InitiatePtrace`, `FindSymbols`, `ProbeLoop`), since that decides who catches.
`Throw` sends an exception to its handler: those of `ProbeLoop` (`Handle`), or
nobody (`Abort`: std::terminate, without destructors). `DoWait` is the whole
loop body of that function: trap, SIGCHLD (continue, wait again), another
signal (throw, the stop stays), exit, killed. `Sample` is GetThreads, the
counting and the deadline test that follow it; that the read is a single step
is justified by `HeldWhileRead` for the leader's memory, and looked into by
`Snapshot` for the others'. A read of a stopped, living target may fail as well
(PTRACE_PEEKDATA gives EIO or EFAULT where nothing is mapped): `addrs` says what
`addrs_` leads to. Sound addresses lead to memory that stands still while the
target is held; wrong ones to nothing, so that every read fails; shaky ones
anywhere, such as the pointers of threads that go on running under `--threads`, so that a
read may succeed or fail. What FindSymbols returns is a choice among these, since `--abi`
may be forced and a file laid out differently (`Symbols` leaves such files out), and it
is never looked up again: when the target executes another program (`ExecAgain`, which
a task seized without PTRACE_O_TRACEEXEC does without a stop) the addresses are what
they happen to be in the new one. A failed read beyond `MaxCount` changes nothing, so
that fairness owes shaky addresses a success in the end; a failure that lasts is what
wrong ones are for. Time is counted in sampling intervals, and a sleep
takes `1..MaxSlip` of them. Otherwise `--abi`, the output format and namespaces do not
change control here: they are in `Symbols`, `Report` and `Namespace`.

### Session: what a session promises

Six variables a user could observe: the phase, whether the program is held, its
progress, whether samples were taken, what was written, the status. Prober
implements it under the mapping at the end of `Prober.tla` (`Promise`,
`KeepsPromise`).

### Trampoline: code injection

`pc` is the next ptrace request of `PtraceCallFunction` (`part = "call"`) or
`PtraceCleanup` (`part = "clean"`); the two use the same requests in different
orders, so most actions serve both. `regs` (where the leader executes, and
%rax), `text` (the word at its home instruction), `page` and `thr` (the other
threads: free, held, dead) are the target's; `saved`, `probe`, `hint`, `todo` are
the code's locals. The target executes what it is made to execute: `MmapCall`,
`MunmapCall`, `StubCall`; and `GoAstray` when it is resumed in a state that is
neither its own nor one of these. `step` says whether the single step is still in
force: DoWait answers a SIGCHLD with PTRACE_CONT, which ends it.
`quiet` is a history variable: no signal, no left-over trap, no new thread and no
^C so far. Properties that begin with `quiet` promise nothing of
a disturbed injection; the others hold whatever happens. Exiting threads and a
kill of the whole process are never counted as disturbances. What the
session does in between is `LetRun`/`HoldAgain`: `RequestLegal` of Prober is what
allows to say that a living target is stopped when `~PyFrob` runs.

### Snapshot: stack walking

`GetThreads` and `FollowFrame`, one action for each read whose answer matters
(`ReadCurrent`, `ReadHead`, `ReadThread`, `ReadCode`, `ReadBack`, `ReadNext`), with
and without `--threads`, with and without a known `interp_head`. The interpreter
is CPython's as `frob.cc` knows it: thread states linked from the head, frames
linked by `f_back`, one holder of the GIL at a time, frame and thread-state memory
used again. The leader makes no step between `Hold` and `Continue`; the others do.

### Decode: names and lines

One frame: `StringDataPython3` dumps its function's name a character a step
(`DumpChar`), or `PtracePeekString` reads a Python 2 string a word at a time up to
the NUL; then `GetLine` takes a pair of `co_lnotab` a step (`AddPair`). The
object is what CPython knows (characters, where its lines change, the instruction
executed); `ByteAt` and `Table` are what CPython writes of it into memory, the table as a
sequence of pairs, with steps spread over several where a byte cannot count them;
`p` counts the pairs that are consumed. `NameRight` reads what was dumped with a
reader of its own (`ReadTo`: at each byte, which character ends there, if any) and
`LineRight` compares the line with the place the object's steps lead to
(`LineOf`), so that encoder and decoder are checked against each other. `MaxByte` stands
for 255, so that short tables spread (at least 2: half of it must count a signed
line); the encoding of characters has its real numbers. Surrogates pass through
as they do in the code, which leaves them alone.

### Symbols: symbol and address location

One symbol of an ELF table a step, first `.dynsym`, then `.symtab`, first of the
executable, then of the libpython it needs or the `libpython2.7.so` it is
supposed to have opened. Addresses are numbers, so that the two relocations
(minus the first PT_LOAD's vaddr, plus the place it is mapped at) are computed
and compared with the loader's truth. `i` wraps at `IndexSize`, 65536 in the code.
`DetectABI` ends the search: `--abi` overrides the version that was seen, and a
version this build has not got is fatal. `"retry"` is its return of 1.

### Namespace: the target's files

`FindSymbols`' attempts as system calls: the constructor of `Namespace` (lstat,
open of both namespaces, on kernels where `/proc/self/ns/mnt` is missing, a hard
link or a symbolic one), `ReadLink`, `SetNs` and open around each file, fstat and
mmap in `ELF::Open`, the checks of `Parse`, the destructors, and at the end Run's
output file. Each call may fail. The descriptor table is modelled with its numbers,
since 0 and -1 have meanings of their own in the code; its standard input may be
closed when pyflame starts. What a file holds is a choice: it is `Symbols`' matter.

### Options and Report: what is asked for, what is printed

`Options` is `ParseOpts`, one word of the command line a step, with the getopt_long
rules it relies on (operands are skipped; nothing is read behind `-t`). `Report` runs it,
and then what `Prober` leaves out of the same loop: what each turn pushes onto
`call_stacks` and counts, `PrintFrames` with its buckets keyed by `Frame::operator==`,
`PrintFramesTS`, and `flame-chart-json`, one pair of lines a step. The clock may go
forward or back between two turns. A text is the sequence of what stands between
its semicolons: a frame as the frame, and what is no frame (`(idle)`, `(failed)`, the
nothing behind a last semicolon) as a `Word`. The constant `Names` has what files and
functions may be called. The buckets are a function of how many stacks have been put
in (`Filled`), the sums of lines and of time deltas running totals (`Totals`), so that
both can be reasoned about. `seen` is a history variable, what the turns saw, and the
properties compare report and chart with it: `Rank` is the place an entry has among
those to be reported. The end of the loop and its
failures are choices here: when they come is `Prober`'s matter.

Where two definitions stand together in a module, the last one is the code;
those before it (`HandleReturns`, `SetRegsCopied`, `BreakEarly`...) are slips a
programmer could have made, and `PROJECT.json` names the property that fails if
one is put in the code's place.

## 4. What the runs check

| run | question | answer |
|---|---|---|
| `prober_session` | Attach, dump and trace sessions, `-s` negative, 0, 1 and 3, against two signals of any kind, a kill, another program executed and reads that fail: legal requests, answered waits, sample bound, nothing lost, honest status, target held while read, promise kept? | yes |
| `prober_children` | Fair sessions against SIGCHLDs, a kill, another program executed and wrong addresses: no interrupt left pending (issue #122), no crash unless the target dies or a dump cannot read it; does a session whose target is not killed end, a traced program complete, is a stopped target always released? | yes, unless all reads of a living target fail from some point on (`Unreadable`) |
| `prober_killed` | Does an attached session end if the target is killed? | no |
| `prober_replaced` | Does an attached session with a duration detach if the target executes another program? | no |
| `prober_signalled` | Does a traced program complete if it gets a signal other than SIGCHLD? | no |
| `trampoline_inject` | The whole life of an injection, against two signals, two threads that start and end, a kill, a ^C: what does the program see, what is left? | as stated |
| `snapshot_gil` | Is the stopped thread's stack always right, and the whole sample if it holds the GIL? | yes |
| `snapshot_torn` | Is every stack of `--threads` one the program can have? | no |
| `decode_frames` | Does the output read back as the function's name, is its line that of the instruction executed? | yes, for started frames and lines that go forward |
| `symbols_search` | Right version, right addresses, nothing missed, nothing given up, for interpreters of each kind with their symbols in every order? | yes |
| `namespace_search` | Three attempts, each system call failing or not: are the target's files opened in its namespace and the output in pyflame's own, is nothing left open? | yes, as stated |
| `report` | Command lines of up to three words: are they understood? Two turns in each form of output: does the report account for each, is the chart that of the report? | yes, as stated |

### Bounds, and why they are enough

- `Work = 2`, `LoadedAt = 1`: the program can be found unloaded, loaded and
  finished; a further step repeats a state pyflame cannot tell apart.
- `MaxSignals = 2` (3 with SIGCHLD only): two signals of different kinds can be
  pending at once, and a second can arrive while the first is served. SIGCHLD
  stands for the one signal DoWait knows, OTHER for any it does not.
- `AttachRetries = 1` and `TraceRetries = 3` instead of the code's 1 and 50: the
  loop is entered, repeated and left both ways.
- `MaxSlip = 2`, `MaxClock = 3`, durations -1, 0, 1, 2, 3: on time and late; no
  deadline, at once, the last interval, several. The clock and the counters
  stand still at their bounds, which are never below what the durations need.
- `MaxExecs = 1`: pyflame cannot tell a second new program from the first.
- Two other threads in `Trampoline`: one that is handled while the other is not
  yet. The three answers of mmap are a page, -1 (which is MAP_FAILED) and another
  errno.
- One worker, three frames and four functions in `Snapshot`: one frame for each
  stack and one to come and go; a stack or list that is longer than
  `MaxDepth = 3` is only reached through memory that changed during the walk, and
  the walk is cut there. That cut is why the run does not look for deadlocks.
- Names of up to three characters in `Decode`, from each side of each border of the
  encodings; tables of up to three steps, below, at and above one and two pairs,
  with `MaxByte = 3`; instructions before, at and behind each step.
- `IndexSize = 8` in `Symbols`, above every table: the property that the search ends
  is stated for such tables, for on a longer one the code's counter never reaches
  the end (section "Findings"). All orders of an interpreter's symbols are tried,
  in either table.
  Files whose text is not their first segment are part of the run, and
  `AddressesRight` leaves them out: the code takes the first executable mapping
  for the first PT_LOAD.
- Three attempts in `Namespace`: one that fails, one that fails behind what the first
  has left, and one that succeeds. Descriptors up to a bound at which open fails.
- Two turns in `Report`, of none, one or two threads: equal and different stacks,
  frames that differ in their names only, failed and idle turns, in one turn and
  in two. Command lines of three words: an option before, between and behind two
  others, `-t` in each place.

### Fairness

`Prober`: pyflame is a running process (WF), the kernel delivers a trap to a
running thread (WF), and a target that is let run again and again, for a
whole interval each time, gets to take a signal and to compute (SF); this
is what `sleep_for(interval_)` between PtraceCont and PtraceInterrupt is there for.
Nobody is obliged to signal, kill, execute another program or exit early. `Trampoline`: pyflame runs, a
resumed leader takes its traps and signals and then executes what it was set up
for. `Symbols`: the search is one process that runs.

## 5. Findings

- `prober_killed`: `ProbeLoop` counts every PtraceException and goes on. When the
  target dies of a signal the exception comes back for ever, before the
  deadline is looked at and without a sleep: the session spins, prints nothing
  and ends only when it is killed itself (`prober.cc:432`).
- `prober_replaced`: the same handler, with a target that lives: after it has executed
  another program PTRACE_PEEKDATA fails each time, and each failure goes straight
  back to `GetThreads`, past PtraceCont, the sleep and the deadline. Pyflame spins, and
  the target stays stopped for ever. Wrong addresses do the same from the first
  sample (a forced `--abi`, or the layout that `AddressesRight` leaves out). With `-d` a failed read
  is caught by nobody and pyflame aborts (`prober.cc:457`); `CrashOnlyOnDeath` says so.
- `prober_signalled`: a stop for a signal other than SIGCHLD takes the place of the
  interrupt's, which stays pending. From then on the target traps before its
  next instruction each time it is continued, and is interrupted again while
  stopped: it never runs again (`ptrace.cc:55`).
- `snapshot_torn`: `--threads` reads the frames of threads that run (`frob.cc:287`).

Four more the models show without a run of their own, since a property states
them as its precondition. `SearchEnds` holds for tables of fewer than `IndexSize`
symbols: a 16-bit counter walks one of 65536 or more for ever (`symbol.cc:130`).
`ProgramResumed` holds as long as it is quiet: the `catch (...)` of PtraceCleanup also
catches the signal that interrupted its single step, and lets a living target run
with its text patched (`ptrace.cc:349`). `ReportRight` holds for texts whose functions
do not share a line: lambdas of one line are one bucket (`frame.h:41`). `LineRight` holds
for line tables that do not go back: since Python 3.6 the deltas of `co_lnotab` are signed, and
GetLine adds them as unsigned bytes, so that behind a line that goes back, as generated or
transformed code may have it, every line is 256 too large (`frob.cc:220`), against the comment
that calls it "essentially an implementation of PyFrame_GetLineNumber" (`frob.cc:191`).

## 6. What is proved

`ProberProofs`, for all values of the constants that satisfy `TraceeAssumption` and `ProberAssumption` (types of the parameters; trace mode has
no deadline; retries and the longest sleep are at least 1; `MaxClock` is not
below a duration):

| theorem | says |
|---|---|
| `TypeCorrect` | `Spec => []TypeOK` |
| `RequestsAreLegal` | `Spec => []RequestLegal` |
| `WaitsAreAnswered` | `Spec => []WaitAnswered` |
| `ReadsAreStill` | `Spec => HeldWhileRead`, an action property |
| `SamplesAreBounded` | `Spec => []SampleBound` |
| `SamplesAreReported` | `Spec => []NoSampleLost` |
| `SuccessIsComplete` | `Spec => []FullDuration` |
| `NoInterruptIsLeft` | `Spec => []NoStaleTrap` if only SIGCHLD is sent |
| `OnlyDeathCrashes` | `Spec => []CrashOnlyOnDeath` if only SIGCHLD is sent: a crash is the target's death, or a dump of undecodable data or through addresses that are not sound |
| `ProberKeepsPromise` | `Spec => KeepsPromise`: Prober implements Session |

The argument. None of the properties is inductive. `RequestLegal` at one label
depends on how the last wait ended, and that on what was pending when it began;
so `HoldInv` carries, label by label, who traces the target, whether its stop has
been read, and where a trap must be pending: at `wait` there is a trap to come or
an unread one, at `cont_chld` the trap is still to come because the stop was a
signal's. `HeldWhileRead` follows, since a target that is stopped and stays
stopped between two steps of pyflame makes no step of its own. `SampleInv` relates
the counters to the clock: every sample but the last is followed by a sleep of
at least an interval, so after `n` of them the clock is at least `n` (or `n - 1` where the
sleep is still to come), and it stays below the duration as the loop has not
ended. The bounds `MaxClock` and `MaxCount` only stop what is counted; the
assumption that no duration exceeds `MaxClock` keeps this from weakening the
theorem. `ReportInv` says that nothing is counted before the loop, and what holds
on each way out of it. `ChldInv` (with `Signals \subseteq {"CHLD"}`) says that a trap
is pending only while DoWait waits, so that the stops of the launch cannot be
mistaken for it; and that addresses are known before they are dumped and, once they
are not sound, never become so again. `PromiseStep` takes each step of Prober under the conjunction of
these invariants to a step of Session or a stutter.

`TrampolineProofs`, for any number of other threads, any signals and any subset of
the results of mmap (`TraceeAssumption`, `TrampolineAssumption`): `SpecKeepsInv`, and
from it `TypeCorrect`, `CallLeavesNoTrace` (`SessionClean`), `HintIsHead` (`HintRight`),
`ThreadsLetGo` (`NoneForgotten`), `PatchIsAlone` (`PatchedAlone`), `ResumedAsItWas`
(`ProgramResumed`), `PageIsFreed` (`PageFreed`). The invariant goes request by request.
`Undisturbed`: the first injection never meets a left-over trap. `LeaderKnown`: the
registers and the text before each request, where `saved` is what they are to
become again; this is what makes the restore right whatever came before it.
`PageTold`: the page is there only if `probe_` says so. `OthersKnown`: a thread that is
still free is in the list to be attached, one that is held in the list to be
let go. There is a lemma for each action, and a step of it for each part.

`SymbolsProofs`, for any files with any symbols in any order (`SymbolsAssumption`):
`SpecKeepsInv`, `TypeCorrect`, `AddressesAreRight`; and, for processes whose
interpreter shows the marks of one version only, and in its last table (`OneVersion`, a
hypothesis of the two theorems which the processes of the run satisfy), `AbiIsRight` and
`FoundIfItIsThere`. The invariant speaks of the entries walked so far: an address is noted
if, and only if, its symbol is one of them, and the version is decided by them; the
early break is right since nothing wanted is left.

`NamespaceProofs`, for any number of attempts and descriptors
(`NamespaceAssumption`): `SpecKeepsInv`, `TypeCorrect`, `OutputStaysHome` (`OutputAtHome`),
`SearchesTheirFiles` (`FilesAreTheirs`), `AttemptsLeaveNothing` (`NothingLeft`). The
invariant says, for each system call, which descriptors are open, which of them the
`Namespace` owns, and in which namespace pyflame is.

`SnapshotProofs`, for any number of workers, frames and functions
(`SnapshotAssumption`): `NoNullFollowed` (`TypeOK`, which says that no null pointer is
followed), `SpecKeepsStackInv`, `LeaderIsExact` (`LeaderExact`), `ExactSnapshot`
(`ExactUnderGil`). The first invariant says that the list of thread states ends with the
leader: without it, unlinking a thread could leave an empty list for GetThreads to
walk. The second, `StackInv`, says that there is a stack of frames for each thread (a
sequence without repetitions, no frame in two of them) and an order of the thread
states, that `top`, `back`, `head` and `next` are theirs, and that what has been
read is what they say up to where the reader is: of the leader always, of all threads
while the leader is `current`. Stacks and order are witnesses, not
variables; each step of the interpreter gives new ones. The properties speak of the frames that
the pointers reach (`Chain`, `FramesOf`), a recursive definition; a lemma shows that what it
computes is the witness.

`Induction` has what that needs. The library's induction theorems take an operator,
which these provers cannot instantiate. `SetInduction` takes a *set* (if 0 is in it, and
with each n also n + 1, every natural number is) and is proved from the
well-foundedness of `<`. What a recursive *function* computes can then be proved: that a
solution of its equation exists, by induction, so that the function is one, and what
the solution is, by a second induction.

`ReportProofs`, for any command lines, samples and numbers of turns
(`OptionsAssumption`, `ReportAssumption`: types of the parameters; GetThreads returns no
empty stack; no program has a thread of a single frame in a file called `(failed)`,
which PrintFramesTS takes for a failure):

- `OptionsAreRight` (`ParsedRight`). The invariant: the members of `Prober` reflect the
  words read so far, the last of each name, and `-t`, if it is among them, is the last read.
- `TypeCorrect` (`TypeOK`). The clock is within what the turns so far can have moved
  it, and without timestamps nothing but stacks is among `call_stacks`.
- `ReportIsRight` (`ReportRight`). Without timestamps, `CountInv`: of any set of entries,
  as many were seen as are among `call_stacks`, with the counters for the idle and failed
  ones, which are not kept. With them, `KeptInv`: `call_stacks` are the entries to be
  reported, each at its rank. Then the buckets: a set of stacks that has, with a stack,
  all that `Frame::operator==` takes for it (`Closed`), counts in the buckets what it
  counts in `call_stacks`; the lines add up to the buckets (lemmas about `Totals`), and
  a text whose functions share no line is such a set.
- `ChartIsRight` (`ChartRight`). `TreeInv`: a node has the next one as its child, unless a
  stack begins there, and the stacks begin at the root's children. `SamplesInv`: each
  line converted is a run of nodes with its cells for names, and its two samples end that
  run and bring the total of the time deltas to its time. The parent of each node, and by
  induction the path to the end of each run, follow. That FCJson finds the last frame of a
  stack by counting two cells from the end is right since PrintFramesTS ends every
  stack with a semicolon (`Drawable`), and that it takes a `prev_ts` of 0 for the first line since no
  timestamp is 0.

`DecodeProofs`, for objects of any names and tables, any word size and any `MaxByte`
of at least 2 (`DecodeAssumption`: types of the parameters; characters are at most
`MaxChar`, a Python 2's bytes are not 0): `TypeCorrect` (`TypeOK`), `NameIsRight`
(`NameRight`), `LineIsRight` (`LineRight`).

- *Names.* `NameInv`: of a Python 2's string the first `i` bytes are dumped
  (`DumpedBytes`: a word is cut at the NUL and at no other byte); of a Python 3's, `i`
  is at a character, and what is dumped reads as the characters before it
  (`DumpedChars`). What is read of the first bytes does not depend on what follows
  (`ReadPrefix`), a character's bytes sum up to it (`CharAtIs`), its UTF-8 bytes have
  its value and say how many they are (`Utf8Is`); so one more character is read as
  itself (`ReadOneMore`).
- *Lines.* `LineInv`: the pairs that are consumed are those of `n` steps and `j` pairs
  of the next, and `addr` and `line` are what these add up to (`At`). That pairs of a
  step add up to the step, and none counts lines before all its instructions are
  counted, is `PairLeads`; hence the loop breaks in the step behind the instruction, and
  not after one of its lines was added. `StepInTable`: the pairs of each step are in
  the table, behind those of the steps before. `LineOfIs`: since places never go back,
  those that the instruction has reached are the first ones.

The functions `ReadTo`, `TableTo` and `Place` are recursive. What they compute is proved
as in `SnapshotProofs`, by way of `Induction`; its theorem `Recursion` gives a function
for a step from each value to the next.

Only model-checked. Liveness under fairness (`EndsUnlessKilled` and the others of section 4) and
ENABLED are out of the prover's reach. Every invariant and every action property
that a passing run checks is a theorem.

## 7. What is not modelled, and why

- The text that `-d` prints (`Thread`'s output operator); `Prober` has `DumpStacks` as
  a step of the session. A write to the output that fails.
- Clusters of short options (`-xn`) and abbreviations of long ones: `getopt_long`
  splits them before `ParseOpts` sees them. InitiatePtrace's refusal of a command
  whose name ends in "pyflame".
- close(2) failing: `Close` of `posix.cc` would repeat it, and on EBADF for ever.
- `endTime` and `hitCount` of the converter.
- TerminateException before `ProbeLoop` (the target exits during the symbol search)
  is in `Prober`: it ends pyflame in std::terminate, which `CrashOnlyOnDeath` allows.
- The memory of the target beyond its frames. Of a read, `Prober` has whether it
  succeeds and whether the data can be decoded; a stack made of what other data
  happens to be there counts as a stack.
- The leader's stack. `PtraceCallFunction` leaves the stack pointer where it is, so that its
  CALL writes into the red zone of the function that was interrupted (`ptrace.cc:300`);
  `Trampoline` has registers and text only.
- An execve by a thread that is not the leader: the leader is then killed by the
  kernel, and the other thread takes its id.
- Signals to threads other than the leader, and stops that PtraceAttach mistakes
  for its own: `Trampoline` attaches a thread in one step.
- The contents of malformed ELF files (that a check of them fails is a choice in
  `Namespace`), the target's page protections and the
  contents of its memory other than what is listed above.
- The kernel, CPython, ld.so and the profiled program: modelled from how the code
  uses them, and marked external in `PROJECT.json`.
- The clock is monotonic in `Prober`; `ProbeLoop` uses system_clock, which is not. In
  `Report` it may go back: the timestamps and the chart are right even so.
- The build, the packaging and the tests; they have no behaviour of the program.
