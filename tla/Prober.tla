------------------------------- MODULE Prober -------------------------------
(***************************************************************************)
(* A pyflame session from InitiatePtrace to the exit of the process: the   *)
(* Prober class (prober.cc), main (pyflame.cc) and the ptrace(2) wrappers  *)
(* it uses (ptrace.cc), against the target of module Tracee.  Every system *)
(* call that can fail or block is a step of its own, so that the target,   *)
(* the kernel and others may act between any two of them.                  *)
(*                                                                         *)
(* Time is counted in sampling intervals (-r).  The case modelled is the   *)
(* one where no code is injected into the target (probe_ = 0).             *)
(*                                                                         *)
(* The addresses that FindSymbols returns are fixed once and for all: they *)
(* may be wrong (--abi is forced, the symbols are at other offsets), and   *)
(* go wrong when the target executes another program while it is profiled. *)
(*                                                                         *)
(* Where two definitions stand together, the last one is the code; those   *)
(* before it are the slips that a property below must catch.               *)
(***************************************************************************)
EXTENDS Tracee

CONSTANTS
  Options,        \* the command lines: see OptionSet
  AttachRetries,  \* MAX_ATTACH_RETRIES
  TraceRetries,   \* MAX_TRACE_RETRIES
  MaxSlip,        \* bound: a sleep lasts 1..MaxSlip intervals
  MaxClock,       \* bound: the clock stands still there
  MaxCount,       \* bound: counters of samples and failures stand still there
  Soundness,      \* what the addresses that FindSymbols returns may be worth
  MaxExecs        \* bound: how often the target executes another program

\* seconds is in sampling intervals; a negative one means no deadline: -t
\* sets it to -1, and -s takes any number.
OptionSet ==
  [mode : {"attach", "dump", "trace"}, include_idle : {"yes", "no"},
   seconds : {-1} \cup Nat]

ASSUME ProberAssumption ==
  /\ Options \subseteq OptionSet
  /\ \A o \in Options : o.mode = "trace" => o.seconds = -1
  /\ AttachRetries \in Nat \ {0} /\ TraceRetries \in Nat \ {0}
  /\ MaxSlip \in Nat \ {0} /\ MaxClock \in Nat /\ MaxCount \in Nat \ {0}
  /\ \A o \in Options : o.seconds <= MaxClock
  /\ Soundness \subseteq {"sound", "shaky", "wrong"} /\ MaxExecs \in Nat

VARIABLES
  pc,            \* the next system call, or the function to be entered
  caller,        \* who called PtraceInterrupt: InitiatePtrace, FindSymbols, ProbeLoop
  opts,          \* the Prober's option members
  tries,         \* i of FindSymbols
  addrs,         \* what addrs_ leads to: see CanRead
  execs,         \* other programs the target has executed so far
  clock,         \* intervals since ProbeLoop was entered
  stacks,        \* call_stacks.size()
  idle_count,
  failed_count,
  printed,       \* what has been written to the output
  rc,            \* exit status, 134 after std::terminate
  uncaught       \* the exception that reached std::terminate

outcomeVars == <<rc, uncaught, failed_count>>
profileVars == <<stacks, idle_count>>
imageVars == <<addrs, execs>>
vars == <<traceeVars, imageVars, pc, caller, opts, tries, clock, outcomeVars,
          profileVars, printed>>

Labels ==
  {"seize", "fork", "wait_stop", "set_options", "cont_exec", "wait_exec",
   "detach", "interrupt", "wait", "cont_chld", "detect", "run", "dump",
   "sample", "cont", "sleep", "finish", "cleanup", "exit", "done"}

MaxRetries == IF opts.mode = "trace" THEN TraceRetries ELSE AttachRetries

TypeOK ==
  /\ TraceeTypeOK
  /\ pc \in Labels
  /\ caller \in {"init", "find", "loop"}
  /\ opts \in Options
  /\ tries \in 0..MaxRetries
  /\ addrs \in {"none", "sound", "shaky", "wrong"} /\ execs \in 0..MaxExecs
  /\ clock \in 0..MaxClock
  /\ stacks \in 0..MaxCount /\ idle_count \in 0..MaxCount
  /\ failed_count \in 0..MaxCount
  /\ printed \in {"no", "profile", "dump"}
  /\ rc \in {0, 1, 134}
  /\ uncaught \in {"none", "terminate", "ptrace", "generic"}

Bump(n) == IF n < MaxCount THEN n + 1 ELSE n
Later(t, d) == IF t + d < MaxClock THEN t + d ELSE MaxClock

----------------------------------------------------------------------------
(* Control: go on, return from main with a status, or throw.               *)

Goto(label) ==
  /\ pc' = label
  /\ UNCHANGED outcomeVars

Return(code) ==
  /\ pc' = "cleanup" /\ rc' = code
  /\ UNCHANGED <<uncaught, failed_count>>

\* A return from main before the PyFrob exists: no PtraceCleanup.
ReturnEarly(code) ==
  /\ pc' = "exit" /\ rc' = code
  /\ UNCHANGED <<uncaught, failed_count>>

\* The handlers of ProbeLoop.
HandleReturns(e) ==
  /\ pc' = (IF e = "ptrace" THEN "sample" ELSE "cleanup")
  /\ failed_count' = (IF e = "ptrace" THEN Bump(failed_count) ELSE failed_count)
  /\ rc' = (IF e = "generic" THEN 1 ELSE rc)
  /\ UNCHANGED uncaught
HandleFinishes(e) ==
  /\ pc' = "finish"
  /\ failed_count' = (IF e = "ptrace" THEN Bump(failed_count) ELSE failed_count)
  /\ rc' = (IF e = "generic" THEN 1 ELSE rc)
  /\ UNCHANGED uncaught
Handle(e) ==
  /\ pc' = (IF e = "ptrace" THEN "sample" ELSE "finish")
  /\ failed_count' = (IF e = "ptrace" THEN Bump(failed_count) ELSE failed_count)
  /\ rc' = (IF e = "generic" THEN 1 ELSE rc)
  /\ UNCHANGED uncaught

\* Nothing catches: std::terminate, which runs no destructor.
Abort(e) ==
  /\ pc' = "exit" /\ rc' = 134 /\ uncaught' = e
  /\ UNCHANGED failed_count

Throw(e) == IF caller = "loop" THEN Handle(e) ELSE Abort(e)

\* Where PtraceInterrupt and PtraceCont return to.
Resumption == IF caller = "loop" THEN "sample" ELSE "detect"

----------------------------------------------------------------------------
Init ==
  /\ opts \in Options
  /\ IF opts.mode = "trace"
     THEN /\ task = "absent" /\ prog = "none" /\ work = Work
          /\ pc = "fork"
     ELSE /\ task = "running" /\ prog = "py" /\ work \in 0..Work
          /\ pc = "seize"
  /\ stop = "none" /\ notice = "none" /\ trap = "clear" /\ sigs = {}
  /\ tracing = "none" /\ raised = 0 /\ binary \in Binaries
  /\ caller = "init" /\ tries = 0 /\ clock = 0 /\ addrs = "none" /\ execs = 0
  /\ stacks = 0 /\ idle_count = 0 /\ failed_count = 0
  /\ printed = "no" /\ rc = 0 /\ uncaught = "none"

----------------------------------------------------------------------------
(* InitiatePtrace.                                                         *)

Fork ==
  /\ pc = "fork"
  /\ \/ /\ task' = "running" /\ prog' = "child"
        /\ UNCHANGED <<stop, notice, trap, sigs, tracing, work, raised, binary>>
        /\ Goto("wait_stop")
     \/ /\ UNCHANGED traceeVars
        /\ ReturnEarly(1)
  /\ UNCHANGED <<caller, imageVars, opts, tries, clock, profileVars, printed>>

\* waitpid(0, nullptr, 0): any stop will do, and so will the child's death.
WaitStop ==
  /\ pc = "wait_stop"
  /\ \/ Reportable /\ Report
     \/ Zombie /\ Reap
  /\ Goto("set_options")
  /\ UNCHANGED <<caller, imageVars, opts, tries, clock, profileVars, printed>>

SetOptions ==
  /\ pc = "set_options"
  /\ UNCHANGED traceeVars
  /\ IF Stopped THEN Goto("cont_exec") ELSE Throw("ptrace")
  /\ UNCHANGED <<caller, imageVars, opts, tries, clock, profileVars, printed>>

ContExec ==
  /\ pc = "cont_exec"
  /\ IF Stopped
     THEN Resume /\ Goto("wait_exec")
     ELSE UNCHANGED traceeVars /\ Throw("ptrace")
  /\ UNCHANGED <<caller, imageVars, opts, tries, clock, profileVars, printed>>

\* The waitpid loop: only the exec event ends it, and a stop for any other
\* reason is neither continued nor reported again.
WaitExec ==
  /\ pc = "wait_exec"
  /\ \/ /\ Reportable
        /\ Report
        /\ Goto(IF stop = "exec" THEN "detach" ELSE "wait_exec")
     \/ /\ task = "exited"
        /\ Reap
        /\ ReturnEarly(1)
     \/ /\ task = "killed"
        /\ Reap
        /\ Goto("wait_exec")
     \/ /\ task = "reaped"
        /\ UNCHANGED traceeVars
        /\ ReturnEarly(1)
  /\ UNCHANGED <<caller, imageVars, opts, tries, clock, profileVars, printed>>

Detach ==
  /\ pc = "detach"
  /\ IF Stopped
     THEN Release /\ Goto("seize")
     ELSE UNCHANGED traceeVars /\ Throw("ptrace")
  /\ UNCHANGED <<caller, imageVars, opts, tries, clock, profileVars, printed>>

\* Attach mode catches the exception of PtraceSeize, trace mode does not.
Seize ==
  /\ pc = "seize"
  /\ IF CanSeize
     THEN SeizeTask /\ Goto("interrupt")
     ELSE /\ UNCHANGED traceeVars
          /\ IF opts.mode = "trace" THEN Throw("ptrace") ELSE ReturnEarly(1)
  /\ UNCHANGED <<caller, imageVars, opts, tries, clock, profileVars, printed>>

----------------------------------------------------------------------------
(* PtraceInterrupt, with DoWait.                                           *)

InterruptNoWait ==
  /\ pc = "interrupt"
  /\ IF CanInterrupt
     THEN InterruptTask /\ Goto(Resumption)
     ELSE UNCHANGED traceeVars /\ Throw("ptrace")
  /\ UNCHANGED <<caller, imageVars, opts, tries, clock, profileVars, printed>>
Interrupt ==
  /\ pc = "interrupt"
  /\ IF CanInterrupt
     THEN InterruptTask /\ Goto("wait")
     ELSE UNCHANGED traceeVars /\ Throw("ptrace")
  /\ UNCHANGED <<caller, imageVars, opts, tries, clock, profileVars, printed>>

\* What DoWait makes of a stop.
AfterStopWaits(why) ==
  IF why = "trap" THEN Goto(Resumption) ELSE Goto("wait")
AfterStopBreaks(why) ==
  IF why \in {"trap", "CHLD"} THEN Goto(Resumption) ELSE Throw("ptrace")
AfterStopThrows(why) ==
  IF why = "trap" THEN Goto(Resumption) ELSE Throw("ptrace")
AfterStop(why) ==
  CASE why = "trap" -> Goto(Resumption)
    [] why = "CHLD" -> Goto("cont_chld")
    [] OTHER        -> Throw("ptrace")

\* What DoWait makes of the target's death.
AfterDeath(how) == Throw(IF how = "exited" THEN "terminate" ELSE "ptrace")

DoWait ==
  /\ pc = "wait"
  /\ \/ Reportable /\ Report /\ AfterStop(stop)
     \/ Zombie /\ Reap /\ AfterDeath(task)
  /\ UNCHANGED <<caller, imageVars, opts, tries, clock, profileVars, printed>>

\* The PtraceCont of DoWait, after a SIGCHLD stop (issue #122).
ContChldReturns ==
  /\ pc = "cont_chld"
  /\ IF Stopped
     THEN Resume /\ Goto(Resumption)
     ELSE UNCHANGED traceeVars /\ Throw("ptrace")
  /\ UNCHANGED <<caller, imageVars, opts, tries, clock, profileVars, printed>>
ContChld ==
  /\ pc = "cont_chld"
  /\ IF Stopped
     THEN Resume /\ Goto("wait")
     ELSE UNCHANGED traceeVars /\ Throw("ptrace")
  /\ UNCHANGED <<caller, imageVars, opts, tries, clock, profileVars, printed>>

----------------------------------------------------------------------------
(* FindSymbols.                                                            *)

OutOfTriesLate(n) == n > MaxRetries
OutOfTries(n) == n >= MaxRetries

\* DetectABI, whose outcome depends on the target's ELF files and mappings,
\* and the loop around it.  A dead target and an ABI this build does not
\* support are FatalExceptions, missing symbols a reason to try again.
FindSymbols ==
  /\ pc = "detect"
  /\ UNCHANGED <<traceeVars, execs>>
  /\ IF ~Alive \/ (binary = "unsupported" /\ work <= LoadedAt)
     THEN Return(1) /\ UNCHANGED <<caller, tries, addrs>>
     ELSE IF binary = "python" /\ work <= LoadedAt
     THEN Goto("run") /\ addrs' \in Soundness /\ UNCHANGED <<caller, tries>>
     ELSE /\ tries' = tries + 1 /\ UNCHANGED addrs
          /\ IF OutOfTries(tries')
             THEN Return(1) /\ UNCHANGED caller
             ELSE Goto("cont") /\ caller' = "find"
  /\ UNCHANGED <<opts, clock, profileVars, printed>>

----------------------------------------------------------------------------
(* Run, DumpStacks and ProbeLoop.                                          *)

\* Run: the output file may not open.
Run ==
  /\ pc = "run"
  /\ UNCHANGED traceeVars
  /\ \/ Return(1) /\ UNCHANGED caller
     \/ /\ opts.mode = "dump"
        /\ Goto("dump") /\ UNCHANGED caller
     \/ /\ opts.mode # "dump"
        /\ Goto("sample") /\ caller' = "loop"
  /\ UNCHANGED <<imageVars, opts, tries, clock, profileVars, printed>>

\* GetThreads reads the memory of a stopped target, and finds a stack, no
\* stack at all, or data that it cannot decode.  Sound addresses lead to
\* memory that stands still while the target is held, wrong ones to none:
\* PTRACE_PEEKDATA fails with EIO or EFAULT.  In between are addresses that
\* lead anywhere, such as the pointers of threads that go on running while
\* they are read (--threads) or those of another program.
CanRead == Stopped /\ addrs # "wrong"
CanFail == ~Stopped \/ addrs # "sound"

DumpStacks ==
  /\ pc = "dump"
  /\ UNCHANGED traceeVars
  /\ \/ CanRead /\ Return(0) /\ printed' = "dump"
     \/ CanRead /\ Throw("generic") /\ UNCHANGED printed
     \/ CanFail /\ Throw("ptrace") /\ UNCHANGED printed
  /\ UNCHANGED <<caller, imageVars, opts, tries, clock, profileVars>>

\* now + interval_ >= end, when there is an end.
DeadlineLate(now) == opts.seconds >= 0 /\ now >= opts.seconds
DeadlineReached(now) == opts.seconds >= 0 /\ now + 1 >= opts.seconds

AfterSample == Goto(IF DeadlineReached(clock) THEN "finish" ELSE "cont")

CountIdle == IF opts.include_idle = "yes" THEN Bump(idle_count) ELSE idle_count

\* GetThreads, the counting of what it returned, and the deadline.  A read
\* that fails goes straight back to GetThreads: the target stays stopped.
Sample ==
  /\ pc = "sample"
  /\ UNCHANGED traceeVars
  /\ \/ CanRead /\ stacks' = Bump(stacks) /\ UNCHANGED idle_count /\ AfterSample
     \/ CanRead /\ idle_count' = CountIdle /\ UNCHANGED stacks /\ AfterSample
     \/ CanRead /\ UNCHANGED profileVars /\ Throw("generic")
     \/ CanFail /\ UNCHANGED profileVars /\ Throw("ptrace")
  /\ UNCHANGED <<caller, imageVars, opts, tries, clock, printed>>

\* PtraceCont of ProbeLoop and of FindSymbols.
ContForgotten ==
  /\ pc = "cont"
  /\ UNCHANGED traceeVars
  /\ IF Stopped THEN Goto("sleep") ELSE Throw("ptrace")
  /\ UNCHANGED <<caller, imageVars, opts, tries, clock, profileVars, printed>>
Cont ==
  /\ pc = "cont"
  /\ IF Stopped
     THEN Resume /\ Goto("sleep")
     ELSE UNCHANGED traceeVars /\ Throw("ptrace")
  /\ UNCHANGED <<caller, imageVars, opts, tries, clock, profileVars, printed>>

\* sleep_for(interval_) may oversleep.
SleepOnly ==
  /\ pc = "sleep"
  /\ UNCHANGED <<traceeVars, clock>>
  /\ Goto(Resumption)
  /\ UNCHANGED <<caller, imageVars, opts, tries, profileVars, printed>>
Sleep ==
  /\ pc = "sleep"
  /\ UNCHANGED traceeVars
  /\ IF caller = "loop"
     THEN \E d \in 1..MaxSlip : clock' = Later(clock, d)
     ELSE UNCHANGED clock
  /\ Goto("interrupt")
  /\ UNCHANGED <<caller, imageVars, opts, tries, profileVars, printed>>

HasProfileNoIdle == stacks > 0 \/ failed_count > 0
HasProfile == stacks > 0 \/ idle_count > 0 \/ failed_count > 0

Finish ==
  /\ pc = "finish"
  /\ UNCHANGED traceeVars
  /\ printed' = (IF HasProfile THEN "profile" ELSE printed)
  /\ Return(rc)
  /\ UNCHANGED <<caller, imageVars, opts, tries, clock, profileVars>>

----------------------------------------------------------------------------
(* The end: ~PyFrob, then the exit of the pyflame process.                 *)

\* SafeDetach ignores the error a target that is not stopped gives.
Cleanup ==
  /\ pc = "cleanup"
  /\ IF Stopped THEN Release ELSE UNCHANGED traceeVars
  /\ Goto("exit")
  /\ UNCHANGED <<caller, imageVars, opts, tries, clock, profileVars, printed>>

\* The kernel detaches what an exiting tracer leaves attached.
ProcessExit ==
  /\ pc = "exit"
  /\ Release
  /\ Goto("done")
  /\ UNCHANGED <<caller, imageVars, opts, tries, clock, profileVars, printed>>

Terminated == pc = "done" /\ UNCHANGED vars

----------------------------------------------------------------------------
(* Steps of the target and of others, between any two of pyflame's.        *)

proberVars == <<pc, caller, opts, tries, clock, outcomeVars, profileVars, printed>>

\* The profiled program executes another one.  A seized task makes no stop
\* there, as PtraceSeize asks for no PTRACE_EVENT_EXEC: pyflame does not
\* notice, and looks for the new program's memory where the old one's was.
ExecAgain ==
  /\ InUserMode /\ prog = "py" /\ execs < MaxExecs
  /\ execs' = execs + 1
  /\ binary' \in Binaries /\ work' \in 0..Work
  /\ addrs' \in (IF addrs = "none" THEN {"none"} ELSE {addrs, "shaky", "wrong"})
  /\ UNCHANGED <<task, stop, notice, trap, sigs, tracing, prog, raised>>
  /\ UNCHANGED proberVars

EnvironmentStep ==
  \/ (UserStep \/ KernelStep \/ OthersStep) /\ UNCHANGED <<imageVars, proberVars>>
  \/ ExecAgain

PyflameStep ==
  \/ Fork \/ WaitStop \/ SetOptions \/ ContExec \/ WaitExec \/ Detach \/ Seize
  \/ Interrupt \/ DoWait \/ ContChld \/ FindSymbols \/ Run \/ DumpStacks
  \/ Sample \/ Cont \/ Sleep \/ Finish \/ Cleanup \/ ProcessExit

Next == PyflameStep \/ EnvironmentStep \/ Terminated

Spec == Init /\ [][Next]_vars

(***************************************************************************)
(* Fairness.  pyflame is a running process, and the kernel makes a running *)
(* thread take its trap.  A target that is let run again and again gets to *)
(* take its signals and to compute (that is what sleep_for(interval_)      *)
(* between PtraceCont and PtraceInterrupt is there for).  Nobody has to    *)
(* send signals, to kill or to execute another program.                    *)
(***************************************************************************)
Fairness ==
  /\ WF_vars(PyflameStep)
  /\ WF_vars(TakeTrap /\ UNCHANGED <<imageVars, proberVars>>)
  /\ SF_vars((\E s \in Signals : TakeSignal(s)) /\ UNCHANGED <<imageVars, proberVars>>)
  /\ SF_vars(UserStep /\ UNCHANGED <<imageVars, proberVars>>)

FairSpec == Spec /\ Fairness

----------------------------------------------------------------------------
(* Safety.                                                                 *)

\* Every request that ptrace(2) refuses on a running tracee finds a living
\* target stopped, whatever the order of signals, stops and interrupts; and
\* the mappings DetectABI reads are those of a stopped target.  So the only
\* ESRCH the wrappers of ptrace.cc ever see comes from a dead target.
NeedStopped ==
  {"set_options", "cont_exec", "detach", "cont_chld", "detect", "run", "dump",
   "sample", "cont", "finish", "cleanup"}

RequestLegal ==
  /\ Alive /\ pc \in NeedStopped => Stopped /\ notice = "read"
  /\ pc = "interrupt" => CanInterrupt

\* DoWait never blocks on a living target that has nothing to report: there
\* is an unread stop, or a running target whose trap is still to come.
WaitAnswered ==
  pc = "wait" /\ Alive => Reportable \/ (task = "running" /\ trap = "pending")

\* The target makes no progress while pyflame reads it or writes the profile:
\* what GetThreads and DumpStacks return is one instant of this thread.
HeldWhileRead ==
  [][(pc \in NeedStopped /\ pc' \in NeedStopped) =>
       (work' = work /\ prog' = prog /\ execs' = execs)]_vars

\* With -s, no more samples than intervals in the duration asked for (and
\* one for -s 0), failures and oversleeping included.
SampleBound ==
  opts.seconds >= 0 =>
    \/ stacks + idle_count <= 1
    \/ stacks + idle_count <= opts.seconds

\* Samples taken are never lost: a session that took one, or counted a
\* failure, ends only after it wrote its profile.
NoSampleLost ==
  pc = "done" /\ stacks + idle_count + failed_count > 0 => printed = "profile"

\* Status 0 means that the whole duration was profiled (man.md, -s) or that
\* the program was profiled until it ended (man.md, -t).
FullDuration ==
  pc = "done" /\ rc = 0 /\ opts.mode # "dump" =>
    \/ opts.seconds >= 0 /\ clock + 1 >= opts.seconds
    \/ task = "reaped"

\* When nobody signals the target but its own children, pyflame crashes
\* only because the target died, or in a dump: on data it cannot decode, or
\* on a read that fails, which nothing catches there (prober.cc:457) and
\* which takes addresses that are not sound.  No profile crashes on a read.
CrashOnlyOnDeath ==
  rc = 134 =>
    \/ Dead
    \/ /\ opts.mode = "dump"
       /\ uncaught = "generic" \/ (uncaught = "ptrace" /\ addrs \in {"shaky", "wrong"})

\* When nobody signals the target but its own children, every
\* PTRACE_INTERRUPT is consumed by the DoWait that follows it: none is left
\* to stop the target again when ProbeLoop or FindSymbols continues it.
NoStaleTrap == pc \in NeedStopped \ {"cont_chld"} => trap = "clear"

\* Prober implements the promise of module Session.
Phase ==
  IF pc = "done" THEN "over"
  ELSE IF pc \in {"finish", "cleanup", "exit"} THEN "closing"
  ELSE IF caller = "loop" THEN "profiling"
  ELSE IF caller = "find" \/ pc \in {"detect", "run", "dump"} THEN "locating"
  ELSE "opening"

Hold    == IF Stopped THEN "held" ELSE IF Dead THEN "gone" ELSE "free"
Samples == IF stacks + idle_count > 0 THEN "taken" ELSE "none"
Written == IF printed = "no" THEN "nothing" ELSE printed
Status  == IF Phase \notin {"closing", "over"} THEN "unknown"
           ELSE IF rc = 0 THEN "ok" ELSE IF rc = 1 THEN "error" ELSE "crash"
Done    == <<prog, work, execs>>

Promise == INSTANCE Session WITH
  Progress <- {"none", "child", "raise", "exec", "py"} \X (0..Work) \X (0..MaxExecs),
  phase <- Phase, hold <- Hold, progress <- Done,
  samples <- Samples, report <- Written, status <- Status

KeepsPromise == Promise!SSpec

----------------------------------------------------------------------------
(* Liveness, under Fairness.                                               *)

\* Every session ends.
Ends == <>(pc = "done")

\* A living target is held, and what is read of it need not be there.
Unreadable == pc = "sample" /\ Stopped /\ addrs \in {"shaky", "wrong"}

\* A session ends unless its target is killed or it fails to read the target
\* for ever: whatever else the target does, is not python, ends early,
\* executes another program or gets the signals of its children.
EndsUnlessKilled == <>(pc = "done" \/ task = "killed") \/ <>[]Unreadable

\* A traced program that is being sampled runs to its completion, unless
\* pyflame fails to read it for ever.
TracedToCompletion ==
  (opts.mode = "trace" /\ pc = "sample" ~> Dead) \/ <>[]Unreadable

\* A target that pyflame stopped runs again, or is gone: failing to read it
\* for ever is the only way to forget it.
TargetReleased == (Stopped ~> ~Stopped) \/ <>[]Unreadable

\* man.md:51, "Profile the process for duration SECONDS before detaching".
DetachesInTime ==
  opts.mode = "attach" /\ opts.seconds >= 0 /\ pc = "sample" ~> tracing = "none"
=============================================================================
