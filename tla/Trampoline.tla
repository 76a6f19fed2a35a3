----------------------------- MODULE Trampoline -----------------------------
(***************************************************************************)
(* The code that pyflame injects into its target (ptrace.cc, built with    *)
(* ENABLE_THREADS on amd64): set_addrs_ of pyfrob.cc makes the stopped     *)
(* leader thread map a page, calls PyInterpreterState_Head through it, and *)
(* ~PyFrob makes the leader unmap it.  Each ptrace request is a step.      *)
(*                                                                         *)
(* The leader is the thread of module Tracee; the others share its text,   *)
(* may run, exit and, if MaySpawn, start threads while nobody holds them.  *)
(* Between the two injections the session of module Prober goes on; of it  *)
(* only the state it leaves the leader in matters here: RequestLegal of    *)
(* that module says that a living target is stopped when ~PyFrob runs.     *)
(*                                                                         *)
(* Where two definitions stand together, the last one is the code; those   *)
(* before it are the slips that a property below must catch.               *)
(***************************************************************************)
EXTENDS Tracee

CONSTANTS
  Threads,      \* ids of the target's threads other than the leader
  MaySpawn,     \* TRUE: a running thread may start another
  MayInterrupt, \* TRUE: pyflame itself may be killed, by a ^C say
  MmapResults   \* what mmap may return in the target

ASSUME TrampolineAssumption ==
  /\ MaySpawn \in BOOLEAN /\ MayInterrupt \in BOOLEAN
  /\ MmapResults \subseteq {"page", "eperm", "enomem"} /\ MmapResults # {}

VARIABLES
  pc,      \* the next request of pyflame
  part,    \* call: PtraceCallFunction, session, clean: PtraceCleanup
  saved,   \* oldregs
  probe,   \* probe_
  hint,    \* interp_head_hint
  todo,    \* threads of the last ListThreads that are still to be handled
  caught,  \* has the catch (...) of PtraceCleanup caught something?
  regs,    \* the leader's registers: where it executes, and %rax
  text,    \* the word at the leader's home instruction
  page,    \* the trampoline page in the target
  step,    \* the leader was resumed by PTRACE_SINGLESTEP
  thr,     \* state of the other threads
  quiet    \* history: no signal, left-over trap, new thread or ^C so far

controlVars == <<pc, part, todo, caught>>
localVars   == <<saved, probe, hint>>
memVars     == <<text, page>>
vars == <<traceeVars, controlVars, localVars, regs, memVars, step, thr, quiet>>

Own == [at |-> "home", rax |-> "own"]

Places == {"home", "past", "stub", "int3", "astray"}
Values == {"own", "mmap", "munmap", "fn", "head", "zero", "page", "eperm",
           "enomem", "einval"}

ControlTypeOK ==
  /\ pc \in {"pause", "attach", "get", "poke", "set", "step", "wait", "result",
             "restore", "unpatch", "resume", "detach_threads", "stub", "call_get",
             "call_set", "call_cont", "call_wait", "call_result", "call_restore",
             "session", "detach", "exit", "done"}
  /\ part \in {"call", "session", "clean"}
  /\ todo \subseteq Threads /\ thr \in [Threads -> {"absent", "free", "held", "dead"}]
LeaderTypeOK ==
  /\ saved \in [at : Places, rax : Values] /\ regs \in [at : Places, rax : Values]
  /\ probe \in {"none", "page", "eperm", "enomem"}
  /\ hint \in {"none"} \cup Values
  /\ text \in {"own", "syscall"} /\ page \in {"none", "fresh", "stub"}
FlagTypeOK == caught \in BOOLEAN /\ step \in BOOLEAN /\ quiet \in BOOLEAN
TypeOK == TraceeTypeOK /\ ControlTypeOK /\ LeaderTypeOK /\ FlagTypeOK

Init ==
  /\ task = "stopped" /\ stop = "trap" /\ notice = "read" /\ trap = "clear"
  /\ sigs = {} /\ tracing = "seize" /\ prog = "py" /\ work = 0 /\ raised = 0
  /\ binary = "python"
  /\ pc = "pause" /\ part = "call" /\ todo = {} /\ caught = FALSE
  /\ saved = Own /\ probe = "none" /\ hint = "none"
  /\ regs = Own /\ text = "own" /\ page = "none" /\ step = FALSE
  /\ thr \in [Threads -> {"absent", "free"}] /\ quiet = TRUE

----------------------------------------------------------------------------
(* Control.                                                                *)

Goto(label) == pc' = label /\ UNCHANGED <<part, caught>>

\* A PtraceException out of PtraceCallFunction reaches main uncaught, as
\* FindSymbols catches FatalException only; PtraceCleanup catches its own.
Throw ==
  IF part = "clean"
  THEN pc' = "detach" /\ caught' = TRUE /\ UNCHANGED part
  ELSE pc' = "exit" /\ UNCHANGED <<part, caught>>

\* A request on the leader that has no other effect on its execution.
Request(here, next, effect) ==
  /\ pc = here
  /\ IF Stopped
     THEN effect /\ Goto(next)
     ELSE UNCHANGED <<localVars, regs, memVars>> /\ Throw
  /\ UNCHANGED <<traceeVars, todo, step, thr>>

\* A request that resumes the leader.
ResumeRequest(here, next, single) ==
  /\ pc = here
  /\ IF Stopped
     THEN Resume /\ step' = single /\ Goto(next)
     ELSE UNCHANGED <<traceeVars, step>> /\ Throw
  /\ UNCHANGED <<localVars, regs, memVars, todo, thr>>

\* DoWait: the PtraceCont after a SIGCHLD is a plain one, even if the leader
\* was being single-stepped.
DoWait(here, next) ==
  /\ pc = here
  /\ \/ /\ Reportable /\ stop = "trap"
        /\ Report /\ Goto(next) /\ UNCHANGED step
     \/ /\ Reportable /\ stop = "CHLD"
        /\ Resume /\ step' = FALSE /\ Goto(here)
     \/ /\ Reportable /\ stop = "OTHER"
        /\ Report /\ Throw /\ UNCHANGED step
     \/ /\ Zombie
        /\ Reap /\ Throw /\ UNCHANGED step
  /\ UNCHANGED <<localVars, regs, memVars, todo, thr>>

----------------------------------------------------------------------------
(* The other threads: PauseChildThreads and ResumeChildThreads.            *)

Live == {t \in Threads : thr[t] \in {"free", "held"}}

\* ListThreads.  /proc/<pid>/task is there until the leader is reaped.
List(here, next) ==
  /\ pc = here
  /\ todo' = Live /\ Goto(next)
  /\ UNCHANGED <<traceeVars, localVars, regs, memVars, step, thr>>

PauseThreads == List("pause", "attach")
ResumeThreads == List("resume", "detach_threads")

AfterAttach == IF part = "call" THEN "get" ELSE "poke"
AfterDetach == IF part = "call" THEN "stub" ELSE "detach"

AttachNone ==
  /\ pc = "attach"
  /\ Goto(AfterAttach) /\ todo' = {}
  /\ UNCHANGED <<traceeVars, localVars, regs, memVars, step, thr>>
AttachThreads ==
  /\ pc = "attach"
  /\ \/ /\ todo = {}
        /\ Goto(AfterAttach) /\ UNCHANGED <<todo, thr>>
     \/ \E t \in todo :
          IF thr[t] = "free"
          THEN /\ thr' = [thr EXCEPT ![t] = "held"] /\ todo' = todo \ {t}
               /\ Goto("attach")
          ELSE Throw /\ UNCHANGED <<todo, thr>>
  /\ UNCHANGED <<traceeVars, localVars, regs, memVars, step>>

DetachOne ==
  /\ pc = "detach_threads"
  /\ \/ todo = {} /\ UNCHANGED <<todo, thr>>
     \/ \E t \in todo : thr' = [thr EXCEPT ![t] = "free"] /\ todo' = todo \ {t}
  /\ Goto(AfterDetach)
  /\ UNCHANGED <<traceeVars, localVars, regs, memVars, step>>
DetachThreads ==
  /\ pc = "detach_threads"
  /\ \/ /\ todo = {}
        /\ Goto(AfterDetach) /\ UNCHANGED <<todo, thr>>
     \/ \E t \in todo :
          IF thr[t] = "held"
          THEN /\ thr' = [thr EXCEPT ![t] = "free"] /\ todo' = todo \ {t}
               /\ Goto("detach_threads")
          ELSE Throw /\ UNCHANGED <<todo, thr>>
  /\ UNCHANGED <<traceeVars, localVars, regs, memVars, step>>

----------------------------------------------------------------------------
(* AllocPage, and the munmap of PtraceCleanup, which share their order:    *)
(* save the registers, patch the text, set the registers for the system    *)
(* call, step over it, read its result, undo both.  AllocPage does the     *)
(* whole of it between PauseChildThreads and ResumeChildThreads, restoring *)
(* the registers first; PtraceCleanup saves before it pauses the threads,  *)
(* and restores the text first.                                            *)

SyscallNumber == IF part = "call" THEN "mmap" ELSE "munmap"

SaveRegs ==
  Request("get", IF part = "call" THEN "poke" ELSE "pause",
          saved' = regs /\ UNCHANGED <<probe, hint, regs, memVars>>)
PatchText ==
  Request("poke", "set",
          text' = "syscall" /\ UNCHANGED <<localVars, regs, page>>)
SetRegsCopied ==
  Request("set", "step",
          regs' = [saved EXCEPT !.rax = "mmap"] /\ UNCHANGED <<localVars, memVars>>)
SetRegs ==
  Request("set", "step",
          regs' = [saved EXCEPT !.rax = SyscallNumber] /\ UNCHANGED <<localVars, memVars>>)
SingleStepCont == ResumeRequest("step", "wait", FALSE)
SingleStep == ResumeRequest("step", "wait", TRUE)
WaitStep   == DoWait("wait", "result")

\* What PtraceCleanup makes of %rax: munmap(2) answers 0 or an error.
ReadResultAlways ==
  Request("result", IF part = "call" THEN "restore" ELSE "unpatch",
          probe' = regs.rax /\ UNCHANGED <<saved, hint, regs, memVars>>)
ReadResult ==
  Request("result", IF part = "call" THEN "restore" ELSE "unpatch",
          /\ probe' = (IF part = "call" THEN regs.rax
                       ELSE IF regs.rax = "zero" THEN "none" ELSE probe)
          /\ UNCHANGED <<saved, hint, regs, memVars>>)

RestoreNext == IF part = "call" THEN "unpatch" ELSE "resume"
RestoreForgotten ==
  Request("restore", RestoreNext, UNCHANGED <<localVars, regs, memVars>>)
Restore ==
  Request("restore", RestoreNext,
          regs' = saved /\ UNCHANGED <<localVars, memVars>>)
UnpatchNext == IF part = "call" THEN "resume" ELSE "restore"
UnpatchForgotten ==
  Request("unpatch", UnpatchNext, UNCHANGED <<localVars, regs, memVars>>)
Unpatch ==
  Request("unpatch", UnpatchNext,
          text' = "own" /\ UNCHANGED <<localVars, regs, page>>)

----------------------------------------------------------------------------
(* The call of PyInterpreterState_Head.                                    *)

\* MAP_FAILED is recognised; any other errno is taken for an address, and
\* the poke fails.
WriteStub ==
  /\ pc = "stub"
  /\ IF probe = "eperm"
     THEN /\ hint' = "eperm" /\ part' = "session" /\ pc' = "session"
          /\ UNCHANGED <<page, caught>>
     ELSE /\ IF Stopped /\ probe = "page"
             THEN page' = "stub" /\ Goto("call_get")
             ELSE UNCHANGED page /\ Throw
          /\ UNCHANGED hint
  /\ UNCHANGED <<traceeVars, todo, saved, probe, regs, text, step, thr>>

CallSave ==
  Request("call_get", "call_set",
          saved' = regs /\ UNCHANGED <<probe, hint, regs, memVars>>)
CallSet ==
  Request("call_set", "call_cont",
          regs' = [at |-> "stub", rax |-> "fn"] /\ UNCHANGED <<localVars, memVars>>)
CallCont   == ResumeRequest("call_cont", "call_wait", FALSE)
CallWait   == DoWait("call_wait", "call_result")
CallResultLate ==
  Request("call_result", "call_restore",
          hint' = saved.rax /\ UNCHANGED <<saved, probe, regs, memVars>>)
CallResult ==
  Request("call_result", "call_restore",
          hint' = regs.rax /\ UNCHANGED <<saved, probe, regs, memVars>>)
CallRestore ==
  /\ pc = "call_restore"
  /\ IF Stopped
     THEN regs' = saved /\ pc' = "session" /\ part' = "session" /\ UNCHANGED caught
     ELSE UNCHANGED regs /\ Throw
  /\ UNCHANGED <<traceeVars, todo, localVars, memVars, step, thr>>

----------------------------------------------------------------------------
(* The session in between, and the end.                                    *)

\* FindSymbols and ProbeLoop continue the leader and interrupt it again.
LetRun ==
  /\ pc = "session" /\ Stopped /\ notice = "read"
  /\ Resume /\ step' = FALSE
  /\ UNCHANGED <<controlVars, localVars, regs, memVars, thr>>
Hold(left) ==
  /\ pc = "session" /\ Alive /\ notice # "read"
  /\ task' = "stopped" /\ stop' = "trap" /\ notice' = "read" /\ trap' = left
  /\ UNCHANGED <<sigs, tracing, prog, work, raised, binary>>
  /\ UNCHANGED <<controlVars, localVars, regs, memVars, step, thr>>
HoldAgain == Hold("clear")
\* An interrupt that met a stop for another signal outlives the next stop.
HoldWithTrapLeft == "OTHER" \in Signals /\ Hold("pending") /\ quiet' = FALSE

\* ~PyFrob: PtraceCleanup.
StartCleanup ==
  /\ pc = "session" /\ (notice = "read" \/ Dead)
  /\ part' = "clean" /\ pc' = (IF probe = "none" THEN "detach" ELSE "get")
  /\ UNCHANGED <<traceeVars, todo, caught, localVars, regs, memVars, step, thr>>

SafeDetach ==
  /\ pc = "detach"
  /\ IF Stopped THEN Release ELSE UNCHANGED traceeVars
  /\ Goto("exit")
  /\ UNCHANGED <<todo, localVars, regs, memVars, step, thr>>

\* A signal that ends pyflame ends it between any two of its requests.
Interrupted ==
  /\ MayInterrupt /\ pc \notin {"exit", "done"}
  /\ Goto("exit") /\ quiet' = FALSE
  /\ UNCHANGED <<traceeVars, todo, localVars, regs, memVars, step, thr>>

\* The exit of pyflame releases every thread it still traces.
ProcessExit ==
  /\ pc = "exit"
  /\ Release
  /\ thr' = [t \in Threads |-> IF thr[t] = "held" THEN "free" ELSE thr[t]]
  /\ Goto("done")
  /\ UNCHANGED <<todo, localVars, regs, memVars, step>>

----------------------------------------------------------------------------
(* The target.                                                             *)

\* %rip is two bytes on after a system call; a stepped leader stops there.
AfterSyscall(value) ==
  /\ regs' = [at |-> IF step THEN "past" ELSE "astray", rax |-> value]
  /\ IF step
     THEN EnterStop("trap") /\ UNCHANGED <<trap, sigs, tracing, prog, work, raised, binary>>
     ELSE UNCHANGED traceeVars

AtSyscall(number) ==
  InUserMode /\ regs = [at |-> "home", rax |-> number] /\ text = "syscall"

MmapCall ==
  /\ AtSyscall("mmap")
  /\ \E value \in MmapResults :
       AfterSyscall(value) /\ page' = (IF value = "page" THEN "fresh" ELSE page)
  /\ UNCHANGED <<controlVars, localVars, text, step, thr>>
MunmapCall ==
  /\ AtSyscall("munmap")
  /\ IF probe = "page"
     THEN AfterSyscall("zero") /\ page' = "none"
     ELSE AfterSyscall("einval") /\ UNCHANGED page
  /\ UNCHANGED <<controlVars, localVars, text, step, thr>>

\* The function runs and returns to the INT3 behind the CALL, which stops a
\* traced thread and kills an untraced one.
StubCall ==
  /\ InUserMode /\ regs.at = "stub" /\ page = "stub"
  /\ IF tracing = "none"
     THEN /\ Die("killed") /\ UNCHANGED <<tracing, prog, work, raised, binary>>
          /\ thr' = [t \in Threads |-> IF t \in Live THEN "dead" ELSE thr[t]]
     ELSE /\ EnterStop("trap") /\ UNCHANGED <<trap, sigs, tracing, prog, work, raised, binary>>
          /\ UNCHANGED thr
  /\ regs' = [at |-> "int3", rax |-> "head"]
  /\ UNCHANGED <<controlVars, localVars, memVars, step>>

\* To go on in any other state than its own is not what the program does.
GoAstray ==
  /\ InUserMode
  /\ regs # Own \/ text # "own"
  /\ \/ regs.at \in {"past", "int3"}
     \/ regs.at = "home" /\ ~(text = "syscall" /\ regs.rax \in {"mmap", "munmap"})
  /\ regs' = [regs EXCEPT !.at = "astray"]
  /\ UNCHANGED <<traceeVars, controlVars, localVars, memVars, step, thr>>

ThreadExits(t) ==
  /\ thr[t] = "free" /\ Alive
  /\ thr' = [thr EXCEPT ![t] = "dead"]
  /\ UNCHANGED <<traceeVars, controlVars, localVars, regs, memVars, step>>
ThreadSpawns(t) ==
  /\ MaySpawn /\ Alive
  /\ thr[t] = "absent" /\ (task = "running" \/ \E u \in Threads : thr[u] = "free")
  /\ thr' = [thr EXCEPT ![t] = "free"] /\ quiet' = FALSE
  /\ UNCHANGED <<traceeVars, controlVars, localVars, regs, memVars, step>>

\* The leader's signals and traps, and the death of the whole process.
LeaderStops ==
  /\ TakeTrap \/ \E s \in Signals : TakeSignal(s)
  /\ UNCHANGED <<controlVars, localVars, regs, memVars, step, thr>>
LeaderSignalled ==
  /\ \E s \in Signals : RaiseSignal(s)
  /\ quiet' = FALSE
  /\ UNCHANGED <<controlVars, localVars, regs, memVars, step, thr>>
ProcessKilled ==
  /\ Kill
  /\ thr' = [t \in Threads |-> IF t \in Live THEN "dead" ELSE thr[t]]
  /\ UNCHANGED <<controlVars, localVars, regs, memVars, step>>

Terminated == pc = "done" /\ UNCHANGED vars

----------------------------------------------------------------------------
PyflameStep ==
  \/ PauseThreads \/ AttachThreads \/ ResumeThreads \/ DetachThreads
  \/ SaveRegs \/ PatchText \/ SetRegs \/ SingleStep \/ WaitStep \/ ReadResult
  \/ Restore \/ Unpatch \/ WriteStub \/ CallSave \/ CallSet \/ CallCont
  \/ CallWait \/ CallResult \/ CallRestore \/ LetRun \/ HoldAgain
  \/ StartCleanup \/ SafeDetach \/ ProcessExit

TargetStep ==
  \/ MmapCall \/ MunmapCall \/ StubCall \/ GoAstray \/ LeaderStops \/ ProcessKilled
  \/ \E t \in Threads : ThreadExits(t)

Disturbance ==
  LeaderSignalled \/ HoldWithTrapLeft \/ Interrupted \/ \E t \in Threads : ThreadSpawns(t)

Next ==
  \/ (PyflameStep \/ TargetStep) /\ UNCHANGED quiet
  \/ Disturbance
  \/ Terminated

Spec == Init /\ [][Next]_vars

(***************************************************************************)
(* Fairness.  pyflame is a running process, and a thread that PTRACE_CONT  *)
(* or PTRACE_SINGLESTEP resumes executes the system call or the function   *)
(* it was set up for, after the traps and signals it has to take first.    *)
(* Nobody has to signal, spawn, exit or kill.                              *)
(***************************************************************************)
FairSpec ==
  /\ Spec
  /\ WF_vars(PyflameStep /\ UNCHANGED quiet)
  /\ WF_vars((MmapCall \/ MunmapCall \/ StubCall) /\ UNCHANGED quiet)
  /\ WF_vars(LeaderStops /\ UNCHANGED quiet)

----------------------------------------------------------------------------
(* Properties.                                                             *)

\* As long as it is quiet: when pyflame resumes the leader, the leader
\* executes the program, unless pyflame waits for the end of what it
\* injected; after pyflame is gone, the program goes on where it was.
ProgramResumed ==
  quiet /\ task = "running" =>
    (regs = Own /\ text = "own") \/ pc \in {"wait", "call_wait"}

\* As long as it is quiet: while the text is patched no other thread can
\* execute it, for all that live are held.
PatchedAlone ==
  quiet /\ text = "syscall" => \A t \in Threads : thr[t] # "free"

\* As long as it is quiet: a cleanup that met no error leaves no page.
PageFreed ==
  quiet /\ pc = "detach" /\ ~caught /\ Alive => page = "none"

\* Whatever happens: a session that goes on after the call, or ends without
\* an error, has let every thread go.
NoneForgotten ==
  pc \in {"stub", "session"} \/ (pc = "detach" /\ ~caught) =>
    \A t \in Threads : thr[t] # "held"

\* Once the session goes on after the call, the leader has its registers and
\* its text back, whatever signals came in between and whatever mmap said.
SessionClean ==
  pc = "session" => regs = Own /\ text = "own"

\* The hint is what PyInterpreterState_Head returned, or the -1 that says
\* that no page was mapped, whatever interrupted the call.
HintRight ==
  pc = "session" => hint = (IF probe = "page" THEN "head" ELSE "eperm")

\* As long as it is quiet, DoWait returns: the leader comes to the end of
\* what was injected.
InjectionEnds ==
  pc \in {"wait", "call_wait"} ~> (pc \notin {"wait", "call_wait"} \/ ~quiet)
=============================================================================
