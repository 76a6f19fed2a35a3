-------------------------- MODULE TrampolineProofs --------------------------
(***************************************************************************)
(* Proofs about module Trampoline, for any number of threads, signals and  *)
(* results of mmap.                                                        *)
(***************************************************************************)
EXTENDS Trampoline, TLAPS

USE TraceeAssumption, TrampolineAssumption DEF TraceeAssumption, TrampolineAssumption

----------------------------------------------------------------------------
(* The inductive invariant.                                                *)

CallPcs == {"call_get", "call_set", "call_cont", "call_wait", "call_result", "call_restore"}

\* Which part of the code the requests are of.
Control ==
  /\ pc \in CallPcs \cup {"stub"} => part = "call"
  /\ pc = "session" => part = "session"
  /\ pc = "detach" => part = "clean"
  /\ part = "session" => pc \in {"session", "exit", "done"}
  /\ Alive \/ Dead
  /\ notice = "read" => Stopped \/ Dead

\* The first injection meets no trap that an earlier stop has left; as long
\* as it is quiet, none of them does, nor a signal.
Undisturbed ==
  /\ part = "call" \/ quiet => trap = "clear"
  /\ quiet => sigs = {} /\ stop \notin {"CHLD", "OTHER"}

Clean == regs = Own /\ text = "own"
PageKnown == page # "none" => probe = "page"
SyscallDone == IF part = "call" THEN regs.rax \in MmapResults ELSE page = "none"

\* What the leader is like before each request.  The second injection is
\* protected from what may have happened before only as long as it is quiet.
LeaderKnown ==
  part = "call" \/ quiet =>
    /\ task = "running" => pc \in {"wait", "call_wait", "session", "exit", "done"}
    /\ pc \in {"pause", "attach", "get", "resume", "detach_threads", "stub", "call_get"} => Clean
    /\ pc \in {"pause", "attach"} /\ part = "clean" => saved = Own
    /\ pc \in {"poke", "call_set"} => Clean /\ saved = Own
    /\ pc \in {"set", "step", "wait", "result", "restore", "unpatch"} =>
         /\ saved = Own
         /\ text = (IF pc = "restore" /\ part = "clean" THEN "own" ELSE "syscall")
    /\ pc = "set" \/ (pc = "unpatch" /\ part = "call") => regs = Own
    /\ pc = "step" => regs = [at |-> "home", rax |-> SyscallNumber]
    /\ pc = "wait" => /\ regs.at \in {"home", "past", "astray"}
                      /\ regs.at = "home" => regs.rax = SyscallNumber
                      /\ Stopped /\ stop = "trap" => SyscallDone
    /\ pc = "result" => SyscallDone
    /\ pc \in {"call_cont", "call_wait", "call_result", "call_restore"} =>
         text = "own" /\ saved = Own
    /\ pc = "call_cont" => regs = [at |-> "stub", rax |-> "fn"]
    /\ pc = "call_wait" => /\ regs.at \in {"stub", "int3", "astray"}
                           /\ Stopped /\ stop = "trap" => regs.rax = "head"
    /\ pc = "call_result" => regs.rax = "head"
    /\ pc = "call_restore" => hint = "head"
    /\ quiet /\ pc \in {"session", "detach", "exit", "done"} => Clean \/ Dead

\* The page is there if, and only if, probe_ says so.
PageTold ==
  /\ part = "call" =>
       /\ pc \in {"pause", "attach", "get", "poke", "set", "step"} => page = "none"
       /\ pc \in {"wait", "result"} => (page # "none" => regs.rax = "page")
       /\ pc \in {"restore", "unpatch", "resume", "detach_threads", "stub"} =>
            probe \in MmapResults /\ PageKnown
       /\ pc \in CallPcs => probe = "page"
  /\ pc = "session" => Clean /\ HintRight /\ probe \in {"page", "eperm"} /\ PageKnown
  /\ part = "clean" /\ quiet =>
       /\ pc \in {"get", "pause", "attach", "poke", "set", "step", "wait"} => PageKnown
       /\ pc \in {"result", "unpatch", "restore", "resume", "detach_threads"} => page = "none"
       /\ pc = "detach" /\ ~caught => page = "none"

NoneFree == \A t \in Threads : thr[t] # "free"
NoneHeld == \A t \in Threads : thr[t] # "held"

\* Where the other threads are.
OthersKnown ==
  /\ Dead => NoneFree /\ NoneHeld
  /\ pc = "detach_threads" => \A t \in Threads : thr[t] = "held" => t \in todo
  /\ pc \in CallPcs \cup {"stub", "session"} \/ (pc = "detach" /\ ~caught) => NoneHeld
  /\ quiet =>
       /\ pc = "attach" => \A t \in Threads : thr[t] = "free" => t \in todo
       /\ pc \in {"poke", "set", "step", "wait", "result", "unpatch"}
            \/ (pc \in {"get", "restore"} /\ part = "call") => NoneFree

Inv == TypeOK /\ Control /\ Undisturbed /\ LeaderKnown /\ PageTold /\ OthersKnown

USE DEF Inv, TypeOK, Stopped, Dead, Zombie, Alive, Own
USE DEF traceeVars, controlVars, localVars, memVars

----------------------------------------------------------------------------
(* The other threads.                                                      *)

\* The list has every living thread, so the free ones are still to be attached.
LEMMA PauseThreadsKeeps == ASSUME Inv, PauseThreads, UNCHANGED quiet PROVE Inv'
<1> USE DEF List, Live, Goto, PauseThreads
<1>1. TraceeTypeOK' BY DEF TraceeTypeOK
<1>2. ControlTypeOK' BY DEF ControlTypeOK
<1>3. LeaderTypeOK' BY DEF LeaderTypeOK, Places, Values
<1>4. FlagTypeOK' BY Zenon DEF FlagTypeOK
<1>5. Control' BY DEF Control, CallPcs
<1>6. Undisturbed' BY DEF Undisturbed
<1>7. LeaderKnown' BY DEF LeaderKnown, Clean, SyscallDone, SyscallNumber, PageKnown
<1>8. PageTold' BY DEF PageTold, PageKnown, HintRight, Clean, Control, CallPcs
<1>9. OthersKnown' BY DEF OthersKnown, NoneFree, NoneHeld, Control, CallPcs
<1> QED BY <1>1, <1>2, <1>3, <1>4, <1>5, <1>6, <1>7, <1>8, <1>9

\* A thread leaves the list as it is held; an empty list leaves none free.
LEMMA AttachThreadsKeeps == ASSUME Inv, AttachThreads, UNCHANGED quiet PROVE Inv'
<1> USE DEF AttachThreads, Goto, AfterAttach, Throw
<1>1. TraceeTypeOK' BY DEF TraceeTypeOK
<1>2. ControlTypeOK' BY DEF ControlTypeOK
<1>3. LeaderTypeOK' BY DEF LeaderTypeOK, Places, Values
<1>4. FlagTypeOK' BY Zenon DEF FlagTypeOK
<1>5. Control' BY DEF Control, CallPcs
<1>6. Undisturbed' BY DEF Undisturbed
<1>7. LeaderKnown'
    BY DEF LeaderKnown, Undisturbed, Control, CallPcs, Clean, SyscallDone,
      SyscallNumber, PageKnown, TraceeTypeOK, ControlTypeOK, LeaderTypeOK
<1>8. PageTold' BY DEF PageTold, PageKnown, HintRight, Clean, Control, CallPcs
<1>9. OthersKnown'
    BY DEF OthersKnown, NoneFree, NoneHeld, ControlTypeOK, Control, CallPcs
<1> QED BY <1>1, <1>2, <1>3, <1>4, <1>5, <1>6, <1>7, <1>8, <1>9

\* The list has every thread that is held.
LEMMA ResumeThreadsKeeps == ASSUME Inv, ResumeThreads, UNCHANGED quiet PROVE Inv'
<1> USE DEF List, Live, Goto, ResumeThreads
<1>1. TraceeTypeOK' BY DEF TraceeTypeOK
<1>2. ControlTypeOK' BY DEF ControlTypeOK, Control, CallPcs
<1>3. LeaderTypeOK' BY DEF LeaderTypeOK, Places, Values
<1>4. FlagTypeOK' BY Zenon DEF FlagTypeOK
<1>5. Control' BY DEF Control, CallPcs
<1>6. Undisturbed' BY DEF Undisturbed
<1>7. LeaderKnown' BY DEF LeaderKnown, Clean, SyscallDone, SyscallNumber, PageKnown
<1>8. PageTold' BY DEF PageTold, PageKnown, HintRight, Clean, Control, CallPcs
<1>9. OthersKnown' BY DEF OthersKnown, NoneFree, NoneHeld, Control, CallPcs
<1> QED BY <1>1, <1>2, <1>3, <1>4, <1>5, <1>6, <1>7, <1>8, <1>9

\* A thread leaves the list as it is let go; an empty list leaves none held.
LEMMA DetachThreadsKeeps == ASSUME Inv, DetachThreads, UNCHANGED quiet PROVE Inv'
<1> USE DEF DetachThreads, Goto, AfterDetach, Throw
<1>1. TraceeTypeOK' BY DEF TraceeTypeOK
<1>2. ControlTypeOK' BY DEF ControlTypeOK
<1>3. LeaderTypeOK' BY DEF LeaderTypeOK, Places, Values
<1>4. FlagTypeOK' BY Zenon DEF FlagTypeOK
<1>5. Control' BY DEF Control, CallPcs, ControlTypeOK, TraceeTypeOK
<1>6. Undisturbed' BY DEF Undisturbed
<1>7. LeaderKnown' BY DEF LeaderKnown, Clean, SyscallDone, SyscallNumber, PageKnown
<1>8. PageTold' BY DEF PageTold, PageKnown, HintRight, Clean, Control, CallPcs
<1>9. OthersKnown'
    BY DEF OthersKnown, NoneFree, NoneHeld, ControlTypeOK, Control, CallPcs
<1> QED BY <1>1, <1>2, <1>3, <1>4, <1>5, <1>6, <1>7, <1>8, <1>9

\* A thread that ends needs no holding.
LEMMA ThreadExitsKeeps == ASSUME Inv, NEW t \in Threads, ThreadExits(t), UNCHANGED quiet PROVE Inv'
<1> USE DEF ThreadExits
<1>1. TraceeTypeOK' BY DEF TraceeTypeOK
<1>2. ControlTypeOK' BY DEF ControlTypeOK
<1>3. LeaderTypeOK' BY DEF LeaderTypeOK, Places, Values
<1>4. FlagTypeOK' BY Zenon DEF FlagTypeOK
<1>5. Control' BY DEF Control, CallPcs
<1>6. Undisturbed' BY DEF Undisturbed
<1>7. LeaderKnown' BY DEF LeaderKnown, Clean, SyscallDone, SyscallNumber, PageKnown
<1>8. PageTold' BY DEF PageTold, PageKnown, HintRight, Clean
<1>9. OthersKnown' BY DEF OthersKnown, NoneFree, NoneHeld
<1> QED BY <1>1, <1>2, <1>3, <1>4, <1>5, <1>6, <1>7, <1>8, <1>9

\* From here on the run is not quiet: readdir may have missed the thread.
LEMMA ThreadSpawnsKeeps == ASSUME Inv, NEW t \in Threads, ThreadSpawns(t) PROVE Inv'
<1> USE DEF ThreadSpawns
<1>1. TraceeTypeOK' BY DEF TraceeTypeOK
<1>2. ControlTypeOK' BY DEF ControlTypeOK
<1>3. LeaderTypeOK' BY DEF LeaderTypeOK, Places, Values
<1>4. FlagTypeOK' BY Zenon DEF FlagTypeOK
<1>5. Control' BY DEF Control, CallPcs
<1>6. Undisturbed' BY DEF Undisturbed
<1>7. LeaderKnown' BY DEF LeaderKnown, Clean, SyscallDone, SyscallNumber, PageKnown
<1>8. PageTold' BY DEF PageTold, PageKnown, HintRight, Clean
<1>9. OthersKnown' BY DEF OthersKnown, NoneFree, NoneHeld
<1> QED BY <1>1, <1>2, <1>3, <1>4, <1>5, <1>6, <1>7, <1>8, <1>9

----------------------------------------------------------------------------
(* The system call of each injection.                                      *)

\* What is saved are the program's own registers.
LEMMA SaveRegsKeeps == ASSUME Inv, SaveRegs, UNCHANGED quiet PROVE Inv'
<1> USE DEF SaveRegs, Request, Goto, Throw
<1>1. TraceeTypeOK' BY DEF TraceeTypeOK
<1>2. ControlTypeOK' BY DEF ControlTypeOK
<1>3. LeaderTypeOK' BY DEF LeaderTypeOK, Places, Values
<1>4. FlagTypeOK' BY Zenon DEF FlagTypeOK
<1>5. Control' BY DEF Control, CallPcs
<1>6. Undisturbed' BY DEF Undisturbed
<1>7. LeaderKnown' BY DEF LeaderKnown, Clean, SyscallDone, SyscallNumber, PageKnown
<1>8. PageTold' BY DEF PageTold, PageKnown, HintRight, Clean, Control, CallPcs
<1>9. OthersKnown' BY DEF OthersKnown, NoneFree, NoneHeld, Control, CallPcs
<1> QED BY <1>1, <1>2, <1>3, <1>4, <1>5, <1>6, <1>7, <1>8, <1>9

\* The text is patched only when no thread is free.
LEMMA PatchTextKeeps == ASSUME Inv, PatchText, UNCHANGED quiet PROVE Inv'
<1> USE DEF PatchText, Request, Goto, Throw
<1>1. TraceeTypeOK' BY DEF TraceeTypeOK
<1>2. ControlTypeOK' BY DEF ControlTypeOK
<1>3. LeaderTypeOK' BY DEF LeaderTypeOK, Places, Values
<1>4. FlagTypeOK' BY Zenon DEF FlagTypeOK
<1>5. Control' BY DEF Control, CallPcs
<1>6. Undisturbed' BY DEF Undisturbed
<1>7. LeaderKnown' BY DEF LeaderKnown, Clean, SyscallDone, SyscallNumber, PageKnown
<1>8. PageTold' BY DEF PageTold, PageKnown, HintRight, Clean, Control, CallPcs
<1>9. OthersKnown' BY DEF OthersKnown, NoneFree, NoneHeld, Control, CallPcs
<1> QED BY <1>1, <1>2, <1>3, <1>4, <1>5, <1>6, <1>7, <1>8, <1>9

\* The leader is sent into the system call of this injection.
LEMMA SetRegsKeeps == ASSUME Inv, SetRegs, UNCHANGED quiet PROVE Inv'
<1> USE DEF SetRegs, Request, Goto, Throw, SyscallNumber
<1>1. TraceeTypeOK' BY DEF TraceeTypeOK
<1>2. ControlTypeOK' BY DEF ControlTypeOK, Control, CallPcs
<1>3. LeaderTypeOK' BY DEF LeaderTypeOK, Places, Values
<1>4. FlagTypeOK' BY Zenon DEF FlagTypeOK
<1>5. Control' BY DEF Control, CallPcs
<1>6. Undisturbed' BY DEF Undisturbed
<1>7. LeaderKnown'
    BY DEF LeaderKnown, Clean, SyscallDone, SyscallNumber, PageKnown, Control,
      CallPcs
<1>8. PageTold' BY DEF PageTold, PageKnown, HintRight, Clean, Control, CallPcs
<1>9. OthersKnown' BY DEF OthersKnown, NoneFree, NoneHeld, Control, CallPcs
<1> QED BY <1>1, <1>2, <1>3, <1>4, <1>5, <1>6, <1>7, <1>8, <1>9

\* The leader is resumed for one instruction.
LEMMA SingleStepKeeps == ASSUME Inv, SingleStep, UNCHANGED quiet PROVE Inv'
<1> USE DEF SingleStep, ResumeRequest, Goto, Throw
<1>1. TraceeTypeOK'
  <2>1. Resume \/ UNCHANGED traceeVars
    OBVIOUS
  <2>2. CASE Resume BY <2>2 DEF TraceeTypeOK, Resume
  <2>3. CASE UNCHANGED traceeVars BY <2>3 DEF TraceeTypeOK
  <2> QED BY <2>1, <2>2, <2>3
<1>2. ControlTypeOK' BY DEF ControlTypeOK, Resume
<1>3. LeaderTypeOK' BY DEF LeaderTypeOK, Places, Values, Resume
<1>4. FlagTypeOK' BY Zenon DEF FlagTypeOK, Resume
<1>5. Control' BY DEF Control, CallPcs, Resume
<1>6. Undisturbed' BY DEF Undisturbed, Resume
<1>7. LeaderKnown'
    BY DEF LeaderKnown, Clean, SyscallDone, SyscallNumber, PageKnown, Control,
      CallPcs, Resume
<1>8. PageTold'
    BY DEF PageTold, PageKnown, HintRight, Clean, Control, CallPcs, Resume
<1>9. OthersKnown' BY DEF OthersKnown, NoneFree, NoneHeld, Control, CallPcs, Resume
<1> QED BY <1>1, <1>2, <1>3, <1>4, <1>5, <1>6, <1>7, <1>8, <1>9

\* The page is there if mmap says so.
LEMMA MmapCallKeeps == ASSUME Inv, MmapCall, UNCHANGED quiet PROVE Inv'
<1> USE DEF MmapCall, AtSyscall, AfterSyscall, EnterStop, InUserMode
<1>1. TraceeTypeOK' BY DEF TraceeTypeOK
<1>2. ControlTypeOK' BY DEF ControlTypeOK
<1>3. LeaderTypeOK' BY DEF LeaderTypeOK, Places, Values
<1>4. FlagTypeOK' BY Zenon DEF FlagTypeOK
<1>5. Control' BY DEF Control, CallPcs
<1>6. Undisturbed' BY DEF Undisturbed
<1>7. LeaderKnown' BY DEF LeaderKnown, Clean, SyscallDone, SyscallNumber, PageKnown
<1>8. PageTold'
    BY DEF PageTold, PageKnown, HintRight, Clean, LeaderKnown, SyscallDone,
      SyscallNumber, Control, CallPcs
<1>9. OthersKnown' BY DEF OthersKnown, NoneFree, NoneHeld
<1> QED BY <1>1, <1>2, <1>3, <1>4, <1>5, <1>6, <1>7, <1>8, <1>9

\* The page is gone: probe_ said that it was there.
LEMMA MunmapCallKeeps == ASSUME Inv, MunmapCall, UNCHANGED quiet PROVE Inv'
<1> USE DEF MunmapCall, AtSyscall, AfterSyscall, EnterStop, InUserMode
<1>1. TraceeTypeOK' BY DEF TraceeTypeOK
<1>2. ControlTypeOK' BY DEF ControlTypeOK
<1>3. LeaderTypeOK' BY DEF LeaderTypeOK, Places, Values
<1>4. FlagTypeOK' BY Zenon DEF FlagTypeOK
<1>5. Control' BY DEF Control, CallPcs
<1>6. Undisturbed' BY DEF Undisturbed
<1>7. LeaderKnown'
    BY DEF LeaderKnown, Undisturbed, PageTold, OthersKnown, HintRight, Control,
      CallPcs, Clean, SyscallDone, SyscallNumber, PageKnown, TraceeTypeOK,
      ControlTypeOK, LeaderTypeOK
<1>8. PageTold' BY DEF PageTold, PageKnown, HintRight, Clean
<1>9. OthersKnown' BY DEF OthersKnown, NoneFree, NoneHeld
<1> QED BY <1>1, <1>2, <1>3, <1>4, <1>5, <1>6, <1>7, <1>8, <1>9

\* The stop that is taken is that of the step, unless DoWait throws; a SIGCHLD in
\* between makes the leader go astray in the first injection, and back in Restore.
LEMMA WaitStepKeeps == ASSUME Inv, WaitStep, UNCHANGED quiet PROVE Inv'
<1> USE DEF WaitStep, DoWait, Reportable, Report, Resume, Reap, Goto, Throw
<1>1. TraceeTypeOK' BY DEF TraceeTypeOK
<1>2. ControlTypeOK' BY DEF ControlTypeOK
<1>3. LeaderTypeOK' BY DEF LeaderTypeOK, Places, Values
<1>4. FlagTypeOK' BY Zenon DEF FlagTypeOK
<1>5. Control' BY DEF Control, CallPcs
<1>6. Undisturbed' BY DEF Undisturbed
<1>7. LeaderKnown'
    BY DEF LeaderKnown, Clean, SyscallDone, SyscallNumber, PageKnown, Control,
      CallPcs, Undisturbed
<1>8. PageTold'
    BY DEF PageTold, PageKnown, HintRight, Clean, LeaderKnown, SyscallDone,
      SyscallNumber, Control, CallPcs
<1>9. OthersKnown' BY DEF OthersKnown, NoneFree, NoneHeld, Control, CallPcs
<1> QED BY <1>1, <1>2, <1>3, <1>4, <1>5, <1>6, <1>7, <1>8, <1>9

\* probe_ is what mmap answered, or what munmap left.
LEMMA ReadResultKeeps == ASSUME Inv, ReadResult, UNCHANGED quiet PROVE Inv'
<1> USE DEF ReadResult, Request, Goto, Throw
<1>1. TraceeTypeOK' BY DEF TraceeTypeOK
<1>2. ControlTypeOK' BY DEF ControlTypeOK
<1>3. LeaderTypeOK'
    BY DEF LeaderTypeOK, Places, Values, PageTold, LeaderKnown, SyscallDone
<1>4. FlagTypeOK' BY Zenon DEF FlagTypeOK
<1>5. Control' BY DEF Control, CallPcs
<1>6. Undisturbed' BY DEF Undisturbed
<1>7. LeaderKnown'
    BY DEF LeaderKnown, Clean, SyscallDone, SyscallNumber, PageKnown, Control,
      CallPcs
<1>8. PageTold'
    BY DEF PageTold, PageKnown, HintRight, Clean, LeaderKnown, SyscallDone,
      SyscallNumber, Control, CallPcs
<1>9. OthersKnown' BY DEF OthersKnown, NoneFree, NoneHeld, Control, CallPcs
<1> QED BY <1>1, <1>2, <1>3, <1>4, <1>5, <1>6, <1>7, <1>8, <1>9

\* The leader has its own registers again.
LEMMA RestoreKeeps == ASSUME Inv, Restore, UNCHANGED quiet PROVE Inv'
<1> USE DEF Restore, RestoreNext, Request, Goto, Throw
<1>1. TraceeTypeOK' BY DEF TraceeTypeOK
<1>2. ControlTypeOK' BY DEF ControlTypeOK
<1>3. LeaderTypeOK' BY DEF LeaderTypeOK, Places, Values
<1>4. FlagTypeOK' BY Zenon DEF FlagTypeOK
<1>5. Control' BY DEF Control, CallPcs
<1>6. Undisturbed' BY DEF Undisturbed
<1>7. LeaderKnown'
    BY DEF LeaderKnown, Undisturbed, Control, CallPcs, Clean, SyscallDone,
      SyscallNumber, PageKnown, TraceeTypeOK, ControlTypeOK, LeaderTypeOK
<1>8. PageTold' BY DEF PageTold, PageKnown, HintRight, Clean, Control, CallPcs
<1>9. OthersKnown' BY DEF OthersKnown, NoneFree, NoneHeld, Control, CallPcs
<1> QED BY <1>1, <1>2, <1>3, <1>4, <1>5, <1>6, <1>7, <1>8, <1>9

\* The program has its own text again.
LEMMA UnpatchKeeps == ASSUME Inv, Unpatch, UNCHANGED quiet PROVE Inv'
<1> USE DEF Unpatch, UnpatchNext, Request, Goto, Throw
<1>1. TraceeTypeOK' BY DEF TraceeTypeOK
<1>2. ControlTypeOK' BY DEF ControlTypeOK
<1>3. LeaderTypeOK' BY DEF LeaderTypeOK, Places, Values
<1>4. FlagTypeOK' BY Zenon DEF FlagTypeOK
<1>5. Control' BY DEF Control, CallPcs
<1>6. Undisturbed' BY DEF Undisturbed
<1>7. LeaderKnown'
    BY DEF LeaderKnown, Undisturbed, Control, CallPcs, Clean, SyscallDone,
      SyscallNumber, PageKnown, TraceeTypeOK, ControlTypeOK, LeaderTypeOK
<1>8. PageTold' BY DEF PageTold, PageKnown, HintRight, Clean, Control, CallPcs
<1>9. OthersKnown' BY DEF OthersKnown, NoneFree, NoneHeld, Control, CallPcs
<1> QED BY <1>1, <1>2, <1>3, <1>4, <1>5, <1>6, <1>7, <1>8, <1>9

----------------------------------------------------------------------------
(* The call of PyInterpreterState_Head.                                    *)

\* Without a page the call is given up, and the leader is clean already.
LEMMA WriteStubKeeps == ASSUME Inv, WriteStub, UNCHANGED quiet PROVE Inv'
<1> USE DEF WriteStub, Goto, Throw
<1>1. TraceeTypeOK' BY DEF TraceeTypeOK
<1>2. ControlTypeOK' BY DEF ControlTypeOK
<1>3. LeaderTypeOK' BY DEF LeaderTypeOK, Places, Values
<1>4. FlagTypeOK' BY Zenon DEF FlagTypeOK
<1>5. Control' BY DEF Control, CallPcs
<1>6. Undisturbed' BY DEF Undisturbed
<1>7. LeaderKnown' BY DEF LeaderKnown, Clean, SyscallDone, SyscallNumber, PageKnown
<1>8. PageTold'
    BY DEF PageTold, PageKnown, HintRight, Clean, LeaderKnown, SyscallDone,
      SyscallNumber, Control, CallPcs
<1>9. OthersKnown' BY DEF OthersKnown, NoneFree, NoneHeld
<1> QED BY <1>1, <1>2, <1>3, <1>4, <1>5, <1>6, <1>7, <1>8, <1>9

\* What is saved are the program's own registers.
LEMMA CallSaveKeeps == ASSUME Inv, CallSave, UNCHANGED quiet PROVE Inv'
<1> USE DEF CallSave, Request, Goto, Throw
<1>1. TraceeTypeOK' BY DEF TraceeTypeOK
<1>2. ControlTypeOK' BY DEF ControlTypeOK
<1>3. LeaderTypeOK' BY DEF LeaderTypeOK, Places, Values
<1>4. FlagTypeOK' BY Zenon DEF FlagTypeOK
<1>5. Control' BY DEF Control, CallPcs
<1>6. Undisturbed' BY DEF Undisturbed
<1>7. LeaderKnown' BY DEF LeaderKnown, Clean, SyscallDone, SyscallNumber, PageKnown
<1>8. PageTold' BY DEF PageTold, PageKnown, HintRight, Clean, Control, CallPcs
<1>9. OthersKnown' BY DEF OthersKnown, NoneFree, NoneHeld, Control, CallPcs
<1> QED BY <1>1, <1>2, <1>3, <1>4, <1>5, <1>6, <1>7, <1>8, <1>9

\* The leader is sent into the stub.
LEMMA CallSetKeeps == ASSUME Inv, CallSet, UNCHANGED quiet PROVE Inv'
<1> USE DEF CallSet, Request, Goto, Throw
<1>1. TraceeTypeOK' BY DEF TraceeTypeOK
<1>2. ControlTypeOK' BY DEF ControlTypeOK
<1>3. LeaderTypeOK' BY DEF LeaderTypeOK, Places, Values
<1>4. FlagTypeOK' BY Zenon DEF FlagTypeOK
<1>5. Control' BY DEF Control, CallPcs
<1>6. Undisturbed' BY DEF Undisturbed
<1>7. LeaderKnown' BY DEF LeaderKnown, Clean, SyscallDone, SyscallNumber, PageKnown
<1>8. PageTold' BY DEF PageTold, PageKnown, HintRight, Clean, Control, CallPcs
<1>9. OthersKnown' BY DEF OthersKnown, NoneFree, NoneHeld, Control, CallPcs
<1> QED BY <1>1, <1>2, <1>3, <1>4, <1>5, <1>6, <1>7, <1>8, <1>9

\* The leader is resumed into the stub.
LEMMA CallContKeeps == ASSUME Inv, CallCont, UNCHANGED quiet PROVE Inv'
<1> USE DEF CallCont, ResumeRequest, Goto, Throw
<1>1. TraceeTypeOK'
  <2>1. Resume \/ UNCHANGED traceeVars
    OBVIOUS
  <2>2. CASE Resume BY <2>2 DEF TraceeTypeOK, Resume
  <2>3. CASE UNCHANGED traceeVars BY <2>3 DEF TraceeTypeOK
  <2> QED BY <2>1, <2>2, <2>3
<1>2. ControlTypeOK' BY DEF ControlTypeOK, Resume
<1>3. LeaderTypeOK' BY DEF LeaderTypeOK, Places, Values, Resume
<1>4. FlagTypeOK' BY Zenon DEF FlagTypeOK, Resume
<1>5. Control' BY DEF Control, CallPcs, Resume
<1>6. Undisturbed' BY DEF Undisturbed, Resume
<1>7. LeaderKnown'
    BY DEF LeaderKnown, Clean, SyscallDone, SyscallNumber, PageKnown, Control,
      CallPcs, Resume
<1>8. PageTold'
    BY DEF PageTold, PageKnown, HintRight, Clean, Control, CallPcs, Resume
<1>9. OthersKnown' BY DEF OthersKnown, NoneFree, NoneHeld, Control, CallPcs, Resume
<1> QED BY <1>1, <1>2, <1>3, <1>4, <1>5, <1>6, <1>7, <1>8, <1>9

\* The function returns to the INT3, in a traced leader.
LEMMA StubCallKeeps == ASSUME Inv, StubCall, UNCHANGED quiet PROVE Inv'
<1> USE DEF StubCall, InUserMode, EnterStop, Die, Live
<1>1. TraceeTypeOK' BY DEF TraceeTypeOK
<1>2. ControlTypeOK' BY DEF ControlTypeOK
<1>3. LeaderTypeOK' BY DEF LeaderTypeOK, Places, Values
<1>4. FlagTypeOK' BY Zenon DEF FlagTypeOK
<1>5. Control' BY DEF Control, CallPcs
<1>6. Undisturbed' BY DEF Undisturbed
<1>7. LeaderKnown' BY DEF LeaderKnown, Clean, SyscallDone, SyscallNumber, PageKnown
<1>8. PageTold'
    BY DEF PageTold, PageKnown, HintRight, Clean, LeaderKnown, SyscallDone,
      SyscallNumber, Control, CallPcs
<1>9. OthersKnown' BY DEF OthersKnown, NoneFree, NoneHeld
<1> QED BY <1>1, <1>2, <1>3, <1>4, <1>5, <1>6, <1>7, <1>8, <1>9

\* The stop that is taken is that of the INT3, unless DoWait throws.
LEMMA CallWaitKeeps == ASSUME Inv, CallWait, UNCHANGED quiet PROVE Inv'
<1> USE DEF CallWait, DoWait, Reportable, Report, Resume, Reap, Goto, Throw
<1>1. TraceeTypeOK' BY DEF TraceeTypeOK
<1>2. ControlTypeOK' BY DEF ControlTypeOK
<1>3. LeaderTypeOK' BY DEF LeaderTypeOK, Places, Values
<1>4. FlagTypeOK' BY Zenon DEF FlagTypeOK
<1>5. Control' BY DEF Control, CallPcs
<1>6. Undisturbed' BY DEF Undisturbed
<1>7. LeaderKnown'
    BY DEF LeaderKnown, Clean, SyscallDone, SyscallNumber, PageKnown, Control,
      CallPcs, Undisturbed
<1>8. PageTold' BY DEF PageTold, PageKnown, HintRight, Clean, Control, CallPcs
<1>9. OthersKnown' BY DEF OthersKnown, NoneFree, NoneHeld, Control, CallPcs
<1> QED BY <1>1, <1>2, <1>3, <1>4, <1>5, <1>6, <1>7, <1>8, <1>9

\* The hint is what the function left in %rax.
LEMMA CallResultKeeps == ASSUME Inv, CallResult, UNCHANGED quiet PROVE Inv'
<1> USE DEF CallResult, Request, Goto, Throw
<1>1. TraceeTypeOK' BY DEF TraceeTypeOK
<1>2. ControlTypeOK' BY DEF ControlTypeOK
<1>3. LeaderTypeOK' BY DEF LeaderTypeOK, Places, Values
<1>4. FlagTypeOK' BY Zenon DEF FlagTypeOK
<1>5. Control' BY DEF Control, CallPcs
<1>6. Undisturbed' BY DEF Undisturbed
<1>7. LeaderKnown'
    BY DEF LeaderKnown, Clean, SyscallDone, SyscallNumber, PageKnown, Control,
      CallPcs
<1>8. PageTold' BY DEF PageTold, PageKnown, HintRight, Clean, Control, CallPcs
<1>9. OthersKnown' BY DEF OthersKnown, NoneFree, NoneHeld, Control, CallPcs
<1> QED BY <1>1, <1>2, <1>3, <1>4, <1>5, <1>6, <1>7, <1>8, <1>9

\* The leader is clean when the session goes on.
LEMMA CallRestoreKeeps == ASSUME Inv, CallRestore, UNCHANGED quiet PROVE Inv'
<1> USE DEF CallRestore, Throw
<1>1. TraceeTypeOK' BY DEF TraceeTypeOK
<1>2. ControlTypeOK' BY DEF ControlTypeOK
<1>3. LeaderTypeOK' BY DEF LeaderTypeOK, Places, Values
<1>4. FlagTypeOK' BY Zenon DEF FlagTypeOK
<1>5. Control' BY DEF Control, CallPcs
<1>6. Undisturbed' BY DEF Undisturbed
<1>7. LeaderKnown'
    BY DEF LeaderKnown, Clean, SyscallDone, SyscallNumber, PageKnown, Control,
      CallPcs
<1>8. PageTold'
    BY DEF PageTold, LeaderKnown, Undisturbed, HintRight, Control, CallPcs, Clean,
      SyscallDone, SyscallNumber, PageKnown, TraceeTypeOK, ControlTypeOK,
      LeaderTypeOK
<1>9. OthersKnown' BY DEF OthersKnown, NoneFree, NoneHeld, Control, CallPcs
<1> QED BY <1>1, <1>2, <1>3, <1>4, <1>5, <1>6, <1>7, <1>8, <1>9

----------------------------------------------------------------------------
(* The session, the end, and what happens to the target.                   *)

\* The leader runs the program between two samples.
LEMMA LetRunKeeps == ASSUME Inv, LetRun, UNCHANGED quiet PROVE Inv'
<1> USE DEF LetRun, Resume
<1>1. TraceeTypeOK' BY DEF TraceeTypeOK
<1>2. ControlTypeOK' BY DEF ControlTypeOK
<1>3. LeaderTypeOK' BY DEF LeaderTypeOK, Places, Values
<1>4. FlagTypeOK' BY Zenon DEF FlagTypeOK
<1>5. Control' BY DEF Control, CallPcs
<1>6. Undisturbed' BY DEF Undisturbed
<1>7. LeaderKnown' BY DEF LeaderKnown, Clean, SyscallDone, SyscallNumber, PageKnown
<1>8. PageTold' BY DEF PageTold, PageKnown, HintRight, Clean
<1>9. OthersKnown' BY DEF OthersKnown, NoneFree, NoneHeld
<1> QED BY <1>1, <1>2, <1>3, <1>4, <1>5, <1>6, <1>7, <1>8, <1>9

\* The leader stops for the next sample.
LEMMA HoldAgainKeeps == ASSUME Inv, HoldAgain, UNCHANGED quiet PROVE Inv'
<1> USE DEF HoldAgain, Hold
<1>1. TraceeTypeOK' BY DEF TraceeTypeOK
<1>2. ControlTypeOK' BY DEF ControlTypeOK
<1>3. LeaderTypeOK' BY DEF LeaderTypeOK, Places, Values
<1>4. FlagTypeOK' BY Zenon DEF FlagTypeOK
<1>5. Control' BY DEF Control, CallPcs
<1>6. Undisturbed' BY DEF Undisturbed
<1>7. LeaderKnown' BY DEF LeaderKnown, Clean, SyscallDone, SyscallNumber, PageKnown
<1>8. PageTold' BY DEF PageTold, PageKnown, HintRight, Clean
<1>9. OthersKnown' BY DEF OthersKnown, NoneFree, NoneHeld
<1> QED BY <1>1, <1>2, <1>3, <1>4, <1>5, <1>6, <1>7, <1>8, <1>9

\* From here on the run is not quiet: the next stop may be the trap's.
LEMMA HoldWithTrapLeftKeeps == ASSUME Inv, HoldWithTrapLeft PROVE Inv'
<1> USE DEF HoldWithTrapLeft, Hold
<1>1. TraceeTypeOK' BY DEF TraceeTypeOK
<1>2. ControlTypeOK' BY DEF ControlTypeOK
<1>3. LeaderTypeOK' BY DEF LeaderTypeOK, Places, Values
<1>4. FlagTypeOK' BY Zenon DEF FlagTypeOK
<1>5. Control' BY DEF Control, CallPcs
<1>6. Undisturbed' BY DEF Undisturbed, Control, CallPcs
<1>7. LeaderKnown' BY DEF LeaderKnown, Clean, SyscallDone, SyscallNumber, PageKnown
<1>8. PageTold' BY DEF PageTold, PageKnown, HintRight, Clean
<1>9. OthersKnown' BY DEF OthersKnown, NoneFree, NoneHeld
<1> QED BY <1>1, <1>2, <1>3, <1>4, <1>5, <1>6, <1>7, <1>8, <1>9

\* The second injection starts clean, with a page if probe_ says so.
LEMMA StartCleanupKeeps == ASSUME Inv, StartCleanup, UNCHANGED quiet PROVE Inv'
<1> USE DEF StartCleanup
<1>1. TraceeTypeOK' BY DEF TraceeTypeOK
<1>2. ControlTypeOK' BY DEF ControlTypeOK
<1>3. LeaderTypeOK' BY DEF LeaderTypeOK, Places, Values
<1>4. FlagTypeOK' BY Zenon DEF FlagTypeOK
<1>5. Control' BY DEF Control, CallPcs
<1>6. Undisturbed' BY DEF Undisturbed
<1>7. LeaderKnown'
    BY DEF LeaderKnown, Undisturbed, PageTold, OthersKnown, HintRight, Control,
      CallPcs, Clean, SyscallDone, SyscallNumber, PageKnown, TraceeTypeOK,
      ControlTypeOK, LeaderTypeOK
<1>8. PageTold' BY DEF PageTold, PageKnown, HintRight, Clean
<1>9. OthersKnown' BY DEF OthersKnown, NoneFree, NoneHeld
<1> QED BY <1>1, <1>2, <1>3, <1>4, <1>5, <1>6, <1>7, <1>8, <1>9

\* The leader is let go.
LEMMA SafeDetachKeeps == ASSUME Inv, SafeDetach, UNCHANGED quiet PROVE Inv'
<1> USE DEF SafeDetach, Goto
<1>1. TraceeTypeOK'
  <2>1. Release \/ UNCHANGED traceeVars
    OBVIOUS
  <2>2. CASE Release BY <2>2 DEF TraceeTypeOK, Release
  <2>3. CASE UNCHANGED traceeVars BY <2>3 DEF TraceeTypeOK
  <2> QED BY <2>1, <2>2, <2>3
<1>2. ControlTypeOK' BY DEF ControlTypeOK, Release
<1>3. LeaderTypeOK' BY DEF LeaderTypeOK, Places, Values, Release
<1>4. FlagTypeOK' BY Zenon DEF FlagTypeOK, Release
<1>5. Control' BY DEF Control, CallPcs, Release
<1>6. Undisturbed' BY DEF Undisturbed, Release
<1>7. LeaderKnown'
    BY DEF LeaderKnown, Clean, SyscallDone, SyscallNumber, PageKnown, Release
<1>8. PageTold'
    BY DEF PageTold, PageKnown, HintRight, Clean, Control, CallPcs, Release
<1>9. OthersKnown' BY DEF OthersKnown, NoneFree, NoneHeld, Control, CallPcs, Release
<1> QED BY <1>1, <1>2, <1>3, <1>4, <1>5, <1>6, <1>7, <1>8, <1>9

\* Every thread is let go.
LEMMA ProcessExitKeeps == ASSUME Inv, ProcessExit, UNCHANGED quiet PROVE Inv'
<1> USE DEF ProcessExit, Release, Goto
<1>1. TraceeTypeOK' BY DEF TraceeTypeOK
<1>2. ControlTypeOK' BY DEF ControlTypeOK
<1>3. LeaderTypeOK' BY DEF LeaderTypeOK, Places, Values
<1>4. FlagTypeOK' BY Zenon DEF FlagTypeOK
<1>5. Control' BY DEF Control, CallPcs
<1>6. Undisturbed' BY DEF Undisturbed
<1>7. LeaderKnown' BY DEF LeaderKnown, Clean, SyscallDone, SyscallNumber, PageKnown
<1>8. PageTold'
    BY DEF PageTold, PageKnown, HintRight, Clean, LeaderKnown, SyscallDone,
      SyscallNumber, Control, CallPcs
<1>9. OthersKnown' BY DEF OthersKnown, NoneFree, NoneHeld
<1> QED BY <1>1, <1>2, <1>3, <1>4, <1>5, <1>6, <1>7, <1>8, <1>9

\* Only a leader that was disturbed gets here, or one that DoWait continued.
LEMMA GoAstrayKeeps == ASSUME Inv, GoAstray, UNCHANGED quiet PROVE Inv'
<1> USE DEF GoAstray, InUserMode
<1>1. TraceeTypeOK' BY DEF TraceeTypeOK
<1>2. ControlTypeOK' BY DEF ControlTypeOK
<1>3. LeaderTypeOK' BY DEF LeaderTypeOK, Places, Values
<1>4. FlagTypeOK' BY Zenon DEF FlagTypeOK
<1>5. Control' BY DEF Control, CallPcs
<1>6. Undisturbed' BY DEF Undisturbed
<1>7. LeaderKnown' BY DEF LeaderKnown, Clean, SyscallDone, SyscallNumber, PageKnown
<1>8. PageTold' BY DEF PageTold, PageKnown, HintRight, Clean
<1>9. OthersKnown' BY DEF OthersKnown, NoneFree, NoneHeld
<1> QED BY <1>1, <1>2, <1>3, <1>4, <1>5, <1>6, <1>7, <1>8, <1>9

\* The leader stops for a signal or a trap, which a quiet run does not have.
LEMMA LeaderStopsKeeps == ASSUME Inv, LeaderStops, UNCHANGED quiet PROVE Inv'
<1> USE DEF LeaderStops, TakeTrap, TakeSignal, EnterStop
<1>1. TraceeTypeOK' BY DEF TraceeTypeOK
<1>2. ControlTypeOK' BY DEF ControlTypeOK
<1>3. LeaderTypeOK' BY DEF LeaderTypeOK, Places, Values
<1>4. FlagTypeOK' BY Zenon DEF FlagTypeOK
<1>5. Control' BY DEF Control, CallPcs
<1>6. Undisturbed' BY DEF Undisturbed
<1>7. LeaderKnown'
    BY DEF LeaderKnown, Clean, SyscallDone, SyscallNumber, PageKnown, Control,
      CallPcs, Undisturbed
<1>8. PageTold' BY DEF PageTold, PageKnown, HintRight, Clean
<1>9. OthersKnown' BY DEF OthersKnown, NoneFree, NoneHeld
<1> QED BY <1>1, <1>2, <1>3, <1>4, <1>5, <1>6, <1>7, <1>8, <1>9

\* From here on the run is not quiet.
LEMMA LeaderSignalledKeeps == ASSUME Inv, LeaderSignalled PROVE Inv'
<1> USE DEF LeaderSignalled, RaiseSignal
<1>1. TraceeTypeOK' BY DEF TraceeTypeOK
<1>2. ControlTypeOK' BY DEF ControlTypeOK
<1>3. LeaderTypeOK' BY DEF LeaderTypeOK, Places, Values
<1>4. FlagTypeOK' BY Zenon DEF FlagTypeOK
<1>5. Control' BY DEF Control, CallPcs
<1>6. Undisturbed' BY DEF Undisturbed
<1>7. LeaderKnown' BY DEF LeaderKnown, Clean, SyscallDone, SyscallNumber, PageKnown
<1>8. PageTold' BY DEF PageTold, PageKnown, HintRight, Clean
<1>9. OthersKnown' BY DEF OthersKnown, NoneFree, NoneHeld
<1> QED BY <1>1, <1>2, <1>3, <1>4, <1>5, <1>6, <1>7, <1>8, <1>9

\* Nobody is left.
LEMMA ProcessKilledKeeps == ASSUME Inv, ProcessKilled, UNCHANGED quiet PROVE Inv'
<1> USE DEF ProcessKilled, Kill, Die, Live
<1>1. TraceeTypeOK' BY DEF TraceeTypeOK
<1>2. ControlTypeOK' BY DEF ControlTypeOK
<1>3. LeaderTypeOK' BY DEF LeaderTypeOK, Places, Values
<1>4. FlagTypeOK' BY Zenon DEF FlagTypeOK
<1>5. Control' BY DEF Control, CallPcs
<1>6. Undisturbed' BY DEF Undisturbed
<1>7. LeaderKnown' BY DEF LeaderKnown, Clean, SyscallDone, SyscallNumber, PageKnown
<1>8. PageTold' BY DEF PageTold, PageKnown, HintRight, Clean
<1>9. OthersKnown' BY DEF OthersKnown, NoneFree, NoneHeld
<1> QED BY <1>1, <1>2, <1>3, <1>4, <1>5, <1>6, <1>7, <1>8, <1>9

\* From here on the run is not quiet.
LEMMA InterruptedKeeps == ASSUME Inv, Interrupted PROVE Inv'
<1> USE DEF Interrupted, Goto
<1>1. TraceeTypeOK' BY DEF TraceeTypeOK
<1>2. ControlTypeOK' BY DEF ControlTypeOK
<1>3. LeaderTypeOK' BY DEF LeaderTypeOK, Places, Values
<1>4. FlagTypeOK' BY Zenon DEF FlagTypeOK
<1>5. Control' BY DEF Control, CallPcs
<1>6. Undisturbed' BY DEF Undisturbed
<1>7. LeaderKnown' BY DEF LeaderKnown, Clean, SyscallDone, SyscallNumber, PageKnown
<1>8. PageTold' BY DEF PageTold, PageKnown, HintRight, Clean, Control, CallPcs
<1>9. OthersKnown' BY DEF OthersKnown, NoneFree, NoneHeld, Control, CallPcs
<1> QED BY <1>1, <1>2, <1>3, <1>4, <1>5, <1>6, <1>7, <1>8, <1>9

----------------------------------------------------------------------------
(* The specification keeps the invariant.                                  *)

\* set_addrs_ starts on a clean leader, with no page.
LEMMA InitInv == Init => Inv
<1> USE DEF Init
<1>1. Init => TypeOK
  <2>1. Init => TraceeTypeOK BY DEF TraceeTypeOK
  <2>2. Init => ControlTypeOK BY DEF ControlTypeOK
  <2>3. Init => LeaderTypeOK BY DEF LeaderTypeOK, Places, Values
  <2>4. Init => FlagTypeOK BY DEF FlagTypeOK
  <2> QED BY <2>1, <2>2, <2>3, <2>4
<1>2. Init => Control /\ Undisturbed BY DEF Control, CallPcs, Undisturbed
<1>3. Init => LeaderKnown /\ PageTold
  BY DEF LeaderKnown, PageTold, CallPcs, Clean
<1>4. Init => OthersKnown BY DEF OthersKnown, CallPcs, NoneFree, NoneHeld
<1> QED BY <1>1, <1>2, <1>3, <1>4

\* Every request of pyflame keeps the invariant.
LEMMA PyflameKeeps == ASSUME Inv, PyflameStep, UNCHANGED quiet PROVE Inv'
<1> HIDE DEF Inv
<1> QED
  BY PauseThreadsKeeps, AttachThreadsKeeps, ResumeThreadsKeeps, DetachThreadsKeeps,
    SaveRegsKeeps, PatchTextKeeps, SetRegsKeeps, SingleStepKeeps, WaitStepKeeps,
    ReadResultKeeps, RestoreKeeps, UnpatchKeeps, WriteStubKeeps, CallSaveKeeps,
    CallSetKeeps, CallContKeeps, CallWaitKeeps, CallResultKeeps, CallRestoreKeeps,
    LetRunKeeps, HoldAgainKeeps, StartCleanupKeeps, SafeDetachKeeps,
    ProcessExitKeeps DEF PyflameStep

\* Every step of the target keeps the invariant.
LEMMA TargetKeeps == ASSUME Inv, TargetStep, UNCHANGED quiet PROVE Inv'
<1> HIDE DEF Inv
<1> QED
  BY MmapCallKeeps, MunmapCallKeeps, StubCallKeeps, GoAstrayKeeps, LeaderStopsKeeps,
    ProcessKilledKeeps, ThreadExitsKeeps DEF TargetStep

\* What disturbs a session keeps the invariant.
LEMMA DisturbanceKeeps == ASSUME Inv, Disturbance PROVE Inv'
<1> HIDE DEF Inv
<1> QED
  BY LeaderSignalledKeeps, HoldWithTrapLeftKeeps, InterruptedKeeps, ThreadSpawnsKeeps
     DEF Disturbance

\* A step that changes nothing keeps the invariant.
LEMMA StutterKeeps == ASSUME Inv, UNCHANGED vars PROVE Inv'
<1> USE DEF vars
<1>1. TypeOK' BY DEF TraceeTypeOK, ControlTypeOK, LeaderTypeOK, FlagTypeOK
<1>2. Control' /\ Undisturbed' BY DEF Control, Undisturbed
<1>3. LeaderKnown' /\ PageTold'
  BY DEF LeaderKnown, PageTold, Clean, SyscallDone, SyscallNumber, PageKnown, HintRight
<1>4. OthersKnown' BY DEF OthersKnown, NoneFree, NoneHeld
<1> QED BY <1>1, <1>2, <1>3, <1>4

\* Whatever signals, threads, kills and ^C come in between: what pyflame knows
\* of the leader, of the page and of the other threads before each request.
THEOREM SpecKeepsInv == Spec => []Inv
<1> HIDE DEF Inv
<1>1. Init => Inv BY InitInv
<1>2. Inv /\ [Next]_vars => Inv'
  BY PyflameKeeps, TargetKeeps, DisturbanceKeeps, StutterKeeps DEF Next, Terminated
<1> QED BY <1>1, <1>2, PTL DEF Spec

----------------------------------------------------------------------------
(* The properties.                                                         *)

\* The variables keep to their types; probe_ is an address or an errno that
\* mmap returned, never a leftover of a register.
THEOREM TypeCorrect == Spec => []TypeOK
<1>1. Inv => TypeOK OBVIOUS
<1> HIDE DEF Inv, TypeOK
<1> QED BY <1>1, SpecKeepsInv, PTL

\* When the session goes on after the call, the leader has its registers and
\* its text back.
THEOREM CallLeavesNoTrace == Spec => []SessionClean
<1>1. Inv => SessionClean BY DEF PageTold, Clean, SessionClean
<1> HIDE DEF Inv
<1> QED BY <1>1, SpecKeepsInv, PTL

\* The hint is what PyInterpreterState_Head returned, or says that it was not
\* called.
THEOREM HintIsHead == Spec => []HintRight
<1>1. Inv => HintRight BY DEF PageTold, HintRight
<1> HIDE DEF Inv
<1> QED BY <1>1, SpecKeepsInv, PTL

\* No thread stays held when the session goes on, or ends without an error.
THEOREM ThreadsLetGo == Spec => []NoneForgotten
<1>1. Inv => NoneForgotten BY DEF OthersKnown, NoneHeld, NoneForgotten
<1> HIDE DEF Inv
<1> QED BY <1>1, SpecKeepsInv, PTL

\* In a quiet run no other thread can execute the patched text.
THEOREM PatchIsAlone == Spec => []PatchedAlone
<1>1. Inv => PatchedAlone
  BY DEF PatchedAlone, LeaderKnown, OthersKnown, PageTold, NoneFree, Control, Clean,
         CallPcs, ControlTypeOK, TraceeTypeOK, LeaderTypeOK
<1> HIDE DEF Inv
<1> QED BY <1>1, SpecKeepsInv, PTL

\* In a quiet run the program is resumed in its own state only, or else to
\* execute what pyflame waits for.
THEOREM ResumedAsItWas == Spec => []ProgramResumed
<1>1. Inv => ProgramResumed
  BY DEF ProgramResumed, LeaderKnown, Clean, PageTold
<1> HIDE DEF Inv
<1> QED BY <1>1, SpecKeepsInv, PTL

\* In a quiet run a cleanup that met no error leaves no page.
THEOREM PageIsFreed == Spec => []PageFreed
<1>1. Inv => PageFreed BY DEF PageFreed, PageTold, Control
<1> HIDE DEF Inv
<1> QED BY <1>1, SpecKeepsInv, PTL
=============================================================================
