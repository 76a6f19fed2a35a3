---------------------------- MODULE ProberProofs ----------------------------
(***************************************************************************)
(* Proofs about module Prober, for every target, every command line and    *)
(* every value of the bounds.                                              *)
(***************************************************************************)
EXTENDS Prober, TLAPS

USE TraceeAssumption

----------------------------------------------------------------------------
(* Steps of the environment leave pyflame's variables alone.               *)

\* What ProberAssumption says of the options at hand.
LEMMA OptionFacts ==
  ASSUME opts \in Options
  PROVE  /\ opts.mode \in {"attach", "dump", "trace"}
         /\ opts.seconds \in Int /\ opts.seconds <= MaxClock
         /\ MaxRetries \in Nat \ {0}
  BY ProberAssumption DEF ProberAssumption, OptionSet, MaxRetries

\* Every operation on the target keeps its type.
LEMMA TraceeSteps ==
  ASSUME TraceeTypeOK
  PROVE  /\ Compute \/ Exit \/ ChildTraceme \/ ChildRaise \/ ChildExec
              \/ ChildExecFails \/ KernelStep \/ OthersStep => TraceeTypeOK'
         /\ Resume \/ Release \/ SeizeTask \/ InterruptTask \/ Report \/ Reap
              \/ UNCHANGED traceeVars => TraceeTypeOK'
<1> USE DEF TraceeTypeOK
<1>1. ASSUME Compute PROVE TraceeTypeOK'
  BY <1>1 DEF Compute
<1>2. ASSUME Exit \/ ChildExecFails PROVE TraceeTypeOK'
  BY <1>2 DEF Exit, ChildExecFails, Die
<1>3. ASSUME ChildTraceme PROVE TraceeTypeOK'
  BY <1>3 DEF ChildTraceme
<1>4. ASSUME ChildRaise \/ ChildExec PROVE TraceeTypeOK'
  BY <1>4 DEF ChildRaise, ChildExec, EnterStop
<1>5. ASSUME KernelStep PROVE TraceeTypeOK'
  <2>1. CASE TakeTrap
    BY <2>1 DEF TakeTrap, EnterStop
  <2>2. ASSUME NEW s \in Signals, TakeSignal(s) PROVE TraceeTypeOK'
    BY <2>2 DEF TakeSignal, EnterStop
  <2> QED BY <1>5, <2>1, <2>2 DEF KernelStep
<1>6. ASSUME OthersStep PROVE TraceeTypeOK'
  <2>1. CASE Kill
    BY <2>1 DEF Kill, Die
  <2>2. ASSUME NEW s \in Signals, RaiseSignal(s) PROVE TraceeTypeOK'
    BY <2>2 DEF RaiseSignal
  <2> QED BY <1>6, <2>1, <2>2 DEF OthersStep
<1>7. ASSUME Resume \/ Release \/ SeizeTask \/ InterruptTask \/ Report \/ Reap
             \/ UNCHANGED traceeVars
      PROVE TraceeTypeOK'
  <2>1. CASE Resume
    BY <2>1 DEF Resume
  <2>2. CASE Report
    BY <2>2 DEF Report
  <2>3. CASE Reap
    BY <2>3 DEF Reap
  <2>4. CASE Release
    BY <2>4 DEF Release
  <2>5. CASE SeizeTask
    BY <2>5 DEF SeizeTask
  <2>6. CASE InterruptTask
    BY <2>6 DEF InterruptTask
  <2>7. CASE UNCHANGED traceeVars
    BY <2>7 DEF traceeVars
  <2> QED BY <1>7, <2>1, <2>2, <2>3, <2>4, <2>5, <2>6, <2>7
<1> QED BY <1>1, <1>2, <1>3, <1>4, <1>5, <1>6, <1>7

\* Where an operator of control leads, and what it leaves alone.
LEMMA ControlEffects ==
  /\ \A l : Goto(l) => pc' = l /\ rc' = rc /\ uncaught' = uncaught
                         /\ failed_count' = failed_count
  /\ \A c : Return(c) => pc' = "cleanup" /\ rc' = c /\ uncaught' = uncaught
                           /\ failed_count' = failed_count
  /\ \A c : ReturnEarly(c) => pc' = "exit" /\ rc' = c /\ uncaught' = uncaught
                                /\ failed_count' = failed_count
  /\ \A e : Throw(e) /\ caller # "loop" =>
              pc' = "exit" /\ rc' = 134 /\ uncaught' = e /\ failed_count' = failed_count
  /\ Throw("ptrace") /\ caller = "loop" =>
       pc' = "sample" /\ rc' = rc /\ uncaught' = uncaught /\ failed_count' = Bump(failed_count)
  /\ Throw("terminate") /\ caller = "loop" =>
       pc' = "finish" /\ rc' = rc /\ uncaught' = uncaught /\ failed_count' = failed_count
  /\ Throw("generic") /\ caller = "loop" =>
       pc' = "finish" /\ rc' = 1 /\ uncaught' = uncaught /\ failed_count' = failed_count
  BY DEF Goto, outcomeVars, Return, ReturnEarly, Throw, Handle, Abort

\* What an operation on the target does, variable by variable.
LEMMA TraceeEffects ==
  /\ Resume => task' = "running" /\ stop' = "none" /\ notice' = "none" /\ trap' = trap
                 /\ sigs' = sigs /\ tracing' = tracing /\ prog' = prog /\ work' = work
  /\ Report => task' = task /\ stop' = stop /\ notice' = "read" /\ trap' = trap
                 /\ sigs' = sigs /\ tracing' = tracing /\ prog' = prog /\ work' = work
  /\ Reap => task' = "reaped" /\ stop' = stop /\ notice' = notice /\ trap' = trap
               /\ sigs' = sigs /\ tracing' = "none" /\ prog' = prog /\ work' = work
  /\ Release => /\ Alive => task' = "running"
                /\ ~Alive => task' = task
                /\ stop' = "none" /\ notice' = "none" /\ trap' = "clear"
                /\ sigs' = sigs /\ tracing' = "none" /\ prog' = prog /\ work' = work
  /\ SeizeTask => task' = task /\ stop' = stop /\ notice' = notice /\ trap' = trap
                    /\ sigs' = sigs /\ tracing' = "seize" /\ prog' = prog /\ work' = work
  /\ InterruptTask => /\ task' = task /\ stop' = stop /\ notice' = notice
                      /\ Alive => trap' = "pending"
                      /\ ~Alive => trap' = trap
                      /\ sigs' = sigs /\ tracing' = tracing /\ prog' = prog /\ work' = work
  /\ UNCHANGED traceeVars =>
       task' = task /\ stop' = stop /\ notice' = notice /\ trap' = trap
         /\ sigs' = sigs /\ tracing' = tracing /\ prog' = prog /\ work' = work
<1>1. Resume => task' = "running" /\ stop' = "none" /\ notice' = "none" /\ trap' = trap
                 /\ sigs' = sigs /\ tracing' = tracing /\ prog' = prog /\ work' = work
  BY DEF Resume
<1>2. Report => task' = task /\ stop' = stop /\ notice' = "read" /\ trap' = trap
                 /\ sigs' = sigs /\ tracing' = tracing /\ prog' = prog /\ work' = work
  BY DEF Report
<1>3. Reap => task' = "reaped" /\ stop' = stop /\ notice' = notice /\ trap' = trap
               /\ sigs' = sigs /\ tracing' = "none" /\ prog' = prog /\ work' = work
  BY DEF Reap
<1>4. Release => /\ Alive => task' = "running"
                 /\ ~Alive => task' = task
                 /\ stop' = "none" /\ notice' = "none" /\ trap' = "clear"
                 /\ sigs' = sigs /\ tracing' = "none" /\ prog' = prog /\ work' = work
  BY DEF Release
<1>5. SeizeTask => task' = task /\ stop' = stop /\ notice' = notice /\ trap' = trap
                    /\ sigs' = sigs /\ tracing' = "seize" /\ prog' = prog /\ work' = work
  BY DEF SeizeTask
<1>6. InterruptTask => /\ task' = task /\ stop' = stop /\ notice' = notice
                       /\ Alive => trap' = "pending"
                       /\ ~Alive => trap' = trap
                       /\ sigs' = sigs /\ tracing' = tracing /\ prog' = prog /\ work' = work
  BY DEF InterruptTask
<1>7. UNCHANGED traceeVars =>
        task' = task /\ stop' = stop /\ notice' = notice /\ trap' = trap
          /\ sigs' = sigs /\ tracing' = tracing /\ prog' = prog /\ work' = work
  BY DEF traceeVars
<1> QED BY <1>1, <1>2, <1>3, <1>4, <1>5, <1>6, <1>7

\* A counter goes up by one, or stands still at its bound.
LEMMA BumpType == \A n \in 0..MaxCount : Bump(n) \in 0..MaxCount /\ n <= Bump(n) /\ Bump(n) <= n + 1
  BY ProberAssumption DEF ProberAssumption, Bump

\* A fork makes a running child, or fails.
LEMMA ForkEffects ==
  ASSUME Fork
  PROVE  \/ /\ task' = "running" /\ prog' = "child" /\ pc' = "wait_stop"
            /\ stop' = stop /\ notice' = notice /\ trap' = trap /\ sigs' = sigs
            /\ tracing' = tracing /\ work' = work /\ raised' = raised
            /\ binary' = binary /\ rc' = rc /\ uncaught' = uncaught
            /\ failed_count' = failed_count
         \/ /\ UNCHANGED traceeVars /\ pc' = "exit" /\ rc' = 1
            /\ uncaught' = uncaught /\ failed_count' = failed_count
<1>1. CASE /\ task' = "running" /\ prog' = "child"
           /\ UNCHANGED <<stop, notice, trap, sigs, tracing, work, raised, binary>>
           /\ Goto("wait_stop")
  BY <1>1, ControlEffects
<1>2. CASE UNCHANGED traceeVars /\ ReturnEarly(1)
  BY <1>2, ControlEffects
<1> QED BY <1>1, <1>2 DEF Fork

\* A fork keeps the target's type.
LEMMA ForkType ==
  ASSUME TraceeTypeOK, Fork
  PROVE  TraceeTypeOK'
<1>1. CASE UNCHANGED traceeVars
  BY <1>1, TraceeSteps
<1>2. CASE ~UNCHANGED traceeVars
  BY <1>2, ForkEffects DEF TraceeTypeOK
<1> QED BY <1>1, <1>2

\* TypeOK bounds the retries of FindSymbols; that bound is inductive only
\* with what the loop knows before it counts.
TypeInv ==
  /\ TypeOK
  /\ pc \notin {"cleanup", "exit", "done"} => tries < MaxRetries

\* The types, and the bound on the retries, hold throughout.
LEMMA TypeInvariant == Spec => []TypeInv
<1>1. Init => TypeInv
  BY OptionFacts, ProberAssumption
     DEF Init, TypeInv, TypeOK, TraceeTypeOK, Labels, ProberAssumption
<1>2. TypeInv /\ [Next]_vars => TypeInv'
  <2> SUFFICES ASSUME TypeInv, [Next]_vars PROVE TypeInv'
    OBVIOUS
  <2> USE OptionFacts, TraceeSteps, ControlEffects, BumpType, TraceeAssumption
          DEF TypeInv, TypeOK, Labels, profileVars, imageVars, MaxRetries
  <2>1. CASE Fork
    BY <2>1, ForkEffects, ForkType DEF Fork
  <2>2. CASE WaitStop
    BY <2>2 DEF WaitStop
  <2>3. CASE SetOptions
    BY <2>3 DEF SetOptions
  <2>4. CASE ContExec
    BY <2>4 DEF ContExec
  <2>5. CASE WaitExec
    BY <2>5 DEF WaitExec
  <2>6. CASE Detach
    BY <2>6 DEF Detach
  <2>7. CASE Seize
    BY <2>7 DEF Seize
  <2>8. CASE Interrupt
    BY <2>8 DEF Interrupt
  <2>9. CASE DoWait
    BY <2>9 DEF DoWait, AfterStop, AfterDeath, Resumption
  <2>10. CASE ContChld
    BY <2>10 DEF ContChld
  <2>11. CASE FindSymbols
    <3>1. addrs' \in {"none", "sound", "shaky", "wrong"} /\ execs' = execs
      BY <2>11, ProberAssumption DEF FindSymbols, ProberAssumption
    <3> QED BY <2>11, <3>1 DEF FindSymbols, OutOfTries
  <2>12. CASE Run
    BY <2>12 DEF Run
  <2>13. CASE DumpStacks
    BY <2>13 DEF DumpStacks
  <2>14. CASE Sample
    BY <2>14 DEF Sample, AfterSample, CountIdle
  <2>15. CASE Cont
    BY <2>15 DEF Cont
  <2>16. CASE Sleep
    BY <2>16, ProberAssumption DEF Sleep, Later, ProberAssumption
  <2>17. CASE Finish
    BY <2>17 DEF Finish
  <2>18. CASE Cleanup
    BY <2>18 DEF Cleanup
  <2>19. CASE ProcessExit
    BY <2>19 DEF ProcessExit
  <2>20. CASE EnvironmentStep
    <3>1. CASE ExecAgain
      BY <3>1, ProberAssumption
         DEF ExecAgain, ProberAssumption, TraceeTypeOK, proberVars, outcomeVars
    <3>2. CASE ~ExecAgain
      BY <2>20, <3>2 DEF EnvironmentStep, UserStep, proberVars, outcomeVars
    <3> QED BY <3>1, <3>2
  <2>21. CASE UNCHANGED vars
    BY <2>21 DEF vars, outcomeVars
  <2> QED
    BY <2>1, <2>2, <2>3, <2>4, <2>5, <2>6, <2>7, <2>8, <2>9, <2>10, <2>11, <2>12, <2>13, <2>14, <2>15, <2>16, <2>17, <2>18, <2>19, <2>20, <2>21 DEF Next, PyflameStep, Terminated
<1> QED BY <1>1, <1>2, PTL DEF Spec

\* Every variable keeps its type, and FindSymbols never tries more often than
\* MaxRetries().
THEOREM TypeCorrect == Spec => []TypeOK
<1>1. TypeInv => TypeOK
  BY DEF TypeInv
<1> QED BY <1>1, TypeInvariant, PTL

----------------------------------------------------------------------------
(* The requests of pyflame and the stops of the target.                    *)

\* RequestLegal and WaitAnswered are not inductive: what they say at one
\* label rests on who traces the target, and on the PTRACE_INTERRUPT that is
\* pending, at the labels before it.
HoldInv ==
  /\ Alive /\ pc \in NeedStopped => Stopped /\ notice = "read"
  /\ pc \in {"interrupt", "wait", "cont_chld", "sleep"} => tracing = "seize"
  /\ Alive /\ pc \in {"detect", "run", "dump", "sample", "cont", "finish", "cleanup"}
       => tracing = "seize"
  /\ WaitAnswered
  /\ Stopped /\ pc \in {"seize", "sleep", "interrupt"} => notice = "pending"
  /\ Alive /\ pc = "wait" => trap = "pending" \/ (Reportable /\ stop = "trap")
  /\ Alive /\ pc = "cont_chld" => trap = "pending"
  /\ Stopped => tracing # "none"
  /\ Alive /\ trap = "pending" => tracing = "seize"
  /\ prog = "child" => tracing = "none" /\ (pc = "wait_stop" \/ ~Alive)
  /\ pc = "fork" => tracing = "none" /\ task = "absent" /\ trap = "clear"
  /\ caller = "loop" => pc \notin {"fork", "wait_stop", "set_options", "cont_exec",
                                  "wait_exec", "detach", "seize", "detect", "run", "dump"}
  /\ pc \in {"sample", "finish"} => caller = "loop"
  /\ pc = "done" => tracing = "none"

\* Every step keeps what pyflame knows of the target's hold.
LEMMA HoldStep == TypeInv /\ HoldInv /\ [Next]_vars => HoldInv'
<1> SUFFICES ASSUME TypeInv, HoldInv, [Next]_vars PROVE HoldInv'
  OBVIOUS
<1> USE ControlEffects, TraceeEffects
    DEF HoldInv, WaitAnswered, Alive, Stopped, Reportable, NeedStopped
<1> task \in {"absent", "running", "stopped", "exited", "killed", "reaped"}
  BY DEF TypeInv, TypeOK, TraceeTypeOK
<1>1. CASE Fork
  BY <1>1, ForkEffects DEF Fork
<1>2. CASE WaitStop
  BY <1>2 DEF WaitStop, Zombie
<1>3. CASE SetOptions
  BY <1>3 DEF SetOptions
<1>4. CASE ContExec
  BY <1>4 DEF ContExec
<1>5. CASE WaitExec
  BY <1>5 DEF WaitExec
<1>6. CASE Detach
  BY <1>6 DEF Detach
<1>7. CASE Seize
  BY <1>7 DEF Seize, CanSeize
<1>8. CASE Interrupt
  BY <1>8 DEF Interrupt, CanInterrupt
<1>9. CASE DoWait
  BY <1>9 DEF DoWait, AfterStop, AfterDeath, Resumption, Zombie
<1>10. CASE ContChld
  BY <1>10 DEF ContChld
<1>11. CASE FindSymbols
  BY <1>11 DEF FindSymbols
<1>12. CASE Run
  BY <1>12 DEF Run
<1>13. CASE DumpStacks
  BY <1>13 DEF DumpStacks, CanRead, CanFail
<1>14. CASE Sample
  BY <1>14 DEF Sample, AfterSample, CanRead, CanFail
<1>15. CASE Cont
  BY <1>15 DEF Cont
<1>16. CASE Sleep
  BY <1>16 DEF Sleep
<1>17. CASE Finish
  BY <1>17 DEF Finish
<1>18. CASE Cleanup
  BY <1>18 DEF Cleanup
<1>19. CASE ProcessExit
  BY <1>19 DEF ProcessExit
<1>20. CASE EnvironmentStep
  <2> pc' = pc /\ caller' = caller
    BY <1>20 DEF EnvironmentStep, ExecAgain, proberVars
  <2>1. CASE Compute
    BY <2>1 DEF Compute, InUserMode
  <2>2. CASE Exit
    BY <2>2 DEF Exit, InUserMode, Die
  <2>3. CASE ChildTraceme
    BY <2>3 DEF ChildTraceme, InUserMode
  <2>4. CASE ChildRaise
    BY <2>4 DEF ChildRaise, InUserMode, EnterStop
  <2>5. CASE ChildExec
    BY <2>5 DEF ChildExec, InUserMode, EnterStop
  <2>6. CASE ChildExecFails
    BY <2>6 DEF ChildExecFails, InUserMode, Die
  <2>7. CASE TakeTrap
    BY <2>7 DEF TakeTrap, EnterStop
  <2>8. CASE Kill
    BY <2>8 DEF Kill, Die
  <2>9. ASSUME NEW s \in Signals, TakeSignal(s) PROVE HoldInv'
    <3>1. CASE tracing = "none"
      BY <2>9, <3>1 DEF TakeSignal
    <3>2. CASE tracing # "none"
      BY <2>9, <3>2 DEF TakeSignal, EnterStop
    <3> QED BY <3>1, <3>2
  <2>10. ASSUME NEW s \in Signals, RaiseSignal(s) PROVE HoldInv'
    BY <2>10 DEF RaiseSignal
  <2>11. CASE ExecAgain
    BY <2>11 DEF ExecAgain, InUserMode
  <2> QED
    BY <1>20, <2>1, <2>2, <2>3, <2>4, <2>5, <2>6, <2>7, <2>8, <2>9, <2>10, <2>11
       DEF EnvironmentStep, UserStep, KernelStep, OthersStep
<1>21. CASE UNCHANGED vars
  BY <1>21 DEF vars
<1> QED
  BY <1>1, <1>2, <1>3, <1>4, <1>5, <1>6, <1>7, <1>8, <1>9, <1>10, <1>11, <1>12, <1>13, <1>14, <1>15, <1>16, <1>17, <1>18, <1>19, <1>20, <1>21 DEF Next, PyflameStep, Terminated

\* What pyflame knows of the target's hold is true throughout.
LEMMA HoldInvariant == Spec => []HoldInv
<1>1. Init => HoldInv
  BY DEF Init, HoldInv, WaitAnswered, Alive, Stopped, Reportable, NeedStopped
<1> QED BY <1>1, HoldStep, TypeInvariant, PTL DEF Spec

\* Whatever the order of signals, stops, interrupts and kills, pyflame asks
\* the kernel nothing of a living target that it refuses (ptrace.cc).
THEOREM RequestsAreLegal == Spec => []RequestLegal
<1>1. HoldInv => RequestLegal
  BY DEF HoldInv, RequestLegal, CanInterrupt
<1> QED BY <1>1, HoldInvariant, PTL

\* DoWait is called only when a report of the target is due, so that the
\* blocking waitpid of a session is answered.
THEOREM WaitsAreAnswered == Spec => []WaitAnswered
<1>1. HoldInv => WaitAnswered
  BY DEF HoldInv
<1> QED BY <1>1, HoldInvariant, PTL

\* What GetThreads and DumpStacks read is one instant of the stopped thread.
THEOREM ReadsAreStill == Spec => HeldWhileRead
<1> DEFINE Still == pc \in NeedStopped /\ pc' \in NeedStopped 
                     => work' = work /\ prog' = prog /\ execs' = execs
<1>1. HoldInv /\ [Next]_vars => Still
  <2> SUFFICES ASSUME HoldInv, [Next]_vars, pc \in NeedStopped
               PROVE  work' = work /\ prog' = prog /\ execs' = execs
    OBVIOUS
  <2>1. Alive => Stopped
    BY DEF HoldInv
  <2>2. CASE PyflameStep
    BY <2>2, TraceeEffects
       DEF PyflameStep, imageVars, NeedStopped, Fork, WaitStop, SetOptions, ContExec, WaitExec,
           Detach, Seize, Interrupt, DoWait, ContChld, FindSymbols, Run, DumpStacks,
           Sample, Cont, Sleep, Finish, Cleanup, ProcessExit
  <2>3. CASE EnvironmentStep
    <3>0. CASE ExecAgain
      BY <2>1, <3>0 DEF ExecAgain, InUserMode, Alive, Stopped
    <3> SUFFICES ASSUME ~ExecAgain PROVE work' = work /\ prog' = prog
      BY <2>3, <3>0 DEF EnvironmentStep, imageVars
    <3>1. CASE UserStep
      BY <2>1, <3>1 DEF UserStep, Compute, Exit, ChildTraceme, ChildRaise, ChildExec,
                        ChildExecFails, InUserMode, Alive, Stopped
    <3>2. CASE TakeTrap
      BY <3>2 DEF TakeTrap
    <3>3. ASSUME NEW s \in Signals, TakeSignal(s) PROVE work' = work /\ prog' = prog
      BY <3>3 DEF TakeSignal
    <3>4. CASE Kill
      BY <3>4 DEF Kill
    <3>5. ASSUME NEW s \in Signals, RaiseSignal(s) PROVE work' = work /\ prog' = prog
      BY <3>5 DEF RaiseSignal
    <3> QED BY <2>3, <3>1, <3>2, <3>3, <3>4, <3>5
               DEF EnvironmentStep, KernelStep, OthersStep
  <2>4. CASE UNCHANGED vars
    BY <2>4, TraceeEffects DEF vars, traceeVars, imageVars
  <2> QED BY <2>2, <2>3, <2>4 DEF Next, Terminated
<1>2. HoldInv /\ [Next]_vars => [Still]_vars
  BY <1>1
<1> QED BY <1>2, HoldInvariant, PTL DEF Spec, HeldWhileRead

----------------------------------------------------------------------------
(* Death is final, and only a fork gives life.                             *)

\* The environment lets pyflame's variables be, and revives nobody.
LEMMA EnvironmentEffects ==
  ASSUME EnvironmentStep
  PROVE  /\ pc' = pc /\ caller' = caller /\ opts' = opts /\ tries' = tries
         /\ clock' = clock /\ rc' = rc /\ uncaught' = uncaught
         /\ failed_count' = failed_count /\ stacks' = stacks
         /\ idle_count' = idle_count /\ printed' = printed
         /\ Alive' => Alive
         /\ Dead => Dead'
         /\ task = "reaped" => task' = "reaped"
         /\ addrs' = addrs \/ (addrs # "none" /\ addrs' \in {"shaky", "wrong"})
<1>1. Alive' => Alive
  <2>1. CASE UserStep
    BY <2>1 DEF UserStep, Compute, Exit, ChildTraceme, ChildRaise, ChildExec,
                ChildExecFails, InUserMode, Alive
  <2>2. CASE TakeTrap
    BY <2>2 DEF TakeTrap, Alive
  <2>3. ASSUME NEW s \in Signals, TakeSignal(s) PROVE Alive' => Alive
    BY <2>3 DEF TakeSignal, Alive
  <2>4. CASE Kill
    BY <2>4 DEF Kill, Alive
  <2>5. ASSUME NEW s \in Signals, RaiseSignal(s) PROVE Alive' => Alive
    BY <2>5 DEF RaiseSignal, Alive
  <2>6. CASE ExecAgain
    BY <2>6 DEF ExecAgain, Alive
  <2> QED BY <2>1, <2>2, <2>3, <2>4, <2>5, <2>6 DEF EnvironmentStep, KernelStep, OthersStep
<1>2. ~Dead
  <2>1. CASE UserStep
    BY <2>1 DEF UserStep, Compute, Exit, ChildTraceme, ChildRaise, ChildExec,
                ChildExecFails, InUserMode, Dead, Zombie
  <2>2. CASE TakeTrap
    BY <2>2 DEF TakeTrap, Dead, Zombie
  <2>3. ASSUME NEW s \in Signals, TakeSignal(s) PROVE ~Dead
    BY <2>3 DEF TakeSignal, Dead, Zombie
  <2>4. CASE Kill
    BY <2>4 DEF Kill, Alive, Dead, Zombie
  <2>5. ASSUME NEW s \in Signals, RaiseSignal(s) PROVE ~Dead
    BY <2>5 DEF RaiseSignal, Alive, Dead, Zombie
  <2>6. CASE ExecAgain
    BY <2>6 DEF ExecAgain, InUserMode, Dead, Zombie
  <2> QED BY <2>1, <2>2, <2>3, <2>4, <2>5, <2>6 DEF EnvironmentStep, KernelStep, OthersStep
<1> QED
  BY <1>1, <1>2
     DEF EnvironmentStep, ExecAgain, imageVars, proberVars, outcomeVars, profileVars, Dead

----------------------------------------------------------------------------
(* The number of samples.                                                  *)

Taken == stacks + idle_count

\* Before a sample no more have been taken than intervals have passed, and
\* after one that was not the last the deadline is still ahead.  A dead
\* target gives no samples, so nothing need be known of the clock then.
SampleInv ==
  opts.seconds >= 0 =>
    /\ Taken <= 1 \/ Taken <= opts.seconds
    /\ caller # "loop" => Taken = 0
    /\ caller = "loop" /\ Alive /\ pc \in {"sample", "interrupt", "wait", "cont_chld"}
         => Taken = 0 \/ (Taken <= clock /\ Taken < opts.seconds)
    /\ caller = "loop" /\ Alive /\ pc \in {"cont", "sleep"}
         => Taken <= clock + 1 /\ clock + 1 < opts.seconds

\* Every step keeps the samples to the clock.
LEMMA SampleStep == TypeInv /\ HoldInv /\ SampleInv /\ [Next]_vars => SampleInv'
<1> SUFFICES ASSUME TypeInv, HoldInv, SampleInv, [Next]_vars PROVE SampleInv'
  OBVIOUS
<1>0. /\ clock \in 0..MaxClock /\ MaxClock \in Nat
      /\ stacks \in 0..MaxCount /\ idle_count \in 0..MaxCount
      /\ opts.seconds \in Int /\ opts.seconds <= MaxClock
  BY OptionFacts, ProberAssumption DEF TypeInv, TypeOK, ProberAssumption
<1>00. /\ caller = "loop" => pc \notin {"fork", "wait_stop", "set_options", "cont_exec",
                            "wait_exec", "detach", "seize", "detect", "run", "dump"}
       /\ pc \in {"sample", "finish"} => caller = "loop"
       /\ Alive /\ pc = "cont" => Stopped
  BY DEF HoldInv, NeedStopped
<1> USE <1>0, <1>00, ControlEffects, TraceeEffects
    DEF SampleInv, Taken, Alive, Stopped, profileVars
<1>1. CASE Fork
  BY <1>1, ForkEffects DEF Fork
<1>2. CASE WaitStop
  BY <1>2 DEF WaitStop
<1>3. CASE SetOptions
  BY <1>3 DEF SetOptions
<1>4. CASE ContExec
  BY <1>4 DEF ContExec
<1>5. CASE WaitExec
  BY <1>5 DEF WaitExec
<1>6. CASE Detach
  BY <1>6 DEF Detach
<1>7. CASE Seize
  BY <1>7 DEF Seize
<1>8. CASE Interrupt
  BY <1>8 DEF Interrupt
<1>9. CASE DoWait
  BY <1>9 DEF DoWait, AfterStop, AfterDeath, Resumption
<1>10. CASE ContChld
  BY <1>10 DEF ContChld
<1>11. CASE FindSymbols
  BY <1>11 DEF FindSymbols
<1>12. CASE Run
  <2>1. opts' = opts /\ stacks' = stacks /\ idle_count' = idle_count /\ clock' = clock
    BY <1>12 DEF Run
  <2>2. opts.seconds >= 0 => Taken = 0
    BY <1>12 DEF Run
  <2>3. pc' \notin {"cont", "sleep"}
    BY <1>12 DEF Run
  <2> QED BY <2>1, <2>2, <2>3
<1>13. CASE DumpStacks
  <2>1. opts' = opts /\ stacks' = stacks /\ idle_count' = idle_count /\ clock' = clock
    BY <1>13 DEF DumpStacks
  <2>2. caller' = caller /\ caller # "loop"
    BY <1>13 DEF DumpStacks
  <2> QED BY <2>1, <2>2
<1>14. CASE Sample
  <2>1. opts' = opts /\ clock' = clock /\ caller' = caller /\ task' = task
    BY <1>14 DEF Sample
  <2>2. CASE CanRead /\ stacks' = Bump(stacks) /\ idle_count' = idle_count /\ AfterSample
    BY <1>14, <2>1, <2>2, BumpType DEF Sample, AfterSample, DeadlineReached, CanRead
  <2>3. CASE CanRead /\ idle_count' = CountIdle /\ stacks' = stacks /\ AfterSample
    BY <1>14, <2>1, <2>3, BumpType
       DEF Sample, AfterSample, CountIdle, DeadlineReached, CanRead
  <2>4. CASE CanRead /\ Throw("generic") /\ UNCHANGED profileVars
    BY <1>14, <2>1, <2>4 DEF Sample
  <2>5. CASE CanFail /\ Throw("ptrace") /\ UNCHANGED profileVars
    BY <1>14, <2>1, <2>5 DEF Sample
  <2> QED BY <1>14, <2>2, <2>3, <2>4, <2>5 DEF Sample
<1>15. CASE Cont
  BY <1>15 DEF Cont
<1>16. CASE Sleep
  BY <1>16, ProberAssumption DEF Sleep, Later, ProberAssumption
<1>17. CASE Finish
  BY <1>17 DEF Finish
<1>18. CASE Cleanup
  BY <1>18 DEF Cleanup
<1>19. CASE ProcessExit
  BY <1>19 DEF ProcessExit
<1>20. CASE EnvironmentStep
  BY <1>20, EnvironmentEffects
<1>21. CASE UNCHANGED vars
  BY <1>21 DEF vars
<1> QED
  BY <1>1, <1>2, <1>3, <1>4, <1>5, <1>6, <1>7, <1>8, <1>9, <1>10, <1>11, <1>12, <1>13, <1>14, <1>15, <1>16, <1>17, <1>18, <1>19, <1>20, <1>21 DEF Next, PyflameStep, Terminated

\* A session with -s takes no more samples than the duration has intervals
\* (one with -s 0), whatever fails and however long the sleeps are.
THEOREM SamplesAreBounded == Spec => []SampleBound
<1>1. Init => SampleInv
  BY DEF Init, SampleInv, Taken
<1>2. SampleInv => SampleBound
  BY DEF SampleInv, Taken, SampleBound
<1> QED BY <1>1, <1>2, SampleStep, TypeInvariant, HoldInvariant, PTL DEF Spec

----------------------------------------------------------------------------
(* What a session has to show at its end.                                  *)

Counted == stacks + idle_count + failed_count

ReportInv ==
  /\ caller # "loop" => Counted = 0
  /\ pc \in {"cleanup", "exit", "done"} /\ Counted > 0 => printed = "profile"
  /\ pc = "dump" => opts.mode = "dump"
  /\ pc \in {"finish", "cleanup", "exit", "done"} /\ rc = 0 /\ opts.mode # "dump" =>
       \/ opts.seconds >= 0 /\ clock + 1 >= opts.seconds
       \/ task = "reaped"
  /\ rc = 134 => pc \in {"exit", "done"}
  /\ printed # "no" => pc \in {"cleanup", "exit", "done"}
  /\ caller = "loop" /\ pc \notin {"finish", "cleanup", "exit", "done"} => rc = 0
  /\ caller # "loop" /\ pc \notin {"cleanup", "exit", "done"} => rc = 0

\* Every step keeps what was counted to be reported.
LEMMA ReportStep == TypeInv /\ HoldInv /\ ReportInv /\ [Next]_vars => ReportInv'
<1> SUFFICES ASSUME TypeInv, HoldInv, ReportInv, [Next]_vars PROVE ReportInv'
  OBVIOUS
<1>0. /\ clock \in Nat /\ stacks \in 0..MaxCount /\ idle_count \in 0..MaxCount
      /\ failed_count \in 0..MaxCount /\ opts.seconds \in Int
  BY OptionFacts, ProberAssumption DEF TypeInv, TypeOK, ProberAssumption
<1>00. /\ caller = "loop" => pc \notin {"fork", "wait_stop", "set_options", "cont_exec",
                            "wait_exec", "detach", "seize", "detect", "run", "dump"}
       /\ pc \in {"sample", "finish"} => caller = "loop"
  BY DEF HoldInv
<1> USE <1>0, <1>00, ControlEffects, TraceeEffects
    DEF ReportInv, Counted, Stopped, profileVars
<1>1. CASE Fork
  BY <1>1, ForkEffects DEF Fork
<1>2. CASE WaitStop
  BY <1>2 DEF WaitStop
<1>3. CASE SetOptions
  BY <1>3 DEF SetOptions
<1>4. CASE ContExec
  BY <1>4 DEF ContExec
<1>5. CASE WaitExec
  BY <1>5 DEF WaitExec
<1>6. CASE Detach
  BY <1>6 DEF Detach
<1>7. CASE Seize
  BY <1>7 DEF Seize
<1>8. CASE Interrupt
  BY <1>8 DEF Interrupt
<1>9. CASE DoWait
  BY <1>9 DEF DoWait, AfterStop, AfterDeath, Resumption
<1>10. CASE ContChld
  BY <1>10 DEF ContChld
<1>11. CASE FindSymbols
  BY <1>11 DEF FindSymbols
<1>12. CASE Run
  BY <1>12 DEF Run
<1>13. CASE DumpStacks
  BY <1>13 DEF DumpStacks
<1>14. CASE Sample
  BY <1>14 DEF Sample, AfterSample, DeadlineReached
<1>15. CASE Cont
  BY <1>15 DEF Cont
<1>16. CASE Sleep
  BY <1>16 DEF Sleep
<1>17. CASE Finish
  BY <1>17 DEF Finish, HasProfile
<1>18. CASE Cleanup
  BY <1>18 DEF Cleanup, Alive
<1>19. CASE ProcessExit
  BY <1>19 DEF ProcessExit, Alive
<1>20. CASE EnvironmentStep
  BY <1>20, EnvironmentEffects
<1>21. CASE UNCHANGED vars
  BY <1>21, TraceeEffects DEF vars, outcomeVars
<1> QED
  BY <1>1, <1>2, <1>3, <1>4, <1>5, <1>6, <1>7, <1>8, <1>9, <1>10, <1>11,
     <1>12, <1>13, <1>14, <1>15, <1>16, <1>17, <1>18, <1>19, <1>20, <1>21 DEF Next, PyflameStep, Terminated

\* What was counted is reported on each way out.
LEMMA ReportInvariant == Spec => []ReportInv
<1>1. Init => ReportInv
  BY DEF Init, ReportInv, Counted
<1> QED BY <1>1, ReportStep, TypeInvariant, HoldInvariant, PTL DEF Spec

\* A session that took a sample or counted a failure writes its profile before
\* it ends, on every path out of ProbeLoop.
THEOREM SamplesAreReported == Spec => []NoSampleLost
<1>1. ReportInv => NoSampleLost
  BY DEF ReportInv, Counted, NoSampleLost
<1> QED BY <1>1, ReportInvariant, PTL

\* Status 0 of a profile means the whole duration, or the whole program.
THEOREM SuccessIsComplete == Spec => []FullDuration
<1>1. ReportInv => FullDuration
  BY DEF ReportInv, FullDuration
<1> QED BY <1>1, ReportInvariant, PTL

----------------------------------------------------------------------------
(* When the only signals are those of the target's own children.           *)

Launching == {"fork", "wait_stop", "set_options", "cont_exec", "wait_exec", "detach"}

\* A trap is pending only while DoWait waits for it; the stops of the launch
\* are over when pyflame seizes; and only a dead target makes it crash.
ChldInv ==
  /\ stop # "OTHER" /\ (Stopped => stop # "none")
  /\ stop = "exec" => prog = "py"
  /\ Alive /\ pc \notin Launching \cup {"exit", "done"}
       => prog = "py" /\ stop \notin {"STOP", "exec"}
  /\ Alive /\ pc = "detach" => prog = "py"
  /\ ~Alive => trap = "clear" /\ stop = "none"
  /\ pc \notin {"wait", "cont_chld", "exit", "done"} => trap = "clear"
  /\ pc \in Launching \cup {"seize", "interrupt", "sleep"} => stop # "trap"
  /\ pc = "wait" /\ stop = "trap" => trap = "clear"
  /\ pc = "seize" /\ Alive => tracing = "none"
  /\ task = "absent" => pc \in {"fork", "exit", "done"}
  /\ pc = "dump" => opts.mode = "dump"
  /\ pc \in {"run", "dump"} => addrs # "none"
  /\ rc = 134 => pc \in {"exit", "done"} /\ CrashOnlyOnDeath

\* With SIGCHLDs only, no step leaves an interrupt pending.
LEMMA ChldStep ==
  Signals \subseteq {"CHLD"} /\ TypeInv /\ HoldInv /\ ChldInv /\ [Next]_vars => ChldInv'
<1> SUFFICES ASSUME Signals \subseteq {"CHLD"}, TypeInv, HoldInv, ChldInv, [Next]_vars
             PROVE  ChldInv'
  OBVIOUS
<1>0. /\ task \in {"absent", "running", "stopped", "exited", "killed", "reaped"}
      /\ trap \in {"clear", "pending"}
      /\ stop \in {"none", "trap", "exec", "STOP", "CHLD", "OTHER"}
      /\ tracing \in {"none", "traceme", "seize"}
      /\ addrs \in {"none", "sound", "shaky", "wrong"}
  BY DEF TypeInv, TypeOK, TraceeTypeOK
<1>00. /\ caller = "loop" => pc \notin {"fork", "wait_stop", "set_options", "cont_exec",
                            "wait_exec", "detach", "seize", "detect", "run", "dump"}
       /\ pc \in {"sample", "finish"} => caller = "loop"
       /\ Alive /\ pc \in NeedStopped => Stopped
       /\ pc \in {"interrupt", "wait", "cont_chld", "sleep"} => tracing = "seize"
       /\ pc = "fork" => task = "absent"
  BY DEF HoldInv
<1> USE <1>0, <1>00, ControlEffects, TraceeEffects
    DEF ChldInv, CrashOnlyOnDeath, Launching, imageVars, NeedStopped, Alive, Dead, Zombie, Stopped
<1>1. CASE Fork
  BY <1>1, ForkEffects DEF Fork
<1>2. CASE WaitStop
  BY <1>2 DEF WaitStop, Reportable
<1>3. CASE SetOptions
  BY <1>3 DEF SetOptions
<1>4. CASE ContExec
  BY <1>4 DEF ContExec
<1>5. CASE WaitExec
  BY <1>5 DEF WaitExec, Reportable
<1>6. CASE Detach
  BY <1>6 DEF Detach
<1>7. CASE Seize
  BY <1>7 DEF Seize, CanSeize
<1>8. CASE Interrupt
  BY <1>8 DEF Interrupt, CanInterrupt
<1>9. CASE DoWait
  BY <1>9 DEF DoWait, AfterStop, AfterDeath, Resumption, Reportable
<1>10. CASE ContChld
  BY <1>10 DEF ContChld
<1>11. CASE FindSymbols
  BY <1>11, ProberAssumption DEF FindSymbols, ProberAssumption
<1>12. CASE Run
  BY <1>12 DEF Run
<1>13. CASE DumpStacks
  BY <1>13 DEF DumpStacks, CanRead, CanFail
<1>14. CASE Sample
  BY <1>14 DEF Sample, AfterSample, CanRead
<1>15. CASE Cont
  BY <1>15 DEF Cont
<1>16. CASE Sleep
  BY <1>16 DEF Sleep
<1>17. CASE Finish
  BY <1>17 DEF Finish
<1>18. CASE Cleanup
  BY <1>18 DEF Cleanup
<1>19. CASE ProcessExit
  BY <1>19 DEF ProcessExit
<1>20. CASE EnvironmentStep
  <2>0. pc' = pc /\ caller' = caller /\ opts' = opts /\ rc' = rc /\ uncaught' = uncaught
        /\ (Dead => Dead')
        /\ (addrs' = addrs \/ (addrs # "none" /\ addrs' \in {"shaky", "wrong"}))
    BY <1>20, EnvironmentEffects
  <2>1. CASE Compute
    BY <2>0, <2>1 DEF Compute, InUserMode
  <2>2. CASE Exit
    BY <2>0, <2>2 DEF Exit, InUserMode, Die
  <2>3. CASE ChildTraceme
    BY <2>0, <2>3 DEF ChildTraceme, InUserMode
  <2>4. CASE ChildRaise
    BY <2>0, <2>4 DEF ChildRaise, InUserMode, EnterStop
  <2>5. CASE ChildExec
    BY <2>0, <2>5 DEF ChildExec, InUserMode, EnterStop
  <2>6. CASE ChildExecFails
    BY <2>0, <2>6 DEF ChildExecFails, InUserMode, Die
  <2>7. CASE TakeTrap
    BY <2>0, <2>7 DEF TakeTrap, EnterStop
  <2>8. CASE Kill
    BY <2>0, <2>8 DEF Kill, Die
  <2>9. ASSUME NEW s \in Signals, TakeSignal(s) PROVE ChldInv'
    <3>1. CASE tracing = "none"
      BY <2>0, <2>9, <3>1 DEF TakeSignal
    <3>2. CASE tracing # "none"
      BY <2>0, <2>9, <3>2 DEF TakeSignal, EnterStop
    <3> QED BY <3>1, <3>2
  <2>10. ASSUME NEW s \in Signals, RaiseSignal(s) PROVE ChldInv'
    BY <2>0, <2>10 DEF RaiseSignal
  <2>11. CASE ExecAgain
    BY <2>0, <2>11 DEF ExecAgain, InUserMode
  <2> QED
    BY <1>20, <2>1, <2>2, <2>3, <2>4, <2>5, <2>6, <2>7, <2>8, <2>9, <2>10, <2>11
       DEF EnvironmentStep, UserStep, KernelStep, OthersStep
<1>21. CASE UNCHANGED vars
  BY <1>21 DEF vars, outcomeVars
<1> QED
  BY <1>1, <1>2, <1>3, <1>4, <1>5, <1>6, <1>7, <1>8, <1>9, <1>10, <1>11,
     <1>12, <1>13, <1>14, <1>15, <1>16, <1>17, <1>18, <1>19, <1>20, <1>21 DEF Next, PyflameStep, Terminated

\* With SIGCHLDs only, no interrupt is left pending.
LEMMA ChldInvariant ==
  ASSUME Signals \subseteq {"CHLD"} PROVE Spec => []ChldInv
<1>1. Init => ChldInv
  BY DEF Init, ChldInv, CrashOnlyOnDeath, Launching, Alive, Stopped
<1>2. TypeInv /\ HoldInv /\ ChldInv /\ [Next]_vars => ChldInv'
  BY ChldStep
<1> QED BY <1>1, <1>2, TypeInvariant, HoldInvariant, PTL DEF Spec

\* Issue #122: with the PtraceCont of DoWait, no SIGCHLD leaves an interrupt
\* pending, whenever it arrives.
THEOREM NoInterruptIsLeft ==
  ASSUME Signals \subseteq {"CHLD"} PROVE Spec => []NoStaleTrap
<1>1. ChldInv => NoStaleTrap
  BY DEF ChldInv, NoStaleTrap, NeedStopped
<1> QED BY <1>1, ChldInvariant, PTL

\* ... and none makes pyflame crash: it does when the target died, or in a
\* dump of data that it cannot decode or through addresses that are not sound.
THEOREM OnlyDeathCrashes ==
  ASSUME Signals \subseteq {"CHLD"} PROVE Spec => []CrashOnlyOnDeath
<1>1. ChldInv => CrashOnlyOnDeath
  BY DEF ChldInv, CrashOnlyOnDeath
<1> QED BY <1>1, ChldInvariant, PTL

----------------------------------------------------------------------------
(* Module Prober implements module Session: each of its steps is a step of *)
(* the session its user sees, or leaves that session as it is.             *)

PromiseInv == TypeInv /\ HoldInv /\ ReportInv

\* The invariants that the refinement rests on hold throughout.
LEMMA PromiseInvariant == Spec => []PromiseInv
  BY TypeInvariant, HoldInvariant, ReportInvariant, PTL DEF PromiseInv

\* What the steps below need of the invariant.
LEMMA SessionFacts ==
  ASSUME PromiseInv
  PROVE  /\ task \in {"absent", "running", "stopped", "exited", "killed", "reaped"}
         /\ pc \in Labels /\ caller \in {"init", "find", "loop"}
         /\ stacks \in Nat /\ idle_count \in Nat /\ failed_count \in Nat
         /\ prog \in {"none", "child", "raise", "exec", "py"} /\ work \in 0..Work
         /\ execs \in 0..MaxExecs
         /\ caller = "loop" => pc \notin {"fork", "wait_stop", "set_options", "cont_exec",
                            "wait_exec", "detach", "seize", "detect", "run", "dump"}
         /\ pc \in {"sample", "finish"} => caller = "loop"
         /\ Alive /\ pc \in NeedStopped => Stopped
         /\ pc = "interrupt" => CanInterrupt
         /\ pc = "done" => tracing = "none"
         /\ pc = "fork" => task = "absent"
         /\ prog = "child" => pc = "wait_stop" \/ ~Alive
         /\ Alive /\ trap = "pending" => tracing = "seize"
         /\ rc \in {0, 1, 134} /\ (rc = 134 => pc \in {"exit", "done"})
         /\ printed # "no" => pc \in {"cleanup", "exit", "done"}
         /\ pc \notin {"finish", "cleanup", "exit", "done"} => rc = 0
         /\ pc = "exit" /\ stacks + idle_count > 0 => printed = "profile"
  BY DEF PromiseInv, TypeInv, TypeOK, TraceeTypeOK, HoldInv, ReportInv, Counted, CanInterrupt

\* A counter never goes down.
LEMMA BumpFacts ==
  \A n \in Nat : Bump(n) \in {n, n + 1}
  BY DEF Bump

\* Each step of Prober is one of Session, or changes nothing of it.
LEMMA PromiseStep ==
  PromiseInv /\ PromiseInv' /\ [Next]_vars => [Promise!SNext]_(Promise!sessionVars)
<1> SUFFICES ASSUME PromiseInv, PromiseInv', [Next]_vars
             PROVE  Promise!SNext \/ UNCHANGED Promise!sessionVars
  OBVIOUS
<1> DEFINE Same == UNCHANGED <<Phase, Hold, Done, Samples, Written, Status>>
           GivesUp == /\ Phase \in {"opening", "locating"} /\ Phase' = "closing"
                      /\ Status' \in {"error", "crash"}
                      /\ UNCHANGED <<Hold, Done, Samples, Written>>
           LetsGo == /\ \/ Hold = "held" /\ Hold' = "free"
                        \/ Hold \in {"free", "held"} /\ Hold' = "gone"
                     /\ UNCHANGED <<Phase, Done, Samples, Written, Status>>
<1>a. Same => UNCHANGED Promise!sessionVars
  BY DEF Promise!sessionVars
<1>b. GivesUp \/ LetsGo => Promise!SNext
  BY DEF Promise!SNext, Promise!GiveUp, Promise!LetGo
<1>c. Done' \in {"none", "child", "raise", "exec", "py"} \X (0..Work) \X (0..MaxExecs)
  BY DEF PromiseInv, TypeInv, TypeOK, TraceeTypeOK, Done
<1>d. ASSUME Hold = "free", Hold' \in {"free", "held", "gone"},
             Phase = "over" => Hold' # "held",
             UNCHANGED <<Phase, Samples, Written, Status>>
      PROVE  Promise!SNext
  BY <1>c, <1>d DEF Promise!SNext, Promise!Advance
<1> USE SessionFacts, ControlEffects, TraceeEffects
    DEF Phase, Hold, Samples, Written, Status, Done,
        Alive, Dead, Zombie, Stopped, NeedStopped, Labels, profileVars, imageVars
<1>1. CASE Fork
  <2>1. CASE pc' = "exit"
    <3> GivesUp
      BY <1>1, <2>1, ForkEffects DEF Fork
    <3> QED BY <1>b
  <2>2. CASE pc' # "exit"
    <3>1. /\ Hold = "free" /\ Hold' = "free"
          /\ UNCHANGED <<Phase, Samples, Written, Status>>
          /\ Phase # "over"
      BY <1>1, <2>2, ForkEffects DEF Fork
    <3> QED BY <3>1, <1>d
  <2> QED BY <2>1, <2>2
<1>2. CASE WaitStop
  <2> Same
    BY <1>2 DEF WaitStop
  <2> QED BY <1>a
<1>3. CASE SetOptions
  <2> Same \/ GivesUp
    BY <1>3 DEF SetOptions
  <2> QED BY <1>a, <1>b
<1>4. CASE ContExec
  <2> LetsGo \/ GivesUp
    BY <1>4 DEF ContExec
  <2> QED BY <1>b
<1>5. CASE WaitExec
  <2> Same \/ GivesUp
    BY <1>5 DEF WaitExec
  <2> QED BY <1>a, <1>b
<1>6. CASE Detach
  <2> LetsGo \/ GivesUp
    BY <1>6 DEF Detach
  <2> QED BY <1>b
<1>7. CASE Seize
  <2> Same \/ GivesUp
    BY <1>7 DEF Seize
  <2> QED BY <1>a, <1>b
<1>8. CASE Interrupt
  <2> Same
    BY <1>8 DEF Interrupt
  <2> QED BY <1>a
<1>9. CASE DoWait
  <2>1. CASE Reportable /\ Report /\ AfterStop(stop)
    <3>1. CASE caller = "init" /\ stop = "trap"
      <4> /\ Phase = "opening" /\ Hold = "held" /\ Phase' = "locating"
          /\ UNCHANGED <<Hold, Done, Samples, Written, Status>>
        BY <1>9, <2>1, <3>1 DEF DoWait, AfterStop, Resumption, Reportable
      <4> QED BY DEF Promise!SNext, Promise!Locate
    <3>2. CASE ~(caller = "init" /\ stop = "trap")
      <4> Same \/ GivesUp
        BY <1>9, <2>1, <3>2 DEF DoWait, AfterStop, Resumption, Reportable
      <4> QED BY <1>a, <1>b
    <3> QED BY <3>1, <3>2
  <2>2. CASE Zombie /\ Reap /\ AfterDeath(task)
    <3>1. CASE caller = "loop" /\ task = "exited"
      <4> /\ Phase = "profiling" /\ Hold = "gone" /\ Phase' = "closing" /\ Status' = "ok"
          /\ UNCHANGED <<Hold, Done, Samples, Written>>
        BY <1>9, <2>2, <3>1 DEF DoWait, AfterDeath
      <4> QED BY DEF Promise!SNext, Promise!EndProfile
    <3>2. CASE ~(caller = "loop" /\ task = "exited")
      <4> Same \/ GivesUp
        BY <1>9, <2>2, <3>2 DEF DoWait, AfterDeath
      <4> QED BY <1>a, <1>b
    <3> QED BY <3>1, <3>2
  <2> QED BY <1>9, <2>1, <2>2 DEF DoWait
<1>10. CASE ContChld
  <2> Same \/ LetsGo \/ GivesUp
    BY <1>10 DEF ContChld
  <2> QED BY <1>a, <1>b
<1>11. CASE FindSymbols
  <2> Same \/ GivesUp
    BY <1>11 DEF FindSymbols
  <2> QED BY <1>a, <1>b
<1>12. CASE Run
  <2>1. CASE pc' = "sample"
    <3> /\ Phase = "locating" /\ Phase' = "profiling"
        /\ UNCHANGED <<Hold, Done, Samples, Written, Status>>
      BY <1>12, <2>1 DEF Run
    <3> QED BY DEF Promise!SNext, Promise!StartProfile
  <2>2. CASE pc' # "sample"
    <3> Same \/ GivesUp
      BY <1>12, <2>2 DEF Run
    <3> QED BY <1>a, <1>b
  <2> QED BY <2>1, <2>2
<1>13. CASE DumpStacks
  <2>1. CASE CanRead /\ Return(0) /\ printed' = "dump"
    <3> /\ Phase = "locating" /\ Hold = "held" /\ Phase' = "closing"
        /\ Written' = "dump" /\ Status' = "ok"
        /\ UNCHANGED <<Hold, Done, Samples>>
      BY <1>13, <2>1 DEF DumpStacks, CanRead
    <3> QED BY DEF Promise!SNext, Promise!Dump
  <2>2. CASE (\E e \in {"generic", "ptrace"} : Throw(e)) /\ UNCHANGED printed
    <3> GivesUp
      BY <1>13, <2>2 DEF DumpStacks
    <3> QED BY <1>b
  <2> QED BY <1>13, <2>1, <2>2 DEF DumpStacks
<1>14. CASE Sample
  <2>0. /\ UNCHANGED <<Hold, Done, Written>> /\ Phase = "profiling"
        /\ caller' = caller /\ pc = "sample" /\ caller = "loop" /\ rc = 0
    BY <1>14 DEF Sample
  <2>1. CASE CanRead /\ pc' \in {"cont", "finish"}
    <3>1. Hold = "held" /\ Samples' \in {Samples, "taken"}
      BY <1>14, <2>1, BumpFacts DEF Sample, CanRead, CountIdle
    <3>2. \/ pc' = "cont" /\ rc' = rc
          \/ pc' = "finish" /\ rc' \in {0, 1}
      BY <1>14, <2>0, <2>1 DEF Sample, AfterSample
    <3>3. \/ Phase' = "profiling" /\ UNCHANGED Status
          \/ Phase' = "closing" /\ Status' \in {"ok", "error"}
      BY <2>0, <3>2
    <3> QED BY <2>0, <3>1, <3>3 DEF Promise!SNext, Promise!TakeSample
  <2>2. CASE Throw("ptrace") /\ UNCHANGED profileVars
    <3> Same
      BY <1>14, <2>0, <2>2 DEF Sample
    <3> QED BY <1>a
  <2> QED BY <1>14, <2>0, <2>1, <2>2 DEF Sample, AfterSample
<1>15. CASE Cont
  <2> Same \/ LetsGo \/ GivesUp
    BY <1>15 DEF Cont
  <2> QED BY <1>a, <1>b
<1>16. CASE Sleep
  <2> Same
    BY <1>16 DEF Sleep
  <2> QED BY <1>a
<1>17. CASE Finish
  <2>0. /\ Phase = "closing" /\ printed = "no" /\ Status \in {"ok", "error"}
        /\ UNCHANGED <<Phase, Hold, Done, Samples, Status>>
    BY <1>17 DEF Finish
  <2>1. CASE HasProfile
    <3> Written = "nothing" /\ Written' = "profile"
      BY <1>17, <2>0, <2>1 DEF Finish
    <3> QED BY <2>0 DEF Promise!SNext, Promise!Report
  <2>2. CASE ~HasProfile
    <3> Same
      BY <1>17, <2>0, <2>2 DEF Finish
    <3> QED BY <1>a
  <2> QED BY <2>1, <2>2
<1>18. CASE Cleanup
  <2> Same \/ LetsGo
    BY <1>18 DEF Cleanup
  <2> QED BY <1>a, <1>b
<1>19. CASE ProcessExit
  <2> /\ Phase = "closing" /\ Phase' = "over"
      /\ Samples = "taken" => Written = "profile"
      /\ Hold' = (IF Hold = "held" THEN "free" ELSE Hold)
      /\ UNCHANGED <<Done, Samples, Written, Status>>
    BY <1>19 DEF ProcessExit
  <2> QED BY DEF Promise!SNext, Promise!Close
<1>20. CASE EnvironmentStep
  <2>0. UNCHANGED <<Phase, Samples, Written, Status>>
    BY <1>20, EnvironmentEffects
  <2>a. CASE ExecAgain
    BY <2>0, <2>a, <1>d DEF ExecAgain, InUserMode
  <2>b. ~ExecAgain => execs' = execs
    BY <1>20 DEF EnvironmentStep
  <2> SUFFICES ASSUME execs' = execs PROVE Promise!SNext \/ UNCHANGED Promise!sessionVars
    BY <2>a, <2>b
  <2>1. CASE Compute
    BY <2>0, <2>1, <1>d DEF Compute, InUserMode
  <2>2. CASE Exit
    BY <2>0, <2>2, <1>d DEF Exit, Die, InUserMode
  <2>3. CASE ChildTraceme
    BY <2>0, <2>3, <1>d DEF ChildTraceme, InUserMode
  <2>4. CASE ChildRaise
    BY <2>0, <2>4, <1>d DEF ChildRaise, EnterStop, InUserMode
  <2>5. CASE ChildExec
    BY <2>0, <2>5, <1>d DEF ChildExec, EnterStop, InUserMode
  <2>6. CASE ChildExecFails
    BY <2>0, <2>6, <1>d DEF ChildExecFails, Die, InUserMode
  <2>7. CASE TakeTrap
    BY <2>0, <2>7, <1>d DEF TakeTrap, EnterStop
  <2>8. ASSUME NEW s \in Signals, TakeSignal(s)
        PROVE  Promise!SNext \/ UNCHANGED Promise!sessionVars
    <3>1. CASE tracing = "none"
      <4> Same
        BY <2>0, <2>8, <3>1 DEF TakeSignal
      <4> QED BY <1>a
    <3>2. CASE tracing # "none"
      BY <2>0, <2>8, <3>2, <1>d DEF TakeSignal, EnterStop
    <3> QED BY <3>1, <3>2
  <2>9. CASE Kill
    <3> LetsGo
      BY <2>0, <2>9 DEF Kill, Die
    <3> QED BY <1>b
  <2>10. ASSUME NEW s \in Signals, RaiseSignal(s)
         PROVE  Promise!SNext \/ UNCHANGED Promise!sessionVars
    <3> Same
      BY <2>0, <2>10 DEF RaiseSignal
    <3> QED BY <1>a
  <2> QED
    BY <1>20, <2>a, <2>1, <2>2, <2>3, <2>4, <2>5, <2>6, <2>7, <2>8, <2>9, <2>10
       DEF EnvironmentStep, UserStep, KernelStep, OthersStep
<1>21. CASE UNCHANGED vars
  <2> Same
    BY <1>21 DEF vars, outcomeVars, traceeVars
  <2> QED BY <1>a
<1> QED
  BY <1>1, <1>2, <1>3, <1>4, <1>5, <1>6, <1>7, <1>8, <1>9, <1>10, <1>11,
     <1>12, <1>13, <1>14, <1>15, <1>16, <1>17, <1>18, <1>19, <1>20, <1>21
     DEF Next, PyflameStep, Terminated

\* A session keeps the promise of module Session: it looks at the program only
\* while it holds it, loses no sample, and does not crash once it profiles.
THEOREM ProberKeepsPromise == Spec => KeepsPromise
<1>1. Init => Promise!SInit
  <2> SUFFICES ASSUME Init PROVE Promise!SInit
    OBVIOUS
  <2>1. Done \in {"none", "child", "raise", "exec", "py"} \X (0..Work) \X (0..MaxExecs)
    BY TraceeAssumption, ProberAssumption DEF Init, Done, TraceeAssumption, ProberAssumption
  <2>2. Phase = "opening" /\ Hold = "free" /\ Samples = "none"
        /\ Written = "nothing" /\ Status = "unknown"
    BY DEF Init, Phase, Hold, Samples, Written, Status, Stopped, Dead, Zombie
  <2> QED BY <2>1, <2>2 DEF Promise!SInit
<1> QED
  BY <1>1, PromiseStep, PromiseInvariant, PTL DEF Spec, KeepsPromise, Promise!SSpec
=============================================================================
