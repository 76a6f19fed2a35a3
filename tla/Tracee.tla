------------------------------- MODULE Tracee -------------------------------
(***************************************************************************)
(* The process that pyflame profiles, together with the part of the kernel *)
(* that stops, resumes and reports it: the environment of the Prober       *)
(* module.  Only the thread whose id is the target's pid is modelled: it   *)
(* is the only one the code in prober.cc attaches to.  The rules of        *)
(* ptrace(2) are the ones the code relies on (src/src/ptrace.cc), as the   *)
(* kernel's manual page ptrace(2) states them.                             *)
(***************************************************************************)
EXTENDS Integers, FiniteSets

CONSTANTS
  Work,          \* computation steps a python program makes before it exits
  LoadedAt,      \* ld.so has mapped the python symbols once work <= LoadedAt
  Signals,       \* kinds of signal others may send to the target
  MaxSignals,    \* bound: how many signals are sent
  EarlySignals,  \* TRUE: the forked child may get signals before its execvp
  MayKill,       \* TRUE: somebody may SIGKILL the target
  Binaries       \* what the target's ELF files may show to DetectABI

ASSUME TraceeAssumption ==
  /\ Work \in Nat /\ LoadedAt \in Nat /\ MaxSignals \in Nat
  /\ Signals \subseteq {"CHLD", "OTHER"}
  /\ EarlySignals \in BOOLEAN /\ MayKill \in BOOLEAN
  /\ Binaries \subseteq {"python", "other", "unsupported"}

VARIABLES
  task,     \* state of the thread, as its tracer can tell it
  stop,     \* why it is stopped
  notice,   \* has the tracer's waitpid returned this stop yet?
  trap,     \* a PTRACE_INTERRUPT the thread has not trapped for yet
  sigs,     \* pending signals
  tracing,  \* how it is traced
  prog,     \* the code it executes: the stages of the fork, then python
  work,     \* computation steps it still has to do
  raised,   \* signals sent so far
  binary    \* what its ELF files show

traceeVars == <<task, stop, notice, trap, sigs, tracing, prog, work, raised, binary>>

Stopped == task = "stopped"
Zombie  == task \in {"exited", "killed"}
Dead    == Zombie \/ task = "reaped"
Alive   == task \in {"running", "stopped"}

TraceeTypeOK ==
  /\ task \in {"absent", "running", "stopped", "exited", "killed", "reaped"}
  /\ stop \in {"none", "trap", "exec", "STOP", "CHLD", "OTHER"}
  /\ notice \in {"none", "pending", "read"}
  /\ trap \in {"clear", "pending"}
  /\ sigs \subseteq {"CHLD", "OTHER"}
  /\ tracing \in {"none", "traceme", "seize"}
  /\ prog \in {"none", "child", "raise", "exec", "py"}
  /\ work \in 0..Work
  /\ raised \in 0..MaxSignals
  /\ binary \in {"python", "other", "unsupported"}

----------------------------------------------------------------------------
(* Stops, resumptions and deaths, as the kernel makes them.                *)

EnterStop(why) ==
  /\ task' = "stopped" /\ stop' = why /\ notice' = "pending"

Die(how) ==
  /\ task' = how /\ stop' = "none" /\ notice' = "none"
  /\ trap' = "clear" /\ sigs' = {}

\* PTRACE_CONT with data 0: the signal of a signal-delivery-stop is dropped.
\* A PTRACE_INTERRUPT that arrived during the stop stays pending.
Resume ==
  /\ task' = "running" /\ stop' = "none" /\ notice' = "none"
  /\ UNCHANGED <<trap, sigs, tracing, prog, work, raised, binary>>

\* PTRACE_DETACH, and the implicit one when the tracer exits.
Release ==
  /\ task' = (IF Alive THEN "running" ELSE task)
  /\ stop' = "none" /\ notice' = "none" /\ trap' = "clear" /\ tracing' = "none"
  /\ UNCHANGED <<sigs, prog, work, raised, binary>>

\* PTRACE_SEIZE: the thread is alive and nobody traces it.
CanSeize == Alive /\ tracing = "none"
SeizeTask ==
  /\ tracing' = "seize"
  /\ UNCHANGED <<task, stop, notice, trap, sigs, prog, work, raised, binary>>

\* PTRACE_INTERRUPT succeeds on a seized thread until its tracer has reaped
\* it.  A thread that is already stopped traps again after it is resumed.
CanInterrupt == tracing = "seize"
InterruptTask ==
  /\ trap' = (IF Alive THEN "pending" ELSE trap)
  /\ UNCHANGED <<task, stop, notice, sigs, tracing, prog, work, raised, binary>>

\* waitpid: one report per stop; a zombie is reaped.
Reportable == Stopped /\ notice = "pending"
Report ==
  /\ notice' = "read"
  /\ UNCHANGED <<task, stop, trap, sigs, tracing, prog, work, raised, binary>>
Reap ==
  /\ task' = "reaped" /\ tracing' = "none"
  /\ UNCHANGED <<stop, notice, trap, sigs, prog, work, raised, binary>>

----------------------------------------------------------------------------
(* Steps of the target itself.  It runs user code only when it has no trap *)
(* and no signal to take on its way out of the kernel.                     *)

InUserMode == task = "running" /\ trap = "clear" /\ sigs = {}

\* One computation step of the profiled program, ld.so's included.
Compute ==
  /\ InUserMode /\ prog = "py" /\ work > 0
  /\ work' = work - 1
  /\ UNCHANGED <<task, stop, notice, trap, sigs, tracing, prog, raised, binary>>

Exit ==
  /\ InUserMode /\ prog = "py" /\ work = 0
  /\ Die("exited")
  /\ UNCHANGED <<tracing, prog, work, raised, binary>>

\* PtraceTraceme in the forked child: PTRACE_TRACEME, then raise(SIGSTOP).
ChildTraceme ==
  /\ InUserMode /\ prog = "child"
  /\ tracing' = "traceme" /\ prog' = "raise"
  /\ UNCHANGED <<task, stop, notice, trap, sigs, work, raised, binary>>

ChildRaise ==
  /\ InUserMode /\ prog = "raise" /\ tracing = "traceme"
  /\ EnterStop("STOP")
  /\ prog' = "exec"
  /\ UNCHANGED <<trap, sigs, tracing, work, raised, binary>>

\* execvp: stops with PTRACE_EVENT_EXEC, or fails and the child returns 1.
ChildExec ==
  /\ InUserMode /\ prog = "exec" /\ tracing = "traceme"
  /\ EnterStop("exec")
  /\ prog' = "py"
  /\ UNCHANGED <<trap, sigs, tracing, work, raised, binary>>

ChildExecFails ==
  /\ InUserMode /\ prog = "exec"
  /\ Die("exited")
  /\ UNCHANGED <<tracing, prog, work, raised, binary>>

----------------------------------------------------------------------------
(* Steps of the kernel on behalf of a runnable target: pending traps are   *)
(* served before pending signals.                                          *)

TakeTrap ==
  /\ task = "running" /\ trap = "pending"
  /\ EnterStop("trap")
  /\ trap' = "clear"
  /\ UNCHANGED <<sigs, tracing, prog, work, raised, binary>>

\* A traced target stops for the signal, an untraced one handles it.
TakeSignal(s) ==
  /\ task = "running" /\ trap = "clear" /\ s \in sigs
  /\ sigs' = sigs \ {s}
  /\ IF tracing = "none"
     THEN UNCHANGED <<task, stop, notice>>
     ELSE EnterStop(s)
  /\ UNCHANGED <<trap, tracing, prog, work, raised, binary>>

----------------------------------------------------------------------------
(* What others do to the target.                                           *)

RaiseSignal(s) ==
  /\ Alive /\ s \notin sigs /\ raised < MaxSignals
  /\ EarlySignals \/ prog = "py"
  /\ sigs' = sigs \cup {s} /\ raised' = raised + 1
  /\ UNCHANGED <<task, stop, notice, trap, tracing, prog, work, binary>>

Kill ==
  /\ MayKill /\ Alive
  /\ Die("killed")
  /\ UNCHANGED <<tracing, prog, work, raised, binary>>

----------------------------------------------------------------------------
UserStep   == Compute \/ Exit \/ ChildTraceme \/ ChildRaise \/ ChildExec \/ ChildExecFails
KernelStep == TakeTrap \/ \E s \in Signals : TakeSignal(s)
OthersStep == Kill \/ \E s \in Signals : RaiseSignal(s)
=============================================================================
