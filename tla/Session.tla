------------------------------ MODULE Session ------------------------------
(***************************************************************************)
(* What a pyflame session promises to its user and to the profiled         *)
(* program, without saying how (module Prober implements it):              *)
(*                                                                         *)
(*  - the program is looked at while it is held, and makes no progress     *)
(*    while it is held;                                                    *)
(*  - a session that has started to profile does not crash, and once it    *)
(*    has taken a sample it reports before it is over;                     *)
(*  - status 0 is for a session that profiled or dumped;                   *)
(*  - a session that is over does not hold the program.                    *)
(***************************************************************************)
CONSTANT Progress   \* what the program has done so far, as an opaque value

VARIABLES
  phase,     \* opening, locating the symbols, profiling, closing, over
  hold,      \* is the program free, held, or gone?
  progress,
  samples,   \* none or taken
  report,    \* what was written: nothing, profile or dump
  status     \* ok, error or crash, once closing

sessionVars == <<phase, hold, progress, samples, report, status>>

SInit ==
  /\ phase = "opening" /\ hold = "free" /\ progress \in Progress
  /\ samples = "none" /\ report = "nothing" /\ status = "unknown"

\* The program progresses, and may stop or end, only while it is free.
Advance ==
  /\ hold = "free"
  /\ progress' \in Progress /\ hold' \in {"free", "held", "gone"}
  /\ phase = "over" => hold' # "held"
  /\ UNCHANGED <<phase, samples, report, status>>

\* It is let go of, or killed.
LetGo ==
  /\ \/ hold = "held" /\ hold' = "free"
     \/ hold \in {"free", "held"} /\ hold' = "gone"
  /\ UNCHANGED <<phase, progress, samples, report, status>>

Locate ==
  /\ phase = "opening" /\ hold = "held"
  /\ phase' = "locating"
  /\ UNCHANGED <<hold, progress, samples, report, status>>

StartProfile ==
  /\ phase = "locating"
  /\ phase' = "profiling"
  /\ UNCHANGED <<hold, progress, samples, report, status>>

GiveUp ==
  /\ phase \in {"opening", "locating"}
  /\ phase' = "closing" /\ status' \in {"error", "crash"}
  /\ UNCHANGED <<hold, progress, samples, report>>

Dump ==
  /\ phase = "locating" /\ hold = "held"
  /\ phase' = "closing" /\ report' = "dump" /\ status' = "ok"
  /\ UNCHANGED <<hold, progress, samples>>

\* The sample the session takes may be its last one.
TakeSample ==
  /\ phase = "profiling" /\ hold = "held"
  /\ samples' \in {samples, "taken"}
  /\ \/ phase' = "profiling" /\ UNCHANGED status
     \/ phase' = "closing" /\ status' \in {"ok", "error"}
  /\ UNCHANGED <<hold, progress, report>>

\* The program is gone: nothing more to sample.
EndProfile ==
  /\ phase = "profiling" /\ hold = "gone"
  /\ phase' = "closing" /\ status' = "ok"
  /\ UNCHANGED <<hold, progress, samples, report>>

Report ==
  /\ phase = "closing" /\ status \in {"ok", "error"} /\ report = "nothing"
  /\ report' = "profile"
  /\ UNCHANGED <<phase, hold, progress, samples, status>>

Close ==
  /\ samples = "taken" => report = "profile"
  /\ phase = "closing" /\ phase' = "over"
  /\ hold' = (IF hold = "held" THEN "free" ELSE hold)
  /\ UNCHANGED <<progress, samples, report, status>>

SNext ==
  \/ Advance \/ LetGo \/ Locate \/ StartProfile \/ GiveUp \/ Dump
  \/ TakeSample \/ EndProfile \/ Report \/ Close

SSpec == SInit /\ [][SNext]_sessionVars
=============================================================================
