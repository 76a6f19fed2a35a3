\* Fair sessions whose target is signalled by its children only, and killed at any step.
SPECIFICATION FairSpec
CONSTANTS
  Work = 2
  LoadedAt = 1
  Signals = {"CHLD"}
  MaxSignals = 3
  EarlySignals = FALSE
  MayKill = TRUE
  Binaries = {"python", "other", "unsupported"}
  Options <- MCOfEach
  AttachRetries = 1
  TraceRetries = 3
  MaxSlip = 2
  MaxClock = 3
  MaxCount = 2
  Soundness = {"sound", "wrong"}
  MaxExecs = 1
INVARIANTS NoStaleTrap CrashOnlyOnDeath
PROPERTIES EndsUnlessKilled TracedToCompletion TargetReleased
