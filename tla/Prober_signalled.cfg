\* A traced target gets a signal that is not SIGCHLD.
SPECIFICATION FairSpec
CONSTANTS
  Work = 2
  LoadedAt = 1
  Signals = {"OTHER"}
  MaxSignals = 1
  EarlySignals = FALSE
  MayKill = FALSE
  Binaries = {"python"}
  Options <- MCTrace
  AttachRetries = 1
  TraceRetries = 3
  MaxSlip = 2
  MaxClock = 3
  MaxCount = 2
  Soundness = {"sound"}
  MaxExecs = 0
PROPERTIES TracedToCompletion
