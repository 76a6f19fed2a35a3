\* An attached target is killed between two samples.
SPECIFICATION FairSpec
CONSTANTS
  Work = 1
  LoadedAt = 1
  Signals = {}
  MaxSignals = 0
  EarlySignals = FALSE
  MayKill = TRUE
  Binaries = {"python"}
  Options <- MCAttachOne
  AttachRetries = 1
  TraceRetries = 3
  MaxSlip = 2
  MaxClock = 3
  MaxCount = 2
  Soundness = {"sound"}
  MaxExecs = 0
PROPERTIES Ends
