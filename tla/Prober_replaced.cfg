\* An attached target executes another program between two samples.
SPECIFICATION FairSpec
CONSTANTS
  Work = 1
  LoadedAt = 1
  Signals = {}
  MaxSignals = 0
  EarlySignals = FALSE
  MayKill = FALSE
  Binaries = {"python"}
  Options <- MCAttachOne
  AttachRetries = 1
  TraceRetries = 3
  MaxSlip = 2
  MaxClock = 3
  MaxCount = 2
  Soundness = {"sound"}
  MaxExecs = 1
PROPERTIES DetachesInTime
