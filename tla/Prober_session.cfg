\* Sessions of every mode against signals of both kinds and a kill.
SPECIFICATION Spec
CONSTANTS
  Work = 2
  LoadedAt = 1
  Signals = {"CHLD", "OTHER"}
  MaxSignals = 2
  EarlySignals = FALSE
  MayKill = TRUE
  Binaries = {"python", "other", "unsupported"}
  Options <- MCAll
  AttachRetries = 1
  TraceRetries = 3
  MaxSlip = 2
  MaxClock = 3
  MaxCount = 4
  Soundness = {"sound", "shaky", "wrong"}
  MaxExecs = 1
INVARIANTS TypeOK RequestLegal WaitAnswered SampleBound NoSampleLost FullDuration
PROPERTIES HeldWhileRead KeepsPromise
