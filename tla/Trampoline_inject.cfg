\* Both injections against signals, spawned and ending threads, a kill and a ^C at every step.
SPECIFICATION FairSpec
CONSTANTS
  Work = 0
  LoadedAt = 0
  EarlySignals = FALSE
  Binaries = {"python"}
  t1 = t1
  t2 = t2
  Threads <- MCThreads
  MmapResults = {"page", "eperm", "enomem"}
  Signals = {"CHLD", "OTHER"}
  MaxSignals = 2
  MayKill = TRUE
  MaySpawn = TRUE
  MayInterrupt = TRUE
INVARIANTS TypeOK ProgramResumed PatchedAlone PageFreed NoneForgotten SessionClean HintRight
PROPERTIES InjectionEnds
