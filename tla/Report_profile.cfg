\* Command lines, and reports of two turns in every form of output.
SPECIFICATION Spec
CONSTANTS
  CommandLines <- MCCommandLines
  MaxPid = 5
  Names <- MCNames
  Samples <- MCSamples
  MaxTurns = 2
  MaxStep = 1
INVARIANTS TypeOK ParsedRight ReportRight ChartRight
