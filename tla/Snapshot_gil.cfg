\* A worker thread that computes, ends and starts again while samples are taken.
SPECIFICATION Spec
CONSTANTS
  w1 = w1
  f1 = f1
  f2 = f2
  f3 = f3
  Workers = {w1}
  Frames <- MCFrames
  Codes <- MCCodes
  Calls <- MCCalls
  Entries <- MCEntries
  MaxDepth = 3
SYMMETRY FrameSymmetry
\* A walk that never ends is cut at MaxDepth.
CHECK_DEADLOCK FALSE
INVARIANTS TypeOK LeaderExact ExactUnderGil
