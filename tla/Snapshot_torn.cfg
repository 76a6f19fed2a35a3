\* The worker thread holds the GIL while its stack is read.
SPECIFICATION Spec
CONSTANTS
  w1 = w1
  f1 = f1
  f2 = f2
  f3 = f3
  Workers = {w1}
  Frames <- MCFrames
  Codes <- MCCodes
  Calls <- MCCalls
  Entries <- MCEntries
  MaxDepth = 3
SYMMETRY FrameSymmetry
CHECK_DEADLOCK FALSE
INVARIANTS StacksArePaths
