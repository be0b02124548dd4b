CONSTANTS
  Saves <- SavedFiles
  Cuts <- AnyCut
  Epoch = 1998
  NanosPerMilli = 10
  RepMax = 1000000
  MaxTime = 3
SPECIFICATION Spec
INVARIANTS WholeFileOrNone Restored
CHECK_DEADLOCK FALSE
