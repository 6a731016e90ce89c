CONSTANTS
  Drivers <- MCUnderstood
  Buffers = {1, 2, 4}
  MaxGap = 2
SPECIFICATION FillSpec
CHECK_DEADLOCK FALSE
INVARIANTS
  NothingHeldBack
PROPERTIES
  NoneTwice
  JumpsAreXruns
