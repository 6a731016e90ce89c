CONSTANTS
  Formats <- MCFormats
  Words   <- MCWords
  Byte = 2
  Period = 2
  FrameBytes = 16
  Sizes = 64
  MaxFrames = 5
SPECIFICATION Spec
CHECK_DEADLOCK FALSE
INVARIANTS
  HeaderIsTrue
  SuccessIsWhole
