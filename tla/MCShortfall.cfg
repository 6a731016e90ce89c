CONSTANTS
  Second = 4
  Rate = 4
  Buffer = 2
  MinWindow = 8
  WindowBufs = 20
  Tolerance = 10
  Speeds = {3, 4}
  Lag = 1
  MaxPause = 8
SPECIFICATION Spec
CHECK_DEADLOCK FALSE
PROPERTIES
  OnlyHiddenOverruns
  SlowIsCaught
