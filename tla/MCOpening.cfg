CONSTANTS
  Rates   <- MCRates
  Sizes   <- MCSizes
  Counts  <- MCCounts
  Buffers <- MCBuffers
  Cap  = 64
  Word = 256
  MaxSize  = 127
  MaxCount = 2
  Drivers <- MCDrivers
  Tried   <- MCTried
SPECIFICATION OpenSpec
CHECK_DEADLOCK FALSE
INVARIANTS
  GrantedIsNearest
  RefusedIsHopeless
  PredictsTheOpen
  FloorIsTight
  BoundaryIsLargest
