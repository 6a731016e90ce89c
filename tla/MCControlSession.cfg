CONSTANTS
  v1 = v1
  v2 = v2
  Absent = Absent
  NoName = NoName
  Names <- MCNames
  Asked <- MCAsked
  Volumes <- MCNames
  Shapes <- MCShapes
  Values <- MCValues
  Percents <- MCPercents
  Word = 32
  MaxProbe = 3
  MaxExact = 512
  Grids <- MCGrids
  Full = 100
  ListAttempts = 2
  MaxItems = 4
  Items <- MCItems
  Raws <- MCRaws
  Cell = 32
  StepCells = 4
  MaxSpan = 25
  Long = 128
  MaxPieces = 3
SPECIFICATION FairSpec
INVARIANTS
  WrittenIsValid
  PercentIsNearest
  NeverChooses
  DBIsRight
PROPERTIES
  PresentIsListed
  ErrorsAreTrue
  FdLifetimeSpec
  CallsReturn
