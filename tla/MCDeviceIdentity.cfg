CONSTANTS
  twin1 = twin1
  twin2 = twin2
  plain = plain
  codec = codec
  mic = mic
  pch = pch
  sn = sn
  p1 = p1
  p2 = p2
  NoSerial = NoSerial
  NoPort = NoPort
  NoId = NoId
  None = None
  Units <- MCUnits
  Desc <- MCDesc
  Cards = {0, 1}
  Ports <- MCPorts
SPECIFICATION Spec
SYMMETRY Symmetry
INVARIANTS
  HandleIsNamed
  SameUnit
PROPERTIES
  InUseIsOurs
  PresentIsFound
  TwinsAreTold
