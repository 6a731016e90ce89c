CONSTANTS
  c1 = c1
  c2 = c2
  e1 = e1
  e2 = e2
  Endpoints <- MCEndpoints
  Default = default
  Nothing = nothing
  Closers <- MCClosers
  Opener = opener
SPECIFICATION FairSpec
CHECK_DEADLOCK FALSE
INVARIANTS
  UsesAreLive
  NothingLeaks
PROPERTIES
  EndpointsAreTold
  ContractSpec
  CloseReturns
