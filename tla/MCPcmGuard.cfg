CONSTANTS
  u1 = u1
  u2 = u2
  c1 = c1
  c2 = c2
  Users <- MCUsers
  Closers <- MCClosers
  OpsOf <- MCReaderAndStarter
SPECIFICATION FairSpec
INVARIANTS
  NoLostWakeup
PROPERTIES
  FdLifetimeSpec
  CloseReturns
