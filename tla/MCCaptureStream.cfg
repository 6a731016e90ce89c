CONSTANTS
  c1 = c1
  Reader = reader
  Closers <- MCClosers
  MaxRecoveries = 2
  MaxStalls = 1
  ResumeRetries = 1
SPECIFICATION FairSpec
INVARIANTS
  GapsAreCounted
PROPERTIES
  CloseWins
  StateErrorIsSuspend
  StallIsExhausted
  ContractSpec
  CloseUnblocks
  ReadReturns
