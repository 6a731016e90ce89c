CONSTANTS
  c1 = c1
  Reader = reader
  Closers <- MCClosers
  MaxRecoveries = 1
  MaxStalls = 1
  ResumeRetries = 1
SPECIFICATION FairSpec
PROPERTY
  SuspendIsRecovered
