SPECIFICATION MCSpec
CONSTANTS
  Instance = {i1}
  Req = {1, 2, 3}
  Limit = 1
  Key = {1, 2}
  TTL = {1, 3}
  SweepInterval = 3
  MaxCount = 2
  MaxClock = 4
  Replica = {1, 2}
  RetentionWindow = 1
  Batch = 2
  MaxPerRun = 3
  MaxTime = 2
  MaxRecords = 4
  MaxFails = 1
INVARIANTS
  EnforcedWhileFlapping
  ExpiredAreSwept
  DeletionsAccounted
PROPERTIES
  ImplementsPort
  Recovers
  CloseReturns
  PurgedOnPostgres
CHECK_DEADLOCK FALSE
