SPECIFICATION MCSpec
CONSTANTS
  Builds <- MCBuilds
  Procs = {p1, p2}
  MaxRuns = 2
  Targets = {0, 4}
SYMMETRY Symmetry
CHECK_DEADLOCK FALSE
INVARIANTS
  SchemaMatchesLedger
  AcceptedIsServed
  LeakIsReported
  GuessesCost
PROPERTIES
  OthersKept
