SPECIFICATION MCSpec
CONSTANTS
  Key = {k1, k2, k3}
  NoKey = NoKey
  KeySet = {s1}
  Req = {r1, r2}
  Sweeper = {w1}
  GraceWindow = 1
  Batch = 1
  MaxTime = 3
  Pairing = {p1}
  Owner = {o1, o2}
  Nobody = Nobody
  Lineage = {1, 2}
  PairingLifetime = 1
  PairingPollInterval = 1
  MaxApprovalAttempts = 1
  MaxTicks = 1
SYMMETRY Symmetry
INVARIANTS
  LapsesOnSqlite
  HandedIsRecorded
  DeliveredToApprover
  NoStrayLineage
CHECK_DEADLOCK FALSE
