SPECIFICATION MCSpec
CONSTANTS
  Owner = {o1, o2}
  None = None
  Name <- Names
  Skeleton <- Folds
  Req = {r1, r2}
  Sweeper = {w1}
  Replica = {p1, p2}
  Serialized = TRUE
  Legacies <- SomeTables
  MaxNames = 2
  QuarantineWindow = 1
  MaxId = 4
  MaxTime = 2
SYMMETRY Symmetry
INVARIANTS
  ExactlyOneActive
  SettlesAlone
PROPERTIES
  HoldProtectsName
CHECK_DEADLOCK FALSE
