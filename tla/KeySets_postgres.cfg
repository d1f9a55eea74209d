SPECIFICATION Spec
CONSTANTS
  Req = {r1, r2}
  Name = {1, 2, 3}
  None = None
  Serialized = FALSE
  MaxSets = 3
  QuarantineWindow = 1
  MaxOps = 2
  MaxId = 3
  MaxTime = 0
  Ops = {"rename", "default", "visibility"}
INVARIANTS
  TombstonesStayDown
CHECK_DEADLOCK FALSE
