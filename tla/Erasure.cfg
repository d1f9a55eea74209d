SPECIFICATION Spec
CONSTANTS
  Eraser = {e1, e2}
  OwnerId = "owner"
  Tables <- Tables2
  Admin = "admin"
  Label = "label"
  None = "none"
  Deletable = {"handle"}
  MaxRuns = 2
  MaxFails = 1
  MaxAppends = 1
SYMMETRY Symmetry
INVARIANTS
  NoHalfErasedRecord
  ColumnsErased
CHECK_DEADLOCK FALSE
