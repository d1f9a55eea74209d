SPECIFICATION Spec
CONSTANTS
  Device = {d1}
  Key = {k1}
  SetId = {1, 2}
  Reader = {r1}
  Req = {q1}
  None = None
  Deletes = FALSE
  MaxCommits = 0
INVARIANTS
  RevokedDeviceIsSilent
