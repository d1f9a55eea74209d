SPECIFICATION MCSpec
CONSTANTS
  Device = {d1, d2}
  Key = {k1, k2}
  SetId = {1, 2, 3}
  Reader = {r1}
  Req = {q1, q2}
  None = None
  Deletes = TRUE
  MaxCommits = 3
SYMMETRY Symmetry
INVARIANTS
  GatesHeld
  RevokedStaysUnserved
