SPECIFICATION MCSpec
CONSTANTS
  Cred = {c1, c2, c3}
  NoCred = NoCred
  Owner = {o1}
  Req = {r1, r2}
  AccessTokenLifetime = 1
  RefreshLineageLifetime = 2
  DenylistSkew = 1
  MaxTime = 3
SYMMETRY Symmetry
INVARIANTS
  RevokedIsDeadOnSqlite
  DenylistOutlivesTokens
  DeadlockLosesNoRevocation
PROPERTIES
  ImplementsLineage
