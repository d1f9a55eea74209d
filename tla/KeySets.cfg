SPECIFICATION MCSpec
CONSTANTS
  Req = {r1, r2}
  r1 = r1
  r2 = r2
  Name = {1, 2, 3, 4}
  None = None
  Serialized = TRUE
  MaxSets = 3
  QuarantineWindow = 1
  MaxOps = 3
  MaxId = 5
  MaxTime = 1
  Ops = {"create", "rename", "delete", "default", "visibility"}
  Procs = {p1, p2}
  Entries <- MCEntries
  Seeds <- MCSeeds
  Identifiers <- MCIdentifiers
  WholeTerms <- MCWholeTerms
  PartTerms <- MCPartTerms
  maxAmbiguousRunes = 2
  MaxInput = 3
  MaxEdits = 2
  MaxSeeds = 1
SYMMETRY Symmetry
INVARIANTS
  SetsAreIntact
  WeakerIsRecorded
  EditsSurvive
  NoReservedReading
CHECK_DEADLOCK FALSE
