SPECIFICATION MCSpec
CONSTANTS
  Timer = "timer"
  Manual = "manual"
  Keys <- MCKeys
  UserLines = {"added"}
  Files <- MCFiles
  MaxFileBytes = 6
  MaxPublishes = 1
  MaxEdits = 1
  MaxFaults = 1
  Lifetime = 12
  RenewFraction = 3
  SelfSignedRenewBefore = 1
  CheckInterval = 1
  BackoffMin = 1
  BackoffMax = 4
  BackoffFactor = 2
  MaxFailures = 3
  MaxCrashes = 3
  PromptFailures = 2
INVARIANTS
  OwnLinesKept
  NeverLapses
PROPERTIES
  Converges
  OrderedOnlyWhenDue
  ServesAgain
