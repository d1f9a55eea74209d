SPECIFICATION Spec
CONSTANTS
  Configs <- MCConfigs
  Faulty <- MCFaulty
  Jobs = {"purge", "grace"}
INVARIANTS
  DBOutlivesWork
  
PROPERTIES
  Exits
  SweepsGoOn
