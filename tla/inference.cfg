SPECIFICATION FairSpec
CONSTANTS
  N = 4
  Cap = 2
  MaxCrashes = 2
INVARIANTS
  TypeOK
  
  StopHolds
PROPERTIES
  Revived
  
CHECK_DEADLOCK FALSE
