SPECIFICATION FairSpec
CONSTANTS
  Calls = {c1, c2}
  Tools = {ask, free}
  Level2 = {ask}
  Allow = Allow
  AlwaysAllow = AlwaysAllow
  Answers = {Allow, AlwaysAllow, Deny}
  Timeout = Timeout
  None = None
  MaxThreads = 2
  Limit = 1
  MaxEvents = 2
INVARIANTS
  TypeOK
  KillHolds
  ApprovedOnly
  BoundedOverrun
PROPERTIES
  IsOneDecision
  CallsEnd
CHECK_DEADLOCK FALSE
