SPECIFICATION FairSpec
CONSTANTS
  u1 = u1
  u2 = u2
  p1 = p1
  p2 = p2
  Users <- TwoUsers
  Procs <- TwoProcs
  ProcOf <- Homes
  NoUser = NoUser
  NoPid = NoPid
  OldPid = OldPid
  MaxFiles = 4
  MaxFailures = 1
INVARIANTS
  TypeOK
  ExclusionIfCalm
  LockedMeansHeld
PROPERTIES
  AcquireEnds
CHECK_DEADLOCK FALSE
