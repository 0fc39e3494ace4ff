CONSTANTS
  Plan <- MixedRoot
  Archive <- OneArchive
  Remote = {}
  Chunk = 2
  Interval = 2
  ArchiveInterval = 4
  MinChanges = 2
  WalInterval = 2
  MaxRuns = 1
  MaxEdits = 0
  Happens = {"fail", "cancel"}
SPECIFICATION FairSpec
CHECK_DEADLOCK FALSE
INVARIANT BoundedLoss
PROPERTY GetsCloser
PROPERTY RunEnds
