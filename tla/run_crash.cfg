CONSTANTS
  Plan <- TwoRoots
  Archive <- OneArchive
  Remote = {2}
  Chunk = 2
  Interval = 1
  ArchiveInterval = 2
  MinChanges = 2
  WalInterval = 2
  MaxRuns = 2
  MaxEdits = 1
  Happens = {"all", "resume", "force", "fail", "raise", "cancel", "crash", "edit", "remove"}
SPECIFICATION Spec
CHECK_DEADLOCK FALSE
INVARIANT TypeOK
 
 
PROPERTY IsProcess
