CONSTANTS
  Threads = {t1, t2}
  Workers = {w1, w2}
  Roots = {all}
  AllRoots = all
  NoRoot = NoRoot
  NoWorker = NoWorker
  MaxQueue = 1
  MaxRequests = 2
  MaxRestarts = 0
  Offered = {"start"}
  Platforms = {"posix"}
  HardKills = FALSE
  ShellScans = FALSE
  BootOverlap = TRUE
SPECIFICATION FairSpec
CHECK_DEADLOCK FALSE
PROPERTY JobEnds
PROPERTY ServedAfterJob
