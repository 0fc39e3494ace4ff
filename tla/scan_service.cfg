CONSTANTS
  Threads = {t1, t2}
  Workers = {w1, w2}
  Roots = {folder}
  AllRoots = all
  NoRoot = NoRoot
  NoWorker = NoWorker
  MaxQueue = 1
  MaxRequests = 2
  MaxRestarts = 1
  Offered = {"start", "resume", "consume", "dismiss", "edit"}
  Platforms = {"posix"}
  HardKills = FALSE
  ShellScans = FALSE
  BootOverlap = TRUE
SPECIFICATION Spec
SYMMETRY Symmetry
CHECK_DEADLOCK FALSE
INVARIANT TypeOK
INVARIANT JobHasBridge
INVARIANT LaunchedOnce
 
