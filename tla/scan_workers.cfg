CONSTANTS
  Threads = {t1, t2}
  Workers = {w1, w2}
  Roots = {folder}
  AllRoots = all
  NoRoot = NoRoot
  NoWorker = NoWorker
  MaxQueue = 1
  MaxRequests = 1
  MaxRestarts = 1
  Offered = {"start", "resume", "cancel"}
  Platforms = {"posix", "windows"}
  HardKills = TRUE
  ShellScans = TRUE
  BootOverlap = FALSE
SPECIFICATION Spec
SYMMETRY Symmetry
CHECK_DEADLOCK FALSE
INVARIANT OneWorker
