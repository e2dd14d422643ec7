SPECIFICATION FairSpec
CONSTANTS
  Hosts = {h1, h2}
  KThreads = {k1, k2}
  Timer = timer
  Idle = idle
  Host0 = host0
  Main = h1
  Kthreadd = k1
  MaxWork = 6
  None = None
INVARIANTS OneThreadRuns SwitchFinished NoFreedSemaphore
PROPERTY EveryCallLeaves
CHECK_DEADLOCK FALSE
