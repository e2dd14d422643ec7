SPECIFICATION Spec
CONSTANTS
  Hosts = {h1, h2, h3, h4}
  KThreads = {k1}
  Timer = timer
  Idle = idle
  Host0 = host0
  Main = h1
  Kthreadd = k1
  MaxWork = 6
  None = None
INVARIANT NoUnbalancedPut
CHECK_DEADLOCK FALSE
