SPECIFICATION FairSpec
CONSTANTS
  Hosts = {h1, h2, h3}
  Timers = {t1}
  Idle = idle
  None = none
  MAX_THREADS = 10
  UintMod = 16
  MaxOps = 1
INVARIANTS MutualExclusion NoLostWakeup NoIrqLost NoUseAfterFree
PROPERTY EveryGetReturns
