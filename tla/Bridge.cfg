CONSTANTS
  Worker = worker
  KThreads = {k1}
  NoThread = nothread
  MaxOps = 4
  MaxReq = 2
  MayThrow = TRUE
SPECIFICATION FairSpec
INVARIANTS TypeOK CallReachesItsFrame AnswerReachesItsRequest ServedInOrder HaltIsSafe
PROPERTIES
  SlotNotOverwritten
  EveryOpServed
  ImplementsOpQueue
