SPECIFICATION FairSpec
CONSTANTS
  Calls = {c1, c2}
  Names = {dot, a, b}
  Places = {1, 2, 3, 4}
  Dots = {dot}
  Undecodable = {b}
  Room = 2
  MaxChanges = 2
  Fds = {0, 1}
  CallbackMayThrow = FALSE
INVARIANTS CallbackOnce DescriptorForTheCall ListsStableNames
PROPERTY EveryCallReturns
