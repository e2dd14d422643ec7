SPECIFICATION FairSpec
CONSTANTS
  Reqs = {1, 2, 3}
  None = none
  Num = 8
  IdxMod = 16
  Capacity = 2
  SectorMod = 2
  Kinds <- LastSector
INVARIANTS DescriptorsConserved NothingForgotten
PROPERTIES ImplementsBlkService EveryRequestCompletes
