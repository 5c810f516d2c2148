SPECIFICATION FairSpec
CONSTANTS
  Proc = {p1, p2}
  Eps = {1, 2}
  EpsCap = 3
  QueryCap = 2
  HalfGrain = 1
  MaxInode = 2
  MaxFaults = 1
INVARIANTS TypeOK CapPerFault ExactAccount
PROPERTIES PeekIsCurrent EveryHolderLetsGo
