SPECIFICATION FairSpec
CONSTANTS
  N = 3
  W = 2
  Confs <- MCConfs
  Inputs <- Files
  Seeds <- MCSeeds
  NoTable = NoTable
INVARIANTS TypeOK CascadeShares
PROPERTIES Implements AllEnd
CHECK_DEADLOCK FALSE
