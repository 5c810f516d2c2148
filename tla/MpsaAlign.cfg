SPECIFICATION Spec
CONSTANTS
  N = 3
  W = 2
  Confs <- PlainOnly
  Inputs <- Files
  Seeds <- MCSeeds
  NoTable = NoTable
INVARIANT RowsAreOfOneId
CHECK_DEADLOCK FALSE
