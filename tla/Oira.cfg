SPECIFICATION FairSpec
CONSTANTS
  N = 3
  Degree = 3
  Bins = 3
  HashTo <- MCHashTo
  Draw <- MCDraw
  Confs <- MCConfs
  NoResult = NoResult
INVARIANTS TypeOK
PROPERTIES Implements WaitsOnlyBehindEarlyReturn
CHECK_DEADLOCK FALSE
