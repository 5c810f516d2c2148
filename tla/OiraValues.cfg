SPECIFICATION Spec
CONSTANTS
  N = 3
  Degree = 3
  Bins = 3
  HashTo <- MCHashTo
  Draw <- MCDraw
  Confs <- PartyZeroValues
  NoResult = NoResult
INVARIANTS PartyZeroIgnoresValues
CHECK_DEADLOCK FALSE
