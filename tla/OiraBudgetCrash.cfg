SPECIFICATION Spec
CONSTANTS
  Proc = {p1, p2}
  Eps = {1}
  EpsCap = 2
  QueryCap = 2
  HalfGrain = 0
  MaxInode = 1
  MaxFaults = 1
INVARIANTS ChargesSurviveCrashes
