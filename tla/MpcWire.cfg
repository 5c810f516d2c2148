SPECIFICATION FairSpec
CONSTANTS
  Job <- MCJob
  Program <- MCProgram
  Input <- MCInput
  Seed = {0, 1}
  Mask <- MCMask
  TripleAt <- MCTripleAt
  Size <- MCSize
INVARIANTS TypeOK SharesJoin OutputRight CostExact
PROPERTY BothEnd
CHECK_DEADLOCK FALSE
