SPECIFICATION FairSpec
CONSTANT MaxFrames = 2
INVARIANTS TypeOK InOrder FinalMeansAll MutuallyTrusted
PROPERTIES NoEndIsLeftWaiting
CHECK_DEADLOCK FALSE
