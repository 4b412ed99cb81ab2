SPECIFICATION FairSpec
CONSTANTS
  Producers = {p1, p2}
  MaxBlocks = 2
  None = None
INVARIANTS InOrder AllWritten
PROPERTIES EveryBlockWritten StopReturns
CHECK_DEADLOCK FALSE
