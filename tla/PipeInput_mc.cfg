SPECIFICATION FairSpec
CONSTANTS
  packages_per_block = 2
  MaxPackages = 5
INVARIANTS StreamKept FullBlocksQueued
PROPERTY CompletionReturns
CHECK_DEADLOCK FALSE
