SPECIFICATION FairSpec
CONSTANTS
  readStep = 3
  Bytes = {0, 4}
  Writes = {1, 2, 4}
  PartialWrites = TRUE
  MaxSize = 6
PROPERTIES ReadReturns
