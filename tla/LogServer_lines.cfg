SPECIFICATION Spec
CONSTANTS
  readStep = 3
  Bytes = {0, 4}
  Writes = {1, 2, 4}
  PartialWrites = FALSE
  MaxSize = 9
INVARIANTS TypeOK PositionsAligned NothingMissed NothingTwice ShortLinesNeverFail
PROPERTIES ImplementsView
