SPECIFICATION FairLimiterSpec
CONSTANTS
  Connections = {q1, q2, q3, q4}
  Size = 2
  MaxPanics = 3
INVARIANTS SlotsAccounted
PROPERTIES NeverWedged
