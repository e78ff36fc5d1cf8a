CONSTANTS
  p = p
  q = q
  Client = {p, q}
  Worker = {v, w}
  MAX_BULLET = 2
  Shots <- MCShots
  MaxMsg = 2
  MaxFlush = 1
SPECIFICATION Spec
SYMMETRY Symmetry
INVARIANTS TypeOK SentOnce SentInOrder HandledInOrder OnlyExposedLost BulletsApart
CHECK_DEADLOCK FALSE
