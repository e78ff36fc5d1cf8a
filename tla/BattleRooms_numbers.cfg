SPECIFICATION Spec
CONSTANTS
  Null = Null
  MAX_ROOM = 1
  MaxUser = 3
  Asked <- Pairs
CHECK_DEADLOCK FALSE
INVARIANTS
  NumberComesBack
  LastLeaverErases
