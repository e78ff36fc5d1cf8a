CONSTANTS
  a = a
  b = b
  c = c
  Client = {a, b, c}
  Room = {1}
  MayLeave = TRUE
SPECIFICATION Spec
INVARIANTS EnteredIsSeen
CHECK_DEADLOCK FALSE
