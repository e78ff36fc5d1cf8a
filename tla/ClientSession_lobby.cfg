CONSTANTS
  a = a
  b = b
  c = c
  Client = {a, b, c}
  Room = {1}
  MayLeave = TRUE
SPECIFICATION FairSpec
INVARIANTS TypeOK CrashOnlyIfHasty StrayOnlyFirst AnnouncedSeen
PROPERTIES PlaysWithBoth ReadyPairPlays
CHECK_DEADLOCK FALSE
