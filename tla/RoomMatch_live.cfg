SPECIFICATION FairSpec
CONSTANTS
  c1 = c1
  c2 = c2
  Client = {c1, c2}
  MAX_LEFT_TIME = 4
  COUNTDOWN_TIME = 1
  NEED_TIME_TO_WIN = 1
  WIN_COIN_CNT = 1
  ADD_COIN_TIME = 1
  RESET_TIME = 2
  MAX_GEM_COUNT = 2
  MAX_COIN = 3
  LEFT_TIME_MOD = 8
  MaxReady = 1
  MaxDie = 1
  MaxInbox = 1
  MaxHold = 1
  MayLeave = FALSE
CHECK_DEADLOCK FALSE
INVARIANTS
  TypeOK
PROPERTIES
  BothReadyStarts
  MatchEnds
  ResetFollows
