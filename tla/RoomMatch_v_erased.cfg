SPECIFICATION Spec
CONSTANTS
  c1 = c1
  c2 = c2
  Client = {c1, c2}
  MAX_LEFT_TIME = 6
  COUNTDOWN_TIME = 1
  NEED_TIME_TO_WIN = 2
  WIN_COIN_CNT = 2
  ADD_COIN_TIME = 1
  RESET_TIME = 2
  MAX_GEM_COUNT = 2
  MAX_COIN = 20
  LEFT_TIME_MOD = 8
  MaxReady = 1
  MaxDie = 0
  MaxInbox = 1
  MaxHold = 0
  MayLeave = TRUE
CHECK_DEADLOCK FALSE
INVARIANT ErasedOnlyWhenEmpty
