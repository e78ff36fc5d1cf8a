SPECIFICATION Spec
CONSTANTS
  MAX_LEFT_TIME = 6
  NEED_TIME_TO_WIN = 2
  WIN_COIN_CNT = 2
  MaxDie = 1
CHECK_DEADLOCK FALSE
INVARIANT TypeOK UnhurtWinnerHeld WinnerIsAnnounced
