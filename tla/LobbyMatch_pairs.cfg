SPECIFICATION FairSpec
CONSTANTS
  MaxUser = 3
  Mmr = {1}
  mmr_hard_gap = 2
  MaxWait = 1
  MaxFinds <- Finds
CHECK_DEADLOCK FALSE
INVARIANTS
  PairedOnce
  PairsAreTold
PROPERTY
  WaitersAreMatched
