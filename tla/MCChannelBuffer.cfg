CONSTANTS
  SPAN = 10
  Spread = 3
  MaxMessages <- Messages
  MaxLost = 1
SPECIFICATION FairSpec
CHECK_DEADLOCK FALSE
INVARIANTS NothingWithheld
PROPERTIES DeliversInOrder EveryMessageArrives
