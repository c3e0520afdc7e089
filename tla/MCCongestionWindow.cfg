CONSTANTS
  MTU = 8
  SSTHRESH = 24
  RTT_HISTORY_LEN = 3
  TICK = 5
  FIRST_RTO = 100
  Lengths <- TwoLengths
  Rtts <- ThreeRtts
  MaxWindow = 72
  MaxInFlight = 2
SPECIFICATION Spec
INVARIANTS TypeOK WindowNeverLimits RtoCoversHistory
PROPERTIES WindowFollowsFeedback
