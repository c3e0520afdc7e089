CONSTANTS
  A = A
  B = B
  Peer <- Peers
  Workload <- ReliableOneWay
  MTU = 4
  HEADER = 1
  SEND_RETRY_COUNT = 2
  ACK_BATCH = 1
  HistoryExpires = FALSE
  MaxPackets = 1
  MaxDatagrams = 5
  MaxLoss = 1
SPECIFICATION FairSpec
CHECK_DEADLOCK FALSE
PROPERTIES ArrivesUnlessLost AcksLeave
INVARIANTS AtMostOnce
