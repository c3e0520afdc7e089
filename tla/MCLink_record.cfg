CONSTANTS
  A = A
  B = B
  Peer <- Peers
  Workload <- Mixed
  MTU = 5
  HEADER = 1
  SEND_RETRY_COUNT = 2
  ACK_BATCH = 1
  HistoryExpires = FALSE
  MaxPackets = 3
  MaxDatagrams = 4
  MaxLoss = 0
SPECIFICATION Spec
CHECK_DEADLOCK FALSE
INVARIANTS ReliableIsKept
