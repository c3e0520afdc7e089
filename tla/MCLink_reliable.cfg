CONSTANTS
  A = A
  B = B
  Peer <- Peers
  Workload <- ReliableOrSplit
  MTU = 4
  HEADER = 1
  SEND_RETRY_COUNT = 2
  ACK_BATCH = 1
  HistoryExpires = TRUE
  MaxPackets = 3
  MaxDatagrams = 3
  MaxLoss = 0
SPECIFICATION Spec
CHECK_DEADLOCK FALSE
INVARIANTS TypeOK BytesAccounted RecordMatchesWire AckedIsReceived ReliableIsKept ReceiptsAgree RetriesBounded
