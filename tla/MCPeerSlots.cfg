CONSTANTS
  a1 = a1
  a2 = a2
  i1 = i1
  None = None
  Slots = 2
  Incoming = 1
  Remote <- Remotes
  MaxPosted = 1
SPECIFICATION FairSpec
CHECK_DEADLOCK FALSE
INVARIANTS EstablishedIsFound NoticesPaired
PROPERTIES DisconnectEnds
