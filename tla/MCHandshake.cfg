CONSTANTS
  CONNECT_RETRY_COUNT = 2
  Pins <- AllPins
  Security <- AllSecurity
  MaxConnects = 2
  MaxIncoming = 2
  MaxSetups = 3
  MaxLinks = 1
  MaxWire = 2
  MaxCopies = 1
SPECIFICATION FairSpec
CHECK_DEADLOCK FALSE
INVARIANTS TypeOK ReportedOnce KeysAgree IdentityVerified
PROPERTIES UnpinnedEnds
