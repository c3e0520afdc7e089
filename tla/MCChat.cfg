SPECIFICATION FairSpec
CONSTANTS
  ann = ann
  bob = bob
  Server = Server
  Client <- MCClient
  MaxSessions = 2
  MaxInputs <- MCMaxInputs
INVARIANTS
  UsersFollowNotices
  SaidByNick
  OneConversation
PROPERTIES
  SpeakerHears
CHECK_DEADLOCK FALSE
