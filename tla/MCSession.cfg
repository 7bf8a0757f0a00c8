SPECIFICATION FairSpec
CONSTANTS
  Chatter <- Talk
  Window = 4
  Meetings <- Encounters
INVARIANTS
  MembersOnly
  SyncBegins
PROPERTIES
  SealsAreSound
  HandshakeSettles
CHECK_DEADLOCK FALSE
