SPECIFICATION RestartSpec
CONSTANTS
  s1 = s1
  s2 = s2
  s3 = s3
  hello = hello
  bye = bye
  NoSocket = NoSocket
  NumUsers = 2
  Sessions = {s1, s2}
  Texts = {hello}
  MaxMessageId = 4
  KeysOf <- OwnKeys
  InitRoles <- ModeratorRoles
  InitMessages <- ThreeMessages
  WritesMayFail = FALSE
  ReadsMayFail = FALSE
  RequestKinds = {"ADD_MESSAGE", "DELETE_MESSAGE", "DELETE_MODERATOR"}
  MaxRequests <- OneEach
  Closers = {}
  MaxRestarts = 1
CHECK_DEADLOCK FALSE
INVARIANTS TypeOK BroadcastsReplayStore IdsNeverReused MessageListsComplete ToldIsStored ModerationAuthorised
