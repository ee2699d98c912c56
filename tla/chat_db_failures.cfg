SPECIFICATION Spec
CONSTANTS
  s1 = s1
  s2 = s2
  s3 = s3
  hello = hello
  bye = bye
  NoSocket = NoSocket
  NumUsers = 2
  Sessions = {s1, s2}
  Texts = {hello, bye}
  MaxMessageId = 1
  KeysOf <- OwnKeys
  InitRoles <- MCInitRoles
  InitMessages <- OneMessage
  WritesMayFail = TRUE
  ReadsMayFail = TRUE
  RequestKinds = {"ADD_MESSAGE", "USER_GET_PASSWORD_HALF", "DELETE_MESSAGE", "MODIFY_MESSAGE", "SET_NEW_MODERATOR"}
  MaxRequests <- OneByS1
  Closers = {s1}
CHECK_DEADLOCK FALSE
INVARIANTS LiveSessionsRegistered KeyHoldersOnly
