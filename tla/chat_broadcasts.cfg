SPECIFICATION Spec
CONSTANTS
  s1 = s1
  s2 = s2
  s3 = s3
  hello = hello
  bye = bye
  NoSocket = NoSocket
  NumUsers = 2
  Sessions = {s1, s3}
  Texts = {hello}
  MaxMessageId = 2
  KeysOf <- SharedKeys
  InitRoles <- MCInitRoles
  InitMessages <- NoMessages
  WritesMayFail = FALSE
  ReadsMayFail = FALSE
  RequestKinds = {"ADD_MESSAGE"}
  MaxRequests <- OneEach
  Closers = {s1}
CHECK_DEADLOCK FALSE
PROPERTY ImplementsGroupBroadcast
