SPECIFICATION Spec
CONSTANTS
  s1 = s1
  s2 = s2
  s3 = s3
  hello = hello
  bye = bye
  NoSocket = NoSocket
  NumUsers = 2
  Sessions = {s1, s2}
  Texts = {hello}
  MaxMessageId = 1
  KeysOf <- OwnKeys
  InitRoles <- MCInitRoles
  InitMessages <- NoMessages
  WritesMayFail = FALSE
  ReadsMayFail = FALSE
  RequestKinds = {"ADD_MESSAGE"}
  MaxRequests <- OneByS1
  Closers = {}
CHECK_DEADLOCK FALSE
INVARIANT AllMessagesSent
