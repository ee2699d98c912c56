SPECIFICATION FairSpec
CONSTANTS
  s1 = s1
  s2 = s2
  s3 = s3
  hello = hello
  bye = bye
  NoSocket = NoSocket
  NumUsers = 2
  Sessions = {s1, s3}
  Texts = {hello}
  MaxMessageId = 1
  KeysOf <- SharedKeys
  InitRoles <- MCInitRoles
  InitMessages <- NoMessages
  WritesMayFail = FALSE
  ReadsMayFail = FALSE
  RequestKinds = {"ADD_MESSAGE"}
  MaxRequests <- OneByS1
  Closers = {s1}
CHECK_DEADLOCK FALSE
INVARIANT FinishedSessionsLeave
PROPERTIES ClosedSessionsEnd LoginIsSettled MessagesAreStored
