SPECIFICATION Spec
CONSTANTS
  s1 = s1
  s2 = s2
  s3 = s3
  hello = hello
  bye = bye
  NoSocket = NoSocket
  NumUsers = 2
  Sessions = {s1, s2}
  Texts = {hello}
  MaxMessageId = 1
  KeysOf <- OwnKeys
  InitRoles <- ModeratorRoles
  InitMessages <- NoMessages
  WritesMayFail = FALSE
  ReadsMayFail = FALSE
  RequestKinds = {"DELETE_MODERATOR"}
  MaxRequests <- OneByS1
  Closers = {}
CHECK_DEADLOCK FALSE
INVARIANT DismissalLasts
