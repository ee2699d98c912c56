SPECIFICATION Spec
CONSTANTS
  hello = hello
  bye = bye
  NoSocket = NoSocket
  NumUsers = 3
  Sessions = {}
  Texts = {hello, bye}
  MaxMessageId = 2
  InitRows <- OneRow
  Members <- ThreeMembers
  Authors = {2}
  MaxPublished = 2
  MaxBlocks = 3
CHECK_DEADLOCK FALSE
INVARIANTS TypeOK RowMapAgrees WindowFollowsStore ListsFollowRequests
PROPERTY ArrivalsAreRead
