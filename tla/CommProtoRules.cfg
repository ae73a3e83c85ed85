SPECIFICATION Spec
CONSTANTS
  Metas <- ArraysInStructs
  Usages = {"rules"}
  StaticSizes = {7}
  COMMPROTO_INITIAL_BUFSIZE = 1
  COMMPROTO_MAX_BUFSIZE = 1
  MB = 3
  MaxLen = 2
  MaxMessages <- Messages
INVARIANT ReuseIsSafe
CHECK_DEADLOCK FALSE
