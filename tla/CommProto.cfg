SPECIFICATION Spec
CONSTANTS
  Metas <- SomeMetas
  Usages = {"clear", "reuse", "grow"}
  StaticSizes = {0, 7}
  COMMPROTO_INITIAL_BUFSIZE = 1
  COMMPROTO_MAX_BUFSIZE = 6
  MB = 3
  MaxLen = 2
  MaxMessages <- Messages
INVARIANTS
  RoundTrip
  InStep
  NothingLeaked
CHECK_DEADLOCK FALSE
