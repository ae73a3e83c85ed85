SPECIFICATION Spec
CONSTANTS
  MsgLen = 5
  RecvLen = 3
  Capacity = 2
  MaxInterrupts = 2
INVARIANTS
  StreamIntact
  EndTellsTruth
  ConnectTellsTruth
  ReadyMeansProgress
  NoFdLost
PROPERTY ProgramsEnd
CHECK_DEADLOCK FALSE
