SPECIFICATION Spec
CONSTANTS
  t1 = t1
  t2 = t2
  t3 = t3
  NoThread = NoThread
  Thread = {t1, t2, t3}
  Client <- DataClients
  Flags = {"NOTIFY_NONE"}
  MaxCalls = 3
  MaxBatch = 2
  MaxSpurious = 1
INVARIANTS
  TypeOK
  CountIsExact
  Fifo
PROPERTY Linearizable
CHECK_DEADLOCK FALSE
