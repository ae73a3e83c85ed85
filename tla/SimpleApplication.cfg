SPECIFICATION FairAppSpec
CONSTANTS
  SIGINT = SIGINT
  SIGPIPE = SIGPIPE
  SIGCHLD = SIGCHLD
  Unknown = Unknown
  Signal = {SIGINT, SIGPIPE, SIGCHLD}
  Uncatchable = {}
  Lists <- Example
  MaxCalls = 2
  WaitsItself = TRUE
  MaxSent = 2
  MaxChildren = 3
  MaxStops = 1
INVARIANTS
  ZombiesAreAwaited
  BlockedOnlyByStray
PROPERTY CriticalEnds
CHECK_DEADLOCK FALSE
