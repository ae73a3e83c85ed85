SPECIFICATION Spec
CONSTANTS
  SIGINT = SIGINT
  SIGPIPE = SIGPIPE
  SIGCHLD = SIGCHLD
  Unknown = Unknown
  SIGKILL = SIGKILL
  Signal = {SIGINT, SIGPIPE, SIGCHLD, SIGKILL}
  Uncatchable = {SIGKILL}
  Lists <- Registrations
  MaxChildren = 1
  MaxStops = 1
  MaxCalls = 3
  MaxSent = 1
INVARIANTS
  TypeOK
  CrashOnlyOfKept
  AllOrNothing
CHECK_DEADLOCK FALSE
