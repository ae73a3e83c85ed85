--------------------------- MODULE MCSignalHandling ---------------------------
(* Signals and lists of signals for TLC.                                   *)
EXTENDS SignalHandling

CONSTANTS SIGINT, SIGPIPE, SIGKILL

Registrations ==
  [critical : {<<SIGINT>>, <<SIGINT, SIGKILL>>, <<SIGCHLD, SIGINT>>},
   plain : {<<>>, <<SIGPIPE, SIGCHLD>>, <<SIGPIPE, Unknown>>}]
=============================================================================
