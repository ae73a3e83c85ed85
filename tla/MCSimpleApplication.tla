------------------------- MODULE MCSimpleApplication -------------------------
(* The example's lists, cut down to one signal of each kind.               *)
EXTENDS SimpleApplication

CONSTANTS SIGINT, SIGPIPE

Example == {[critical |-> <<SIGINT>>, plain |-> <<SIGCHLD, SIGPIPE>>]}
=============================================================================
