------------------------- MODULE MCSocketSupplements -------------------------
(* A message that does not fit into the kernel at once, received in pieces *)
(* that do not divide it.                                                  *)
EXTENDS SocketSupplements
=============================================================================
