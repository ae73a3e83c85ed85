---------------------------- MODULE MCThreadQueue ----------------------------
(* Clients of the thread queue for TLC.                                    *)
EXTENDS ThreadQueue, TLC

CONSTANTS t1, t2, t3

\* All that moves items, with two threads that can pop at the same time, and one that waits.
DataClients ==
  t1 :> {"push_many", "pop_some"} @@ t2 :> {"push_one", "wait_until_required_for_stop"}
    @@ t3 :> PopOp \cup {"push_many_with"}
=============================================================================
