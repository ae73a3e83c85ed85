-------------------------- MODULE MCTestThreadQueue --------------------------
(* The test program for TLC, or one in which one thread pushes, pops and   *)
(* notifies, another waits and a third waits for the stop.                 *)
EXTENDS TestThreadQueue, TLC

TestClients ==
  stopper :> {"wait_until_required_for_stop"} @@ fetcher :> {"wait"}
    @@ pusher :> {"push_one", "pop_all", "notify"}
=============================================================================
