------------------------------- MODULE MCSleeps -------------------------------
(* Units of two ticks, so that a sleep can be cut inside a unit.           *)
EXTENDS Sleeps

TwoTicks == [f \in Function |-> 2]
=============================================================================
