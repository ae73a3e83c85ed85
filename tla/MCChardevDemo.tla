----------------------------- MODULE MCChardevDemo -----------------------------
(* Threads for TLC; those of a kind may be exchanged.                      *)
EXTENDS ChardevDemo, TLC

Exchange == Permutations(Prober) \cup Permutations(Opener)
=============================================================================
