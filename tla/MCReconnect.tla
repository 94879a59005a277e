---------------------------- MODULE MCReconnect -----------------------------
(* Reconnect on small instances; the cfgs give the constants.              *)
EXTENDS Reconnect, TLC

Symmetry == Permutations(Callers) \cup Permutations(Slots)
=============================================================================
