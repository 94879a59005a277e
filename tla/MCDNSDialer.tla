---------------------------- MODULE MCDNSDialer -----------------------------
(* DNSDialer on small instances; the cfgs give the constants.              *)
EXTENDS DNSDialer, TLC

Symmetry == Permutations(Clients)
=============================================================================
