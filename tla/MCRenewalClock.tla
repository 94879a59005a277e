--------------------------- MODULE MCRenewalClock ---------------------------
(* A few certificates, and every time the CA can take or fail.             *)
EXTENDS RenewalClock
=============================================================================
