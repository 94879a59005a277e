----------------------------- MODULE CertSwitch -----------------------------
(***************************************************************************)
(* What a ShardedClient promises about the certificate its connections     *)
(* present, as pkg/client/shardedClient.go:73-83 puts it: connections keep *)
(* the certificate they were established with until Reconnect, which moves *)
(* them onto the CertProvider's current one.                               *)
(*                                                                         *)
(* Certificates are numbered in the order they became current.  floor[c]   *)
(* is the oldest certificate client c may still be seen with: Reconnect,   *)
(* as it returns, raises it to the certificate that was current when it    *)
(* was called.                                                             *)
(***************************************************************************)
EXTENDS Naturals

CONSTANT Clients    \* the single-connection clients of a ShardedClient

VARIABLES
  current,          \* the certificate the CertProvider holds
  floor,            \* [Clients -> Nat] the oldest certificate still allowed
  served            \* [Clients -> Nat] presented by the open connection, 0: none

vars == <<current, floor, served>>

Init == /\ current = 1
        /\ floor = [c \in Clients |-> 0]
        /\ served = [c \in Clients |-> 0]

Update == /\ current' = current + 1
          /\ UNCHANGED <<floor, served>>

(* A connection may be established with a certificate that was replaced    *)
(* while it was handshaking, but never with one below the floor.           *)
Establish(c) == /\ served[c] = 0
                /\ \E v \in floor[c]..current :
                     v > 0 /\ served' = [served EXCEPT ![c] = v]
                /\ UNCHANGED <<current, floor>>

Lose(c) == /\ served' = [served EXCEPT ![c] = 0]
           /\ UNCHANGED <<current, floor>>

(* A Reconnect has settled client c: nothing older than v is open on it.   *)
Settle(c) == /\ \E v \in floor[c]..current :
                  /\ served[c] = 0 \/ served[c] >= v
                  /\ floor' = [floor EXCEPT ![c] = v]
             /\ UNCHANGED <<current, served>>

Next == \/ Update
        \/ \E c \in Clients : Establish(c) \/ Lose(c) \/ Settle(c)

Spec == Init /\ [][Next]_vars

(* No open connection presents a certificate older than the last settled   *)
(* Reconnect was called with.                                              *)
Moved == \A c \in Clients : served[c] # 0 => served[c] \in floor[c]..current
=============================================================================
