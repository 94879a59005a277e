----------------------------- MODULE AtMostOnce -----------------------------
(***************************************************************************)
(* What doUnary (pkg/client/client.go:84-128) and the server promise a     *)
(* caller between them: a request is served whole and at most once, a call *)
(* that got an answer got the one to its own request, which was served,    *)
(* and a call that failed says nothing of whether it was, or still will    *)
(* be.                                                                     *)
(*                                                                         *)
(* Calls are numbered in the order they are made.                          *)
(***************************************************************************)
EXTENDS Naturals, Sequences

CONSTANTS
  Callers,          \* goroutines, each with one call at a time
  Messages,         \* what they ask
  Answers           \* [Messages -> what is answered]

VARIABLES
  asked,            \* what was asked, by number of the call
  under,            \* [Callers -> the number of the call under way, 0: none]
  served,           \* what was served, in order: call n as if it asked m, <<n, m>>
  told              \* [Callers -> the answer to the last call, if any]

vars == <<asked, under, served, told>>

Numbers == {served[i][1] : i \in DOMAIN served}

Init ==
  /\ asked = <<>> /\ served = <<>>
  /\ under = [p \in Callers |-> 0] /\ told = [p \in Callers |-> <<>>]

Ask(p, m) ==
  /\ under[p] = 0
  /\ asked' = Append(asked, m)
  /\ under' = [under EXCEPT ![p] = Len(asked')]
  /\ told' = [told EXCEPT ![p] = <<>>]
  /\ UNCHANGED served

(* Also when the caller has given up.                                      *)
Serve(n) ==
  /\ n \notin Numbers
  /\ served' = Append(served, <<n, asked[n]>>)
  /\ UNCHANGED <<asked, under, told>>

Return(p, answer) ==
  /\ under[p] # 0
  /\ under' = [under EXCEPT ![p] = 0]
  /\ told' = [told EXCEPT ![p] = answer]
  /\ UNCHANGED <<asked, served>>

Answer(p) == under[p] \in Numbers /\ Return(p, <<Answers[asked[under[p]]]>>)

GiveUp(p) == Return(p, <<>>)

Next ==
  \/ \E p \in Callers : (\E m \in Messages : Ask(p, m)) \/ Answer(p) \/ GiveUp(p)
  \/ \E n \in 1..Len(asked) : Serve(n)

Spec == Init /\ [][Next]_vars

(* No call is served twice, and none but as it was asked.                  *)
Once ==
  /\ \A i \in DOMAIN served :
       served[i][1] \in 1..Len(asked) /\ served[i][2] = asked[served[i][1]]
  /\ \A i, j \in DOMAIN served : i # j => served[i][1] # served[j][1]
=============================================================================
