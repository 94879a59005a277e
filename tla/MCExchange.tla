----------------------------- MODULE MCExchange -----------------------------
(* Two callers on one connection.  A value of two bytes is at the limit;   *)
(* one request is over it, and so is the answer to another.                *)
EXTENDS Exchange, TLC

CONSTANTS p1, p2, o1, o2, k1, k2

Symmetry ==
  Permutations(Callers) \cup Permutations(Objects) \cup Permutations(Ctxs)

TLVOf(head, value) == [head |-> head, value |-> value]

Target == TLVOf(1, <<11, 12>>)
Report == TLVOf(2, <<21>>)
Large == TLVOf(1, <<11, 12, 13>>)
LargeAnswer == TLVOf(3, <<31>>)

MCMessages == {Target, Report, Large, LargeAnswer}

MCAnswers ==
  [m \in MCMessages |->
     CASE m = Target -> TLVOf(1, <<101, 102>>)
       [] m = Report -> TLVOf(2, <<103>>)
       [] m = Large -> TLVOf(1, <<>>)
       [] m = LargeAnswer -> TLVOf(1, <<104, 105, 106>>)]

=============================================================================
