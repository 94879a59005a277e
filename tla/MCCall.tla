------------------------------- MODULE MCCall -------------------------------
(* Two callers over two connections of one pending request each.           *)
EXTENDS Call, TLC

CONSTANTS a, b

Spelled(form, uuid) == [form |-> form, uuid |-> uuid]
A == Spelled("canonical", a)
OtherA == Spelled("other", a)
B == Spelled("canonical", b)
AllZero == Spelled("canonical", Zero)

Message(kind, payer, rules, rest) ==
  [kind |-> kind, tracking |-> TRUE, payer |-> payer, rules |-> rules,
   rest |-> rest]

Symmetry == Permutations(Callers) \cup Permutations(Clients)

MCTexts == {NoText, B}

MCRequests ==
  { Message("target", NoText, <<>>, "none"),
    Message("target", NoText, <<OtherA, NoText>>, "some"),
    Message("target", NoText, <<A>>, "bad"),
    Message("report", A, <<NoText, B>>, "some"),
    Message("report", OtherA, <<AllZero, Malformed>>, "none"),
    Message("report", NoText, <<A, NilRule>>, "some"),
    [Message("report", B, <<>>, "some") EXCEPT !.tracking = FALSE],
    Message("touch", NoText, <<>>, "some") }

=============================================================================
