SPECIFICATION Spec
CONSTANTS
  p1 = p1
  p2 = p2
  o1 = o1
  o2 = o2
  k1 = k1
  k2 = k2
  Callers = {p1, p2}
  Objects = {o1, o2}
  Ctxs = {k1, k2}
  Messages <- MCMessages
  Answers <- MCAnswers
  MaxBytesSize = 2
  MaxCalls = 2
INVARIANTS TypeOK OwnAnswer
PROPERTY ServedOnce
CHECK_DEADLOCK FALSE
SYMMETRY Symmetry
