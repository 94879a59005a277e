SPECIFICATION Spec
CONSTANTS
  a = a
  b = b
  Payers = {a, b}
  Callers = {p1, p2}
  Clients = {c1, c2}
  Requests <- MCRequests
  Texts <- MCTexts
  Refusals = {"UNAUTHORIZED"}
  MaxPending = 1
  MaxCalls = 3
INVARIANTS TypeOK KeepsNamed NothingUnpaid Accounted SuccessReached
CHECK_DEADLOCK FALSE
SYMMETRY Symmetry
