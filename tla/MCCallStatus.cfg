SPECIFICATION Spec
CONSTANTS
  a = a
  b = b
  Payers = {a, b}
  Callers = {p1}
  Clients = {c1}
  Requests <- MCRequests
  Texts <- MCTexts
  Refusals = {"UNAUTHORIZED"}
  MaxPending = 1
  MaxCalls = 2
INVARIANT NotOKReached
CHECK_DEADLOCK FALSE
