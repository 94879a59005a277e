\* One client, two concurrent calls of Reconnect, one request slot.
SPECIFICATION Spec
CONSTANTS
  c1 = c1
  p1 = p1
  p2 = p2
  s1 = s1
  Clients = {c1}
  Callers = {p1, p2}
  Slots = {s1}
  MaxRequestDuration = 2
  MaxVersion = 2
  MaxDials = 2
  MaxNow = 0
SYMMETRY Symmetry
INVARIANTS TypeOK SettledStaysSettled OpenIsReachable GracefulSpares
PROPERTIES SwitchSpec
CHECK_DEADLOCK FALSE
