\* Two clients, one call at a time: it waits for a goroutine per client.
SPECIFICATION FairSpec
CONSTANTS
  c1 = c1
  c2 = c2
  p1 = p1
  s1 = s1
  Clients = {c1, c2}
  Callers = {p1}
  Slots = {s1}
  MaxRequestDuration = 1
  MaxVersion = 1
  MaxDials = 1
  MaxNow = 0
PROPERTIES ReturnMovesAll ReconnectReturns
CHECK_DEADLOCK FALSE
