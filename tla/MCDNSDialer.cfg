\* Three connections over two addresses: the share is not whole.
SPECIFICATION Spec
CONSTANTS
  c1 = c1
  c2 = c2
  c3 = c3
  Clients = {c1, c2, c3}
  Addrs = {1, 2}
  NextBound = 2
SYMMETRY Symmetry
INVARIANTS TypeOK SomewhereToDial KeepsShare
