\* Two connections, two addresses, the name changing and failing to resolve.
SPECIFICATION FairSpec
CONSTANTS
  c1 = c1
  c2 = c2
  Clients = {c1, c2}
  Addrs = {1, 2}
  NextBound = 2
PROPERTIES SettlesWhenQuiet
