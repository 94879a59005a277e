SPECIFICATION Spec
CONSTANTS
  granted = granted
  other = other
  root = root
  signing = signing
  Conns = {c1, c2}
  Ctxs = {k1, k2}
  CAs = {root, signing}
  Issuer <- MCIssuer
  MyGaruCAChain = {root, signing}
  Certs <- MCCerts
  Partners = {granted, other}
  Requests <- MCRequests
  Config <- MCConfig
  Auth <- MCAuth
  MaxRequests = 2
INVARIANTS TypeOK ServedIsCertified TouchGranted AnswersOwn ReportsAccepted
CHECK_DEADLOCK FALSE
SYMMETRY Symmetry
