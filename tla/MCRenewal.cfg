\* Five certificates in turn, two of which the client refuses.
SPECIFICATION FairSpec
CONSTANTS
  MaxSerial = 5
  AppUpdates = TRUE
  Refused <- MCRefused
  root = root
  signing = signing
  other = other
  partner = partner
  CAs = {root, signing, other}
  Issuer <- MCIssuer
  MyGaruCAChain = {root, signing}
  Partners = {partner}
INVARIANTS TypeOK KeyFirst OnlyUsable InUseIsOnDisk
PROPERTIES RestartNotOlder EventuallyRenewed FetchEnds RenewsForward
CHECK_DEADLOCK FALSE
