\* What README.md:216 says of a renewal that could not be saved.
SPECIFICATION Spec
CONSTANTS
  MaxSerial = 3
  AppUpdates = FALSE
  Refused <- MCRefused
  root = root
  signing = signing
  other = other
  partner = partner
  CAs = {root, signing, other}
  Issuer <- MCIssuer
  MyGaruCAChain = {root, signing}
  Partners = {partner}
INVARIANTS DiskSameAsInUse
CHECK_DEADLOCK FALSE
