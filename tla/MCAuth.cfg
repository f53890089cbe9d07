SPECIFICATION AuthSpec
CONSTANTS
  r1 = r1
  d = d
  n = n
  Rotator = {r1}
  MaxKeys = 3
  Ttl = 5
  CheckEvery = 1
  Domain = d
  NodeName = n
  TrustedDomains = {d}
  TrustedNodes = {n}
INVARIANTS
  TokensHonoured
  RestartLosesNothing
  RetiredStaysRetired
  NodeTokenFresh
PROPERTIES
  ValidIsAccepted
  RevokedIsRefused
