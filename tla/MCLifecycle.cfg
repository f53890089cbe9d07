SPECIFICATION FairSpec
CONSTANTS
  Service = {auth, gateway, envoy}
  Client = {a, b, c}
INVARIANTS
  TypeOK
  CleanEnd
PROPERTIES
  StopEnds
CHECK_DEADLOCK FALSE
