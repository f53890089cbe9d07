SPECIFICATION FairSpec
CONSTANTS
  Node = {a, b}
  Hold = 3
  MinInterval = 1
  Late = 1
  MaxBackoff = 2
  Fault = {"break", "silence", "restart", "delete"}
  MaxFaults = 1
INVARIANTS
  TypeOK
  HealthyStaysUp
  DeadNoticed
PROPERTIES
  HalfOpenEnds
CHECK_DEADLOCK FALSE
