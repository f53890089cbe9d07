SPECIFICATION FairSpec
CONSTANTS
  Node = {a, b}
  Hold = 3
  MinInterval = 1
  Late = 1
  MaxBackoff = 2
  Fault = {"break"}
  MaxFaults = 1
PROPERTIES
  ExpiredIsDialled
CHECK_DEADLOCK FALSE
