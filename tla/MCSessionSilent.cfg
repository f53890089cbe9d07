SPECIFICATION Spec
CONSTANTS
  Node = {a, b}
  Hold = 3
  MinInterval = 1
  Late = 1
  MaxBackoff = 2
  Fault = {"silence"}
  MaxFaults = 1
INVARIANTS
  HoldTimeKept
CHECK_DEADLOCK FALSE
