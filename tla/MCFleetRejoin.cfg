SPECIFICATION Spec
CONSTANTS
  a = a
  b = b
  c = c
  web = web
  d1 = d1
  d2 = d2
  Node = {a, b}
  Name = {web}
  Info = {cfg1}
  Data = {d1, d2}
  Hold = {1}
  DefaultHold = 1
  Linked <- Pair
  Command <- Rejoining
  OneAtATime = FALSE
  MaxCommands = 3
  MaxFailures = 0
INVARIANTS
  SettledReach
CHECK_DEADLOCK FALSE
