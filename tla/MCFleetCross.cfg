SPECIFICATION FairSpec
CONSTANTS
  a = a
  b = b
  c = c
  web = web
  d1 = d1
  d2 = d2
  Node = {a, b}
  Name = {web}
  Info = {cfg1}
  Data = {d1, d2}
  Hold = {1}
  DefaultHold = 1
  Linked <- Pair
  Command <- CrossTicks
  OneAtATime = FALSE
  MaxCommands = 2
  MaxFailures = 0
PROPERTIES
  QueueDrains
CHECK_DEADLOCK FALSE
