SPECIFICATION FairSpec
CONSTANTS
  a = a
  b = b
  c = c
  web = web
  d1 = d1
  d2 = d2
  Node = {a, b, c}
  Name = {web}
  Info = {cfg1}
  Data = {d1, d2}
  Hold = {1}
  DefaultHold = 1
  Linked <- Tail3
  Command <- Joining
  OneAtATime = TRUE
  MaxCommands = 4
  MaxFailures = 0
PROPERTIES
  QueueDrains
  Converges
  SessionsComeUp
CHECK_DEADLOCK FALSE
