SPECIFICATION Spec
CONSTANTS
  a = a
  b = b
  c = c
  web = web
  d1 = d1
  d2 = d2
  Node = {a, b, c}
  Name = {web}
  Info = {cfg1}
  Data = {d1, d2}
  Hold = {1}
  DefaultHold = 1
  Linked <- Triangle
  Command <- Meshed
  OneAtATime = FALSE
  MaxCommands = 4
  MaxFailures = 2
INVARIANTS
  TypeOK
  PathsAreWalks
  CallsMatched
  SettledReach
  SettledSupported
CHECK_DEADLOCK FALSE
