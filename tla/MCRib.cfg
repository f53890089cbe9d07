SPECIFICATION FairSpec
CONSTANTS
  self = self
  a = a
  b = b
  c = c
  Node = {self, a, b, c}
  Self = self
  Peer = {a, b}
  Name = {web}
  Info = {cfg1}
  Data = {d1}
  Hold = {0}
  DefaultHold = 1
  Path <- MCPath
  MaxItems = 2
  MaxTime = 4
  LastEvent = 2
INVARIANTS
  TypeOK
  OneRoutePerKey
  StaleHasPeer
PROPERTIES
  ChangesDescribeDelta
  LossIsIsolated
  NoEarlyExpiry
  StalePurged
