SPECIFICATION Spec
CONSTANTS
  self = self
  a = a
  web = web
  d1 = d1
  cfg1 = cfg1
  Node = {self, a}
  Name = {web}
  Info = {cfg1}
  Data = {d1}
  Hold = {1}
  DefaultHold = 2
  Self = self
  Happens <- MCHappens
  MinEntries = 2
  TailSize = {0, 1}
  MaxSeq = 5
  MaxTime = 3
INVARIANTS
  ConfigDurable
  StateDurable
