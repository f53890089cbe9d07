SPECIFICATION PortsSpec
CONSTANTS
  self = self
  a = a
  b = b
  c = c
  web = web
  db = db
  cam = cam
  cfg1 = cfg1
  Node = {self, a, b, c}
  Name = {web, db, cam}
  Info = {cfg1}
  Data = {"unset", "p1", "p2"}
  Hold = {1}
  DefaultHold = 1
  Self = self
  Happens <- MCHappens
  Pool <- MCPool
  ProtocolOf <- MCProtocol
  EndpointOf <- MCEndpoint
  EnvoyAddress <- MCAddress
  MaxDispatches = 4
  MaxRecoveries = 1
INVARIANTS
  RestartKeepsPorts
CHECK_DEADLOCK FALSE
