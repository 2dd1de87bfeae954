SPECIFICATION Spec
CONSTANTS
  n1 = n1  n2 = n2  h1 = h1  h2 = h2  h3 = h3  phone = phone  tv = tv  nas = nas  home = home
  NoHandler = NoHandler
  Handlers = {h1, h2}
  Nets = {n1}
  Macs = {phone, tv}
  NetOf <- MCOneNet
  Reports <- MCPresence
  OldNets = {}
  Retention = 0
  EventLimit = 2
  TenantOf <- MCTenantOf
  MaxTime = 0
SYMMETRY MCSymmetry
INVARIANTS
  LaterDevicesAnnounced
CHECK_DEADLOCK FALSE
