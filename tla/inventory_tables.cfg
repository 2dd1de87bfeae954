SPECIFICATION FairSpec
CONSTANTS
  n1 = n1  n2 = n2  h1 = h1  h2 = h2  h3 = h3  phone = phone  tv = tv  nas = nas  home = home
  NoHandler = NoHandler
  Handlers = {h1, h2, h3}
  Nets = {n1}
  Macs = {phone, tv}
  NetOf <- MCOneNet
  Reports <- MCTwice
  OldNets = {}
  Retention = 1
  EventLimit = 2
  TenantOf <- MCTenantOf
  MaxTime = 1
INVARIANTS
  TypeOK
  SerialOutcome
  SessionsDisjoint
  NewDeviceOnce
  AnnouncedAreRecorded
PROPERTIES
  PushesEnd
CHECK_DEADLOCK FALSE
