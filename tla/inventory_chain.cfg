SPECIFICATION Spec
CONSTANTS
  n1 = n1  n2 = n2  h1 = h1  h2 = h2  h3 = h3  phone = phone  tv = tv  nas = nas  home = home
  NoHandler = NoHandler
  Handlers = {h1, h2, h3}
  Nets = {n1, n2}
  Macs = {phone, tv, nas}
  NetOf <- MCTwoNets
  Reports <- MCChain
  OldNets = {n1, n2}
  Retention = 1
  EventLimit = 2
  TenantOf <- MCTenantOf
  MaxTime = 2
SYMMETRY MCSymmetry
INVARIANTS
  AuditPagesLinked
  LatestEventsShown
  RetainedIsSuffix
  WholeChainVerifies
  TamperEvident
PROPERTIES
  ImplementsAuditLog
CHECK_DEADLOCK FALSE
