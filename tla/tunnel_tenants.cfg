SPECIFICATION FairSpec
CONSTANTS
  A = A  B = B  s1 = s1  s2 = s2  s3 = s3  r1 = r1  r2 = r2  r3 = r3
  netA = netA  netB = netB  NoSocket = NoSocket
  Tenants = {A, B}
  Sockets = {s1, s2, s3}
  Requests = {r1, r3}
  Nets = {netA, netB}
  SocketTenant <- MCSocketTenant
  Principal <- MCPrincipal
  Target <- MCTarget
  NetOwner <- MCNetOwner
INVARIANTS
  TypeOK
  TenantIsolation
  SoloAgentReachable
PROPERTIES
  ImplementsService
  RequestsEnd
  ClosedChannelsEmpty
CHECK_DEADLOCK FALSE
