SPECIFICATION Spec
CONSTANTS
  A = A  B = B  s1 = s1  s2 = s2  s3 = s3  r1 = r1  r2 = r2  r3 = r3
  netA = netA  netB = netB  NoSocket = NoSocket
  Tenants = {A, B}
  Sockets = {s1, s2}
  Requests = {r1, r2}
  Nets = {netA, netB}
  SocketTenant <- MCSocketTenant
  Principal <- MCAllA
  Target <- MCAllNetA
  NetOwner <- MCNetOwner
SYMMETRY MCSymmetry
INVARIANTS
  WaiterReachable
  NoDanglingSender
  AnswersComeFromAgents
CHECK_DEADLOCK FALSE
