SPECIFICATION FairSpec
CONSTANTS
  n1 = n1  n2 = n2  t1 = t1  t2 = t2  p1 = p1  p2 = p2  joined = joined  moved = moved
  NotJson = NotJson  None = None
  Ids = {n1, n2}
  Tenants = {t1, t2}
  Pushes = {p1, p2}
  TenantOf <- MCTenantOf
  News <- MCNews
  Required <- MCRequired
  Inputs <- MCInputs
  Instants <- MCInstants
INVARIANTS
  TypeOK
  EveryChannelTold
  NobodyElseTold
  QuietHours
PROPERTIES
  NewsGoesOut
CHECK_DEADLOCK FALSE
