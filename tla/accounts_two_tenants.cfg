SPECIFICATION Spec
CONSTANTS
  c1 = c1  c2 = c2  in = in  out = out
  ann = ann  secret = secret  guess = guess  home = home
  Junk = Junk  NoTenant = NoTenant
  Commands = {c1, c2}
  Calls = {in, out}
  Orders <- MCOrders
  TTL = 1
  MaxTime = 1
INVARIANTS
  SingleTenant
CHECK_DEADLOCK FALSE
