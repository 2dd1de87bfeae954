SPECIFICATION FairSpec
CONSTANTS
  c1 = c1  c2 = c2  c3 = c3  internet = internet  gateway = gateway
  NoOutage = NoOutage
  Calls = {c1, c2, c3}
  Targets = {internet, gateway}
  Internet = internet
  Reports <- MCReports
  Cap = 2
INVARIANTS
  TypeOK
  OutagesWellFormed
  OutagesAreLossRuns
  NewestSamplesShown
  ConflictsNeedOverlap
PROPERTIES
  CallsEnd
CHECK_DEADLOCK FALSE
