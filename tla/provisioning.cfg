SPECIFICATION FairSpec
CONSTANTS
  Procs = {p1, p2}
  Pages = {c1}
  Bucket = bucket
  ConfigTable = config
  Tables = {config}
  Queues = {queue}
  Policies = {defaults, strict}
  Defaults = defaults
  None = none
  p1 = p1
  p2 = p2
  MaxFaults <- MCFaults
  MaxWipes = 1
  MaxKills <- MCKills
INVARIANTS
  TypeOK
  SettledIsProvisioned
  SeedsAreCounted
PROPERTIES
  RequestsFailForACause
  RetriesSucceed
\* The pages may all rest for good.
CHECK_DEADLOCK FALSE
