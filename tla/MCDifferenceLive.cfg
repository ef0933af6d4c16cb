\* A device reaches the end of the log through a restart and lost connections.
SPECIFICATION FairSpec
CONSTANTS
  c1 = c1
  a1 = a1
  a2 = a2
  b1 = b1
  m1 = m1
  z1 = z1
  queue = queue
  rpc = rpc
  Account = Account
  Free = Free
  NoRow = NoRow
  Channels = {c1}
  Keys = {a1, m1}
  Workers = {queue, rpc}
  EventQueue = queue
  AlwaysMarked <- McAlwaysMarked
  Jobs <- McJobs
  Scope <- McScope
  PtsCount <- McPtsCount
  Stamp <- McStamp
  ChangeOnly = {}
  RpcDates = {1}
  Cutoffs = {}
  Retention = 3
  SlowPublish = FALSE
  MaxJobs = 2
  MaxReserved = 0
  MaxCrashes = 1
  Devices = {d1}
  d1 = d1
  FetchLimit = 2
  MaxPage = 1
  MaxDrops = 1
INVARIANTS
  SkipsOnlyHidden
PROPERTIES
  ReachesDevices
CHECK_DEADLOCK FALSE
