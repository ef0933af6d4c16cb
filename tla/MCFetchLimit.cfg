\* A reservation is discarded from a fetch that the limit cut short.
SPECIFICATION DiffSpec
CONSTANTS
  c1 = c1
  a1 = a1
  a2 = a2
  b1 = b1
  m1 = m1
  z1 = z1
  queue = queue
  rpc = rpc
  Account = Account
  Free = Free
  NoRow = NoRow
  Channels = {c1}
  Keys = {a1, a2, m1}
  Workers = {queue, rpc}
  EventQueue = queue
  AlwaysMarked <- McAlwaysMarked
  Jobs <- McJobs
  Scope <- McScope
  PtsCount <- McPtsCount
  Stamp <- McStamp
  ChangeOnly = {}
  RpcDates = {1}
  Cutoffs = {}
  Retention = 3
  SlowPublish = FALSE
  MaxJobs = 3
  MaxReserved = 0
  MaxCrashes = 0
  Devices = {d1}
  d1 = d1
  FetchLimit = 2
  MaxPage = 1
  MaxDrops = 0
INVARIANTS
  DiscardsHideNothing
CHECK_DEADLOCK FALSE
