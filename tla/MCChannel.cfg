\* A device follows the messages and reads of a channel through sweeps and restarts.
SPECIFICATION ChanSpec
CONSTANTS
  d1 = d1
  c1 = c1
  b1 = b1
  b2 = b2
  z1 = z1
  queue = queue
  Account = Account
  Free = Free
  NoRow = NoRow
  Channels = {c1}
  Chan = c1
  Keys = {b1, b2, z1}
  Workers = {queue}
  EventQueue = queue
  AlwaysMarked = {}
  Jobs <- McJobs
  Scope <- McScope
  PtsCount <- McPtsCount
  Stamp <- McStamp
  ChangeOnly = {}
  RpcDates = {2}
  Cutoffs = {2}
  Retention = 2
  SlowPublish = FALSE
  MaxJobs = 2
  MaxReserved = 0
  MaxCrashes = 1
  Devices = {d1}
  FetchLimit = 2
  MaxPage = 1
  MaxPending = 2
  MaxDrops = 1
  MaxAsks = 3
INVARIANTS
  ChanTypeOK
  GivenOnce
PROPERTIES
  KeepsStream
  NeverBack
  DateLeavesNone
CHECK_DEADLOCK FALSE
