\* An RPC reserves pts with a date older than the account's.
SPECIFICATION Spec
CONSTANTS
  c1 = c1
  b1 = b1
  b2 = b2
  b3 = b3
  m1 = m1
  queue = queue
  rpc = rpc
  Account = Account
  Free = Free
  NoRow = NoRow
  Channels = {c1}
  Workers = {queue, rpc}
  EventQueue = queue
  AlwaysMarked = {m1}
  Keys = {b1, m1}
  Jobs <- McJobs
  Scope <- McScope
  PtsCount <- McPtsCount
  Stamp <- McStamp
  ChangeOnly = {}
  RpcDates = {1}
  Cutoffs = {}
  Retention = 3
  SlowPublish = TRUE
  MaxJobs = 3
  MaxReserved = 1
  MaxCrashes = 0
INVARIANTS
  DatesFollowSeq
CHECK_DEADLOCK FALSE
