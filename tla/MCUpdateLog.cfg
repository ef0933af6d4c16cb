\* The log under two publishers, RPC reservations, trimming, sweeps and a restart.
SPECIFICATION Spec
CONSTANTS
  c1 = c1
  b1 = b1
  b2 = b2
  b3 = b3
  m1 = m1
  queue = queue
  rpc = rpc
  Account = Account
  Free = Free
  NoRow = NoRow
  Channels = {c1}
  Workers = {queue, rpc}
  EventQueue = queue
  AlwaysMarked = {m1}
  Keys = {b1, b2, b3, m1}
  Jobs <- McJobs
  Scope <- McScope
  PtsCount <- McPtsCount
  Stamp <- McStamp
  ChangeOnly = {b2}
  RpcDates = {1}
  Cutoffs = {2}
  Retention = 2
  SlowPublish = TRUE
  MaxJobs = 3
  MaxReserved = 1
  MaxCrashes = 1
INVARIANTS
  TypeOK
  PtsRangesOrdered
  PayloadMatchesRow
  SeqUnique
CHECK_DEADLOCK FALSE
