\* A delete, an edit or a reaction is repeated after its first publication failed.
SPECIFICATION Spec
CONSTANTS
  c1 = c1
  b1 = b1
  b2 = b2
  b3 = b3
  m1 = m1
  queue = queue
  rpc = rpc
  Account = Account
  Free = Free
  NoRow = NoRow
  Channels = {c1}
  Workers = {queue, rpc}
  EventQueue = queue
  AlwaysMarked = {m1}
  Keys = {b2, m1}
  Jobs <- McJobs
  Scope <- McScope
  PtsCount <- McPtsCount
  Stamp <- McStamp
  ChangeOnly = {b2}
  RpcDates = {1}
  Cutoffs = {}
  Retention = 3
  SlowPublish = FALSE
  MaxJobs = 3
  MaxReserved = 0
  MaxCrashes = 0
INVARIANTS
  RetriesPublish
CHECK_DEADLOCK FALSE
