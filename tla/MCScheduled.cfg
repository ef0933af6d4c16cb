\* Two messages, a sweep, a send-now call, a delete, two faults and a restart.
SPECIFICATION SchedSpec
CONSTANTS
  r1 = r1
  r2 = r2
  s1 = s1
  c1 = c1
  u1 = u1
  Rows = {r1, r2}
  DueAt <- McDueAt
  Touched = {r1}
  Sweeps = {s1}
  Callers = {c1}
  Deleters = {u1}
  Lease = 0
  Retry <- McRetry
  Batch = 1
  NoMsg = NoMsg
  MaxClock = 1
  MaxFaults = 2
  MaxRestarts = 1
INVARIANTS
  SchedTypeOK
  OneSender
  DeliveredOnce
  CancelledStays
PROPERTIES
  Settles
CHECK_DEADLOCK FALSE
