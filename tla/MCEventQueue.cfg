\* The event queues of a session across stops and restarts of its platform.
SPECIFICATION Spec
CONSTANTS
  e1 = e1
  e2 = e2
  e3 = e3
  Events = {e1, e2, e3}
  MaxStops = 1
  MaxFailures = 1
  None = None
INVARIANTS
  QueueTypeOK
  InOrder
  OverlapOnlyStopping
  DrainedBeforeClosed
PROPERTIES
  EventsSettle
CHECK_DEADLOCK FALSE
