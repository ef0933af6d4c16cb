\* Two connections with one slot and one place in the queue each.
SPECIFICATION RpcSpec
CONSTANTS
  login = login
  first = first
  second = second
  c1 = c1
  c2 = c2
  Conns = {c1, c2}
  Msgs = {login, first, second}
  Transitions = {login}
  After <- McAfter
  Slots = 1
  MaxPending = 1
  MaxInFlight = 2
  NoDelivery = NoDelivery
  MaxPrunes = 1
  MaxFaults = 1
SYMMETRY McSymmetry
INVARIANTS
  RpcTypeOK
  SlotsAccounted
  ExecutedOnce
  OneExecution
  AfterDependencies
  NothingStuck
  EndsAnswered
CHECK_DEADLOCK FALSE
