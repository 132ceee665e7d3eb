SPECIFICATION FairHookSpec
CONSTANTS
  p1 = p1
  p2 = p2
  w1 = w1
  o1 = o1
  a1 = a1
  NoTask = NoTask
  JobStates <- SmallJob
  Publishers = {p1}
  Clients = {}
  Starts = {0}
  MaxEvents = 2
  MaxCrashes = 1
  Hooks = {1}
  Sweepers = {w1}
  Operators = {o1}
  MaxAttempts = 2
  DispatchLimit = 1
  MaxFailures = 1
INVARIANTS HookTypeOK MarksAreTrue OrderPreserved
PROPERTIES EveryDeliverySettles
