SPECIFICATION Spec
CONSTANTS
  p1 = p1
  p2 = p2
  a1 = a1
  NoTask = NoTask
  JobStates <- SmallJob
  Publishers = {p1, p2}
  Clients = {c1}
  Starts = {0, 1}
  MaxEvents = 1
  MaxCrashes = 1
INVARIANTS TypeOK NumbersDense StreamsComplete
PROPERTIES ImplementsFeed
SYMMETRY SameRequests
