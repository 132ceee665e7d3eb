SPECIFICATION Spec
CONSTANTS
  p1 = p1
  p2 = p2
  a1 = a1
  NoTask = NoTask
  JobStates <- RunningJob
  Publishers = {p1}
  Clients = {}
  Starts = {0}
  MaxEvents = 3
  MaxCrashes = 0
INVARIANTS StatesAsDocumented
