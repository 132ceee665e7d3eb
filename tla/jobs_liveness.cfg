SPECIFICATION FairSpec
CONSTANTS
  j1 = j1
  j2 = j2
  a1 = a1
  a2 = a2
  p1 = p1
  p2 = p2
  s1 = s1
  None = None
  Jobs = {j1, j2}
  Agents = {a1, a2}
  AgentOf <- OneAgentEach
  Requesters = {p1}
  Sweepers = {s1}
  MaxRelayEdges = 2
  RecoveryEnabled = TRUE
  Ops = {"create", "heartbeat", "crash"}
  Answers = {"running"}
  MaxTurns = 8
  MaxThreads = 8
  MaxCrashes = 1
INVARIANTS
  ThreadIsolation
PROPERTIES
  QueueDrains
