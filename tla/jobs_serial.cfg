SPECIFICATION Spec
CONSTANTS
  j1 = j1
  j2 = j2
  a1 = a1
  a2 = a2
  p1 = p1
  p2 = p2
  s1 = s1
  None = None
  Jobs = {j1}
  Agents = {a1}
  AgentOf <- SameAgent
  Requesters = {p1}
  Sweepers = {p1}
  MaxRelayEdges = 3
  RecoveryEnabled = TRUE
  Ops = {"create", "retry", "resume", "interrupt", "compact", "cancel", "input", "decide", "heartbeat", "offline", "stale", "hold", "reroute", "abort", "crash"}
  Answers = {"running", "completed", "input_required", "auth_required"}
  MaxTurns = 2
  MaxThreads = 2
  MaxCrashes = 1
INVARIANTS
  TypeOK
  RunningJobsMapped
PROPERTIES
  TurnFromQueued
  CanceledStays
