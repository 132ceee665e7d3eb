SPECIFICATION Spec
CONSTANTS
  j1 = j1
  j2 = j2
  a1 = a1
  a2 = a2
  p1 = p1
  p2 = p2
  s1 = s1
  None = None
  Jobs = {j1}
  Agents = {a1}
  AgentOf <- SameAgent
  Requesters = {p1, p2}
  Sweepers = {}
  MaxRelayEdges = 2
  RecoveryEnabled = TRUE
  Ops = {"create", "retry", "resume", "interrupt", "answer", "heartbeat"}
  Answers = {"completed", "input_required"}
  MaxTurns = 2
  MaxThreads = 2
  MaxCrashes = 0
SYMMETRY RequestSymmetry
INVARIANTS
  TurnOnThread
  CompletionJustified
  LoopGuardOvershoot
  AskedTurnHasApproval
