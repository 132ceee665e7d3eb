SPECIFICATION Spec
CONSTANTS
  p1 = p1
  p2 = p2
  Handlers = {p1, p2}
  SuccessPhases = {"review", "finalize", "nowhere"}
  Activations = {"implementation"}
  Policies <- MCPolicies
  Ops = {"create", "start", "review_gate", "approval_gate", "request_review", "judge", "decide", "activate", "edit", "pause", "control"}
  MaxRequests = 4
  MaxOverlapped = 2
  MaxCrashes = 1
INVARIANTS TypeOK GateBacked DecisionAgrees RevisionOnce
PROPERTIES GateReleasedByDecision SessionFieldsKept AutomationObeysPolicies DecidedGateResolves
CHECK_DEADLOCK FALSE
