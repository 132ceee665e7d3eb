SPECIFICATION Spec
CONSTANTS
  p1 = p1
  p2 = p2
  Handlers = {p1, p2}
  SuccessPhases = {"review", "finalize"}
  Activations = {}
  Policies <- NoPolicies
  Ops = {"create", "approval_gate"}
  MaxRequests = 2
  MaxOverlapped = 2
  MaxCrashes = 0
PROPERTIES PendingRunNotOverwritten
CHECK_DEADLOCK FALSE
