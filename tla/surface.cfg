SPECIFICATION Spec
CONSTANTS
  Handlers = {p1, p2}
  Sessions <- MCSessions
  Opened <- MCOpened
  Listed <- MCNone
  Custom <- MCCustom
  Requests <- MCRequests
  MaxRequests = 2
  MaxCrashes = 1
  Jobs0 <- MCJobs
  Approvals0 <- MCApprovals
  MaxMoves = 1
  Clients = {c1}
  Watched = {"s1"}
  Limits = {1, 9}
  Elsewhere <- MCAlone
  MaxPolls = 0
INVARIANTS
  TemplateApplied
  
SYMMETRY MCSymmetry
CHECK_DEADLOCK FALSE
