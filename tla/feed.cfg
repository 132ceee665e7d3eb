SPECIFICATION Spec
CONSTANTS
  Handlers = {p1, p2}
  Sessions <- MCBoth
  Opened <- MCBoth
  Listed <- MCBoth
  Custom <- MCCustom
  Requests <- MCWatchedRequests
  MaxRequests = 2
  MaxCrashes = 0
  Jobs0 <- MCWatchedJobs
  Approvals0 <- MCApprovals
  MaxMoves = 0
  Clients = {c1}
  Watched = {"s1"}
  Limits = {2}
  Elsewhere <- MCElsewhere
  MaxPolls = 2
INVARIANTS
  FeedReachesNewest
  
  
SYMMETRY MCSymmetry
CHECK_DEADLOCK FALSE
