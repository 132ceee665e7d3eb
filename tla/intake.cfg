SPECIFICATION Spec
CONSTANTS
  p1 = p1
  p2 = p2
  Handlers = {p1, p2}
  Agents = {"pat", "bob", "rex", "bea", "zoe"}
  Registered = {"pat", "bob", "rex", "bea"}
  Members = {"pat", "bob", "rex"}
  Lead = "pat"
  RoleOf <- MCRole
  DisplayName <- MCName
  CustomPools = {"lane", "other"}
  PoolRow <- MCPoolRow
  Placed0 <- MCPlaced
  Rules <- MCRules
  Requests <- MCRequests
  MaxRequests = 3
  MaxOverlapped = 2
  MaxCrashes = 1
SYMMETRY Symmetry
INVARIANTS CapacityHeld ContextFollowsJob MentionJobs CommandTrail
CHECK_DEADLOCK FALSE
