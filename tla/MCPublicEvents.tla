--------------------------- MODULE MCPublicEvents ---------------------------
(* A job that asks for a review and completes with an artifact, and one that *)
(* is queued and then runs.                                                  *)
EXTENDS PublicEvents, TLC

CONSTANTS p1, p2, a1

State(status, phase, artifacts) ==
  [status |-> status, phase |-> phase, artifacts |-> artifacts]

SmallJob == {State("input_required", 1, {}), State("completed", 1, {a1})}

RunningJob == {State("queued", 1, {}), State("running", 1, {})}

SameRequests == Permutations(Publishers)
=============================================================================
