---------------------------- MODULE MCJobLifecycle ----------------------------
(* Small instances of JobLifecycle for TLC. *)
EXTENDS JobLifecycle, TLC

CONSTANTS j1, j2, a1, a2, p1, p2, s1 \* model values

OneAgentEach == j1 :> a1 @@ j2 :> a2
SameAgent == [j \in Jobs |-> a1]

\* Requests are interchangeable.
RequestSymmetry == Permutations(Requesters)

=============================================================================
