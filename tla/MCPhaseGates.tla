----------------------------- MODULE MCPhaseGates -----------------------------
(* Instances of PhaseGates: two policies, of which the first escalates what  *)
(* is in the wrong phase and the second approves on its own.                 *)
EXTENDS PhaseGates

Policy(s, ph, conditions, decision, type) ==
  [session |-> s, phase |-> ph, conditions |-> conditions,
   decision |-> decision, type |-> type]
If(key, values, negated) == [key |-> key, values |-> values, negated |-> negated]

MCPolicies ==
  << Policy("other", "review", {If("current_phase_key", {"planning"}, TRUE)}, "none", "escalation"),
     Policy("this", "none", {If("phase_key", {"finalize"}, TRUE)}, "none", "conditional_auto_approve") >>
NoPolicies == << >>
=============================================================================
