------------------------- MODULE ParticipantPolicies -------------------------
(***************************************************************************)
(* What a participant of a session may do: the rights of its role, unless  *)
(* the row stores others (participant_policy.py, permissions.py and the    *)
(* helpers of api/participants.py).  A policy is the set of rights it      *)
(* grants; policy_json always holds the whole matrix where it is not null. *)
(***************************************************************************)

Rights == {"relay", "create_job", "interrupt", "compact", "review_only", "target_others"}

\* The role is one of the five; default_role_for_agent turns others into builder.
DefaultRole(agentRole, lead) == IF lead THEN "planner" ELSE agentRole

DefaultPolicy(role, lead) ==
  LET worker == {"relay", "create_job", "interrupt", "compact"} IN
  CASE lead \/ role = "planner" -> worker \union {"target_others"}
    [] ~lead /\ role = "builder" -> worker
    [] ~lead /\ role = "reviewer" -> {"review_only"}
    [] OTHER -> {"relay"}

NoPolicy == [stored |-> FALSE, rights |-> {}]
Policy(rights) == [stored |-> TRUE, rights |-> rights]
PolicyRows == [stored : BOOLEAN, rights : SUBSET Rights]

\* The rights of a participants row.
RightsOf(row) ==
  IF row.policy.stored THEN row.policy.rights ELSE DefaultPolicy(row.role, row.lead)

\* The policy a new participant gets, with the overrides of the request.
PolicyOnCreate(role, lead, grant, deny) ==
  Policy((DefaultPolicy(role, lead) \ deny) \union grant)

\* The policy after a PATCH; one that names a role starts from its default.
PolicyOnUpdate(role, row, named, grant, deny) ==
  LET base == IF ~named /\ row.policy.stored THEN row.policy.rights
              ELSE DefaultPolicy(role, row.lead)
  IN  Policy((base \ deny) \union grant)

\* May an agent's message create jobs for the agents it mentions?
MayRelay(row, mentioned) ==
  /\ "relay" \in RightsOf(row)
  /\ mentioned \subseteq {row.agent} \/ "target_others" \in RightsOf(row)

\* require_target_permission for a command of a participant.
MayCommand(row, command, target) ==
  \/ row.lead
  \/ /\ CASE command = "new" -> "create_job" \in RightsOf(row)
          [] command = "review" -> "review_only" \in RightsOf(row)
          [] OTHER -> command \in RightsOf(row)
     /\ target = row.agent \/ "target_others" \in RightsOf(row)
=============================================================================
