---------------------------- MODULE MentionRouter ----------------------------
(***************************************************************************)
(* Which agent a mention names (mention_router.py).  A token matches the   *)
(* display name of an agent, then a role, then an agent id; the best kind  *)
(* of match must name one agent.                                           *)
(***************************************************************************)
EXTENDS Integers, FiniteSets

CONSTANT DisplayName \* of each agent: UNIQUE

Matches(token, a, role, level) ==
  token = CASE level = 0 -> DisplayName[a] [] level = 1 -> role [] level = 2 -> a

\* The agents among the active ones that the token names best; role is the
\* role of each agent.
Candidates(token, active, role) ==
  LET at(level) == {a \in active : Matches(token, a, role[a], level)}
      levels == {level \in 0..2 : at(level) # {}}
  IN  IF levels = {} THEN {}
      ELSE at(CHOOSE level \in levels : \A other \in levels : level <= other)

Resolvable(token, active, role) == Cardinality(Candidates(token, active, role)) = 1
AgentOf(token, active, role) == CHOOSE a \in Candidates(token, active, role) : TRUE
=============================================================================
