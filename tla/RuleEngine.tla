----------------------------- MODULE RuleEngine -----------------------------
(***************************************************************************)
(* The active rules of a session, in the order of list_active_by_session:  *)
(* some override the channel of a message or a job, others hold a job back *)
(* (rule_engine.py).  "any" stands for a condition the rule does not have;  *)
(* conditions on the text of the message are left out.                     *)
(***************************************************************************)
EXTENDS Integers, Sequences, FiniteSetsExt

Rule(type, channel, agent, target) ==
  [type |-> type, channel |-> channel, agent |-> agent, target |-> target]
RoutingTypes == {"relay", "channel_routing_preference"}
HoldTypes == {"review_required", "approval_escalation"}

MatchesRule(rule, channel, agent) ==
  rule.channel \in {"any", channel} /\ rule.agent \in {"any", agent}

\* The rules, of those among, that are met.
Matching(rules, among, channel, agent) ==
  {i \in among : MatchesRule(rules[i], channel, agent)}

\* The channel after those of the rules that override it: the last one counts.
Overridden(rules, among, channel) ==
  LET routing == {i \in among : rules[i].type \in RoutingTypes /\ rules[i].target # "none"}
  IN  IF routing = {} THEN channel ELSE rules[Max(routing)].target

\* resolve_routing_channel: here the condition on an agent is about the sender.
RoutingChannel(rules, on, channel, sender) ==
  Overridden(rules, Matching(rules, on, channel, sender), channel)

\* resolve_job_dispatch: here it is about the agent of the job; rules after the
\* first that holds the job back are not looked at.
JobDispatch(rules, on, channel, agent) ==
  LET matching == Matching(rules, on, channel, agent)
      holds == {i \in matching : rules[i].type \in HoldTypes}
      seen == IF holds = {} THEN matching ELSE {i \in matching : i <= Min(holds)}
  IN  [held |-> holds # {}, channel |-> Overridden(rules, seen, channel)]
=============================================================================
