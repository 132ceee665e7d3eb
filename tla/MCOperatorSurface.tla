--------------------------- MODULE MCOperatorSurface ---------------------------
(* Instances of OperatorSurface for TLC: one session that is being worked on,  *)
(* one that a request may create from a template, and two handlers.            *)
EXTENDS OperatorSurface

\* The handlers are interchangeable.
MCSymmetry == Permutations(Handlers)

MCSessions == {"s1", "s2"}
MCOpened == {"s1"}
MCNone == {}
MCCustom ==
  [ops |-> Template(<<Channel("general", 0), Channel("ops", 25)>>,
                    <<"review", "review", "triage">>, {"Ops"}, "triage")]

Ask(op) == [op |-> op]
MCRequests ==
  {[op |-> "template", template |-> "ops"],
   [op |-> "instantiate", template |-> "ops", lead |-> TRUE],
   [op |-> "instantiate", template |-> "hotfix_triage", lead |-> FALSE],
   [op |-> "channels", session |-> "s2"],
   [op |-> "channel", session |-> "s1", key |-> "ops"],
   [op |-> "phases", session |-> "s2"],
   [op |-> "activate", session |-> "s2", phase |-> "review"],
   [op |-> "activate", session |-> "s1", phase |-> "review"],
   [op |-> "activate", session |-> "s1", phase |-> "triage"],
   [op |-> "activate_phase", session |-> "s1", phase |-> "review"],
   [op |-> "activate_phase", session |-> "s2", phase |-> "finalize"]}
  \union [op : {"approve", "reject"}, approval : {1}]
  \union [op : {"retry", "resume", "cancel"}, job : {1, 2}]

\* What an operator does while clients watch s1.
MCWatchedRequests ==
  {[op |-> "activate_phase", session |-> "s1", phase |-> "review"],
   [op |-> "approve", approval |-> 1], [op |-> "retry", job |-> 2]}

MCJobs == << Job("s1", "auth_required", 0), Job("s1", "failed", 0) >>
MCApprovals == <<1>>
MCAlone ==
  [reviews |-> <<>>, runs |-> <<>>, contexts |-> <<>>, tasks |-> <<>>, hooks |-> <<>>,
   deliveries |-> <<>>, pools |-> <<>>]

\* Clients watch s1 while s2 has work of its own in the same pools.
MCBoth == {"s1", "s2"}
MCWatchedJobs == MCJobs \o << Job("s2", "paused_by_loop_guard", 0) >>
MCContext(session, pool) == [session |-> session, pool |-> pool]
MCElsewhere ==
  [reviews |-> << [session |-> "s2", status |-> "requested", template |-> "reviewer",
                   job |-> 3, channel |-> "review", scope |-> "job"] >>,
   runs |-> << [session |-> "s2", phase |-> "review", gate |-> "pending", job |-> 3] >>,
   contexts |-> << MCContext("s1", "general"), MCContext("s1", "isolated"), MCContext("s2", "general") >>,
   tasks |-> << [task |-> "t1", session |-> "s1", job |-> 1, status |-> "running", template |-> NoKey],
                [task |-> "t3", session |-> "s2", job |-> 3, status |-> "input_required", template |-> NoKey] >>,
   hooks |-> << [session |-> "s2", task |-> "t3", status |-> "active"] >>,
   deliveries |-> << [session |-> "s2", task |-> "t3", hook |-> 1, status |-> "retrying"] >>,
   pools |-> [general |-> [status |-> "ready", waiting |-> 0],
              isolated |-> [status |-> "ready", waiting |-> 1]]]
=============================================================================
