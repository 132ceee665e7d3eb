--------------------------- MODULE MCMessageIntake ---------------------------
(* Instances of MessageIntake: a lead, a builder and a reviewer take part in *)
(* the session and the builder has a job, a second builder may join, another *)
(* agent may be created; one rule moves the general channel's jobs to the    *)
(* planning channel, one holds what is for the reviewer.                     *)
EXTENDS MessageIntake, TLC

MCRole == [pat |-> "planner", bob |-> "builder", rex |-> "reviewer", bea |-> "builder", zoe |-> "planner"]
MCName == [pat |-> "Pat", bob |-> "Bob", rex |-> "Rex", bea |-> "Bea", zoe |-> "Zoe"]
MCPoolRow == [lane |-> Pool(1, {"can_code"}, "isolated_work", "codex"),
              other |-> Pool(0, {}, None, "other")]
MCPlaced == << [pool |-> "general_shared", agent |-> "bob", runtime |-> "bob",
                status |-> "active", owned |-> TRUE] >>
MCRules == << Rule("channel_routing_preference", "general", "any", "planning"),
              Rule("review_required", "any", "rex", "none") >>

Message(sender, command, names) ==
  [op |-> "message", sender |-> sender, command |-> command, names |-> names,
   channel |-> "general"]
NewJob(agent, pool, caps) == [op |-> "job", agent |-> agent, pool |-> pool, caps |-> caps]
Change(op, agent, role, grant, deny) ==
  [op |-> op, agent |-> agent, role |-> role, grant |-> grant, deny |-> deny]

MCRequests ==
  { Message("user", None, <<"Bob", "builder">>), Message("user", None, <<"rex", "Bea">>),
    Message("bob", None, <<"Rex">>), Message("user", "new", <<"Bob">>),
    Message("rex", "review", <<>>), Message("user", "interrupt", <<"builder">>),
    Message("bob", "compact", <<"Bob">>),
    NewJob("bob", "isolated_work", {}), NewJob("pat", "lane", {"can_code"}),
    NewJob("bob", "other", {}),
    [op |-> "assign", job |-> 1, pool |-> "isolated_work", caps |-> {}],
    [op |-> "assign", job |-> 2, pool |-> "isolated_work", caps |-> {}],
    [op |-> "recover", job |-> 1],
    [op |-> "pool", key |-> "lane"], [op |-> "pool", key |-> "other"],
    [op |-> "agent", agent |-> "zoe"],
    [op |-> "role", agent |-> "bob", role |-> "reviewer"],
    [op |-> "beat", agent |-> "bob", presence |-> "offline"],
    [op |-> "beat", agent |-> "bob", presence |-> "online"],
    Change("join", "bea", None, {"target_others"}, {}),
    Change("join", "bea", "reviewer", {}, {"relay"}), Change("join", "zoe", None, {}, {}),
    Change("patch", "bob", None, {"target_others"}, {"interrupt"}),
    Change("patch", "bob", "reviewer", {}, {}),
    Change("leave", "bob", None, {}, {}),
    [op |-> "rule", rule |-> 1, on |-> FALSE], [op |-> "rule", rule |-> 2, on |-> TRUE] }

Symmetry == Permutations(Handlers)
=============================================================================
