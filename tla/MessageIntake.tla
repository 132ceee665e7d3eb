---------------------------- MODULE MessageIntake ----------------------------
(***************************************************************************)
(* From a message to its jobs: the participants of a session, the mentions *)
(* and commands of the messages posted in it, the rules that route or hold *)
(* the jobs, and the placing of the jobs in runtime pools (RuntimePools).  *)
(*                                                                         *)
(* What execute_job, the controls of a job and a review do is modelled in  *)
(* JobLifecycle and PhaseGates; here a dispatched job is "running", and a  *)
(* call to the relay engine or the review service is accepted or refused.  *)
(* Job inputs and the events other than those of commands are append-only  *)
(* trails nothing here reads: they are left out.  So is a request that its *)
(* first checks refuse: it changes nothing.                                *)
(***************************************************************************)
EXTENDS RuntimePools, MentionRouter, RuleEngine

CONSTANTS
  Members, \* the registered agents that are participants in the beginning
  Lead,    \* lead_agent_id of the session
  Rules    \* the rows of the rules table, by priority

VARIABLES
  members,     \* the participants row of each agent
  active,      \* is_active of each rule
  messages,    \* messages with their mention rows
  lastMessage, \* the message the session's last_message_at is from
  signals,     \* command calls the relay engine or the review service accepted
  events       \* the command.* session events

intakeVars == <<members, active, messages, lastMessage, signals, events>>
vars == <<poolVars, intakeVars, ghosts, h>>

Commands == {"new", "review", "interrupt", "compact"}
Control == [message : Nat, command : Commands, job : Nat]
TerminalStatuses == {"canceled"} \* of those that jobs get here

ASSUME MembersAssumption == Members \subseteq Registered
ASSUME RulesAssumption == DOMAIN Rules = 1..Len(Rules) /\ Len(Rules) \in Nat

\* What the models of the requests let through.
ASSUME RequestsAssumption ==
  \A r \in Requests :
    /\ r.op = "message" =>
         /\ r.command \in Commands \union {None}
         /\ DOMAIN r.names = 1..Len(r.names) /\ Len(r.names) \in Nat
    /\ r.op \in {"job", "agent", "role", "beat", "join", "patch", "leave"} => r.agent \in Agents
    /\ r.op = "role" => r.role \in Roles
    /\ r.op \in {"join", "patch"} => r.role \in Roles \union {None} /\ r.grant \subseteq Rights
    /\ r.op = "beat" => r.presence \in RuntimeStatuses \ {"absent"}
    /\ r.op = "pool" => r.key \in CustomPools
    /\ r.op = "rule" => r.on \in BOOLEAN

\* The row POST /participants makes of what it has read.
Member(id, a, role, grant, deny) ==
  LET lead == a = Lead IN
  [id |-> id, agent |-> a, role |-> role, lead |-> lead,
   runtime |-> IF runtimes[a] = "absent" THEN None ELSE a,
   policy |-> PolicyOnCreate(role, lead, grant, deny)]
MemberRows == [id : Nat, agent : Agents, role : Roles, lead : BOOLEAN,
               runtime : Agents \union {None}, policy : PolicyRows]

Init ==
  /\ PoolInit
  /\ members = [a \in Agents |->
       IF a \in Members
         THEN [id |-> 0, agent |-> a, role |-> DefaultRole(RoleOf[a], a = Lead),
               lead |-> a = Lead, runtime |-> a,
               policy |-> Policy(DefaultPolicy(DefaultRole(RoleOf[a], a = Lead), a = Lead))]
         ELSE NotMember]
  /\ active = [i \in DOMAIN Rules |-> TRUE]
  /\ messages = <<>> /\ lastMessage = 0 /\ signals = {} /\ events = {}

Joined(a) == members[a].agent = a
ActiveMembers == {a \in Agents : Joined(a)}
ActiveRules == {i \in DOMAIN Rules : active[i]}

InsertMember(row) == members' = [members EXCEPT ![row.agent] = row]
UpdateMember(row) == members' = [members EXCEPT ![row.agent] = row]
DeleteMember(a) == members' = [members EXCEPT ![a] = NotMember]
UpdateRule(i, on) == active' = [active EXCEPT ![i] = on]
InsertMessage(row) == messages' = Append(messages, row)
InsertMentionRow(m, a) == messages' = [messages EXCEPT ![m].mentions = Append(@, a)]
UpdateJob(j, row) == jobs' = [jobs EXCEPT ![j] = row]
JobsOf(a) == {j \in DOMAIN jobs : jobs[j].agent = a}
----------------------------------------------------------------------------
(* create_message: check, resolve the mentions, store, route, create jobs *)

PostMessage(p, r) ==
  /\ r.op = "message"
  /\ r.sender \in Agents => Joined(r.sender)
  /\ Begin(p, r, [Idle EXCEPT !.pc = "preview"])
  /\ UNCHANGED <<poolVars, intakeVars>>

AllResolvable(names) == \A i \in DOMAIN names : Resolvable(names[i], ActiveMembers, agents)
Resolve(name) == AgentOf(name, ActiveMembers, agents)
FromAgent(p) == h[p].req.sender \in Agents

\* MessageRoutingService.preview: a mention that names no one or several ends
\* the request before anything is stored; a command is not resolved yet.
Preview(p) ==
  /\ At(p, "preview")
  /\ LET names == h[p].req.names
         next == IF FromAgent(p) THEN "sender" ELSE "store"
         mention(name) == [agent |-> Resolve(name), runtime |-> members[Resolve(name)].runtime]
     IN  Become(p,
           IF h[p].req.command # None THEN [h[p] EXCEPT !.pc = next]
           ELSE IF AllResolvable(names)
             THEN [h[p] EXCEPT !.pc = next, !.todo = [i \in DOMAIN names |-> mention(names[i])]]
             ELSE Idle)
  /\ UNCHANGED <<poolVars, intakeVars, ghosts>>

\* An agent must still be a participant, and may be kept from mentioning.
CheckSender(p) ==
  /\ At(p, "sender")
  /\ LET mentioned == {h[p].todo[i].agent : i \in DOMAIN h[p].todo} IN
     IF /\ Joined(h[p].req.sender)
        /\ mentioned # {} => MayRelay(members[h[p].req.sender], mentioned)
       THEN Goto(p, "store")
       ELSE Return(p)
  /\ UNCHANGED <<poolVars, intakeVars, ghosts>>

StoreMessage(p) ==
  /\ At(p, "store")
  /\ InsertMessage([sender |-> h[p].req.sender, command |-> h[p].req.command, mentions |-> <<>>])
  /\ Become(p, [h[p] EXCEPT !.message = Len(messages) + 1, !.pc = "session"])
  /\ UNCHANGED <<poolVars, members, active, lastMessage, signals, events, ghosts>>

TouchSession(p) ==
  /\ At(p, "session")
  /\ lastMessage' = h[p].message
  /\ IF h[p].req.command # None THEN Goto(p, "command")
     ELSE IF h[p].todo # <<>> THEN Goto(p, "route") ELSE Return(p)
  /\ UNCHANGED <<poolVars, members, active, messages, signals, events, ghosts>>

\* MessageRoutingService.apply: the channel of the jobs ...
Route(p) ==
  /\ At(p, "route")
  /\ Become(p, [h[p] EXCEPT
       !.channel = RoutingChannel(Rules, ActiveRules, h[p].req.channel, h[p].req.sender),
       !.pc = "mention"])
  /\ UNCHANGED <<poolVars, intakeVars, ghosts>>

\* ... the mention rows, one by one ...
InsertMention(p) ==
  /\ At(p, "mention")
  /\ LET i == Len(messages[h[p].message].mentions) + 1 IN
     /\ InsertMentionRow(h[p].message, h[p].todo[i].agent)
     /\ IF i = Len(h[p].todo) THEN Goto(p, "next_job") ELSE UNCHANGED h
  /\ UNCHANGED <<poolVars, members, active, lastMessage, signals, events, ghosts>>

\* ... and a job for each agent, on the runtime of the participants row if that
\* has one, else on the agent's.
Runtime(mention) ==
  IF mention.runtime # None THEN mention.runtime
  ELSE IF runtimes[mention.agent] # "absent" THEN mention.agent ELSE None

CreateNext(p, seen) ==
  /\ At(p, "next_job")
  /\ LET todo == h[p].todo
         fresh == {i \in DOMAIN todo : todo[i].agent \notin seen}
         mention == todo[Min(fresh)]
     IN  Become(p, IF fresh = {}
           THEN [h[p] EXCEPT !.pc = "schedule", !.todo = <<>>]
           ELSE [Creating(h[p], mention.agent, h[p].message, h[p].channel,
                          Runtime(mention), "next_job")
                   EXCEPT !.todo = SubSeq(todo, Min(fresh) + 1, Len(todo))])
  /\ UNCHANGED <<poolVars, intakeVars, ghosts>>

\* Mutant: an agent that is mentioned twice is given two jobs.
NextJobForEach(p) == CreateNext(p, {})
NextJob(p) == CreateNext(p, {jobs[h[p].made[i]].agent : i \in DOMAIN h[p].made})
----------------------------------------------------------------------------
(* OfflineQueueService.schedule_job, for each job the request created *)

\* Go on with the next job of the request, or answer it.
Scheduled(l) ==
  IF Len(l.made) = 1 THEN Idle ELSE [l EXCEPT !.pc = "schedule", !.made = Tail(@)]

Schedule(p) ==
  /\ At(p, "schedule")
  /\ LET j == Head(h[p].made)
         rule == JobDispatch(Rules, ActiveRules, jobs[j].channel, jobs[j].agent)
         next == IF rule.held THEN "hold" ELSE "dispatch"
     IN  Become(p, [h[p] EXCEPT
           !.job = j, !.row = [jobs[j] EXCEPT !.channel = rule.channel], !.held = rule.held,
           !.pc = IF rule.channel # jobs[j].channel THEN "reroute" ELSE next])
  /\ UNCHANGED <<poolVars, intakeVars, ghosts>>

Reroute(p) ==
  /\ At(p, "reroute")
  /\ UpdateJob(h[p].job, h[p].row)
  /\ Goto(p, IF h[p].held THEN "hold" ELSE "dispatch")
  /\ UNCHANGED <<agents, runtimes, stored, contexts, intakeVars, ghosts>>

Hold(p) ==
  /\ At(p, "hold")
  /\ UpdateJob(h[p].job, [h[p].row EXCEPT !.status = "input_required"])
  /\ Become(p, Scheduled(h[p]))
  /\ UNCHANGED <<agents, runtimes, stored, contexts, intakeVars, ghosts>>

CanDispatch(a) == runtimes[a] \in Dispatchable

Dispatch(p) ==
  /\ At(p, "dispatch")
  /\ IF CanDispatch(h[p].row.agent)
       THEN UpdateJob(h[p].job, [jobs[h[p].job] EXCEPT !.status = "running"])
       ELSE UNCHANGED jobs
  /\ Become(p, Scheduled(h[p]))
  /\ UNCHANGED <<agents, runtimes, stored, contexts, intakeVars, ghosts>>

\* POST /jobs for a participant or the lead, with a preferred pool.
CreateJob(p, r) ==
  /\ r.op = "job" /\ agents[r.agent] # "absent" /\ (Joined(r.agent) \/ r.agent = Lead)
  /\ Begin(p, r, [Creating(Idle, r.agent, 0, "general", None, "schedule")
                    EXCEPT !.pref = r.pool, !.caps = r.caps])
  /\ UNCHANGED <<poolVars, intakeVars>>

\* POST /agents/{id}/heartbeat; what is queued for an agent that is there runs.
Heartbeat(p, r) ==
  /\ r.op = "beat" /\ runtimes[r.agent] # "absent"
  /\ UpdateRuntime(r.agent, r.presence)
  /\ Begin(p, r, IF CanDispatch(r.agent)' THEN [Idle EXCEPT !.agent = r.agent, !.pc = "pending"]
                 ELSE Idle)
  /\ UNCHANGED <<agents, stored, contexts, jobs, intakeVars>>

DispatchPending(p) ==
  /\ At(p, "pending")
  /\ jobs' = [j \in DOMAIN jobs |->
       IF jobs[j].agent = h[p].agent /\ jobs[j].status = "queued" /\ CanDispatch(h[p].agent)
         THEN [jobs[j] EXCEPT !.status = "running"] ELSE jobs[j]]
  /\ Return(p)
  /\ UNCHANGED <<agents, runtimes, stored, contexts, intakeVars, ghosts>>
----------------------------------------------------------------------------
(* CommandHandler.handle_command: the message is stored, what follows may *)
(* still be refused                                                       *)

ResolveTarget(p) ==
  /\ At(p, "command")
  /\ LET names == h[p].req.names IN
     Become(p,
       IF names # <<>> /\ AllResolvable(names)
         THEN [h[p] EXCEPT !.target = Resolve(Head(names)), !.pc = "permit"]
       ELSE IF names = <<>> /\ FromAgent(p)
         THEN [h[p] EXCEPT !.target = h[p].req.sender, !.pc = "permit"]
       ELSE Idle)
  /\ UNCHANGED <<poolVars, intakeVars, ghosts>>

Permit(p) ==
  /\ At(p, "permit")
  /\ IF FromAgent(p) =>
          /\ Joined(h[p].req.sender)
          /\ MayCommand(members[h[p].req.sender], h[p].req.command, h[p].target)
       THEN Become(p, IF h[p].req.command = "new"
              THEN Creating(h[p], h[p].target, h[p].message, h[p].req.channel, None, "record")
              ELSE [h[p] EXCEPT !.pc = "target"])
       ELSE Return(p)
  /\ UNCHANGED <<poolVars, intakeVars, ghosts>>

ControlOf(p) == [message |-> h[p].message, command |-> h[p].req.command, job |-> h[p].job]

\* Mutant: the event of a command is recorded as soon as its job is known.
TargetJobRecorded(p) ==
  /\ At(p, "target")
  /\ LET all == JobsOf(h[p].target)
         open == {j \in all : jobs[j].status \notin TerminalStatuses}
         among == IF open # {} THEN open ELSE all
         j == CHOOSE j \in among : \A k \in among : k <= j
     IN  /\ Become(p, IF among = {} THEN Idle ELSE [h[p] EXCEPT !.job = j, !.pc = "effect"])
         /\ events' = IF among = {} THEN events
              ELSE events \union {[ControlOf(p) EXCEPT !.job = j]}
  /\ UNCHANGED <<poolVars, members, active, messages, lastMessage, signals, ghosts>>
\* _resolve_target_job: the latest job that is not over, else the latest.
TargetJob(p) ==
  /\ At(p, "target")
  /\ LET all == JobsOf(h[p].target)
         open == {j \in all : jobs[j].status \notin TerminalStatuses}
         among == IF open # {} THEN open ELSE all
     IN  Become(p, IF among = {} THEN Idle
           ELSE [h[p] EXCEPT !.job = CHOOSE j \in among : \A k \in among : k <= j,
                             !.pc = "effect"])
  /\ UNCHANGED <<poolVars, intakeVars, ghosts>>

\* The relay engine or the review service takes the call, or refuses it.
Effect(p) ==
  /\ At(p, "effect")
  /\ \/ Return(p) /\ UNCHANGED <<jobs, signals>>
     \/ /\ signals' = signals \union {ControlOf(p)}
        /\ IF h[p].req.command = "interrupt"
             THEN UpdateJob(h[p].job, [jobs[h[p].job] EXCEPT !.status = "canceled"])
             ELSE UNCHANGED jobs
        /\ Goto(p, "record")
  /\ UNCHANGED <<agents, runtimes, stored, contexts, members, active, messages, lastMessage,
                 events, ghosts>>

RecordCommand(p) ==
  /\ At(p, "record")
  /\ events' = events \union {ControlOf(p)}
  /\ IF h[p].req.command = "new" THEN Goto(p, "schedule") ELSE Return(p)
  /\ UNCHANGED <<poolVars, members, active, messages, lastMessage, signals, ghosts>>
----------------------------------------------------------------------------
(* Participants and rules *)

\* POST /participants: no row yet, the runtime as it is now ...
Join(p, r) ==
  /\ r.op = "join" /\ agents[r.agent] # "absent" /\ ~Joined(r.agent)
  /\ Begin(p, r, [Idle EXCEPT
       !.member = Member(requests + 1, r.agent,
                         IF r.role # None THEN r.role ELSE DefaultRole(agents[r.agent], r.agent = Lead),
                         r.grant, r.deny),
       !.pc = "join"])
  /\ UNCHANGED <<poolVars, intakeVars>>

\* ... then the row, unless there is one by now (UNIQUE (session_id, agent_id)).
InsertParticipant(p) ==
  /\ At(p, "join")
  /\ IF Joined(h[p].member.agent) THEN UNCHANGED members ELSE InsertMember(h[p].member)
  /\ Return(p)
  /\ UNCHANGED <<poolVars, active, messages, lastMessage, signals, events, ghosts>>

\* PATCH /participants: the role is the agent's default unless one is named.
Patch(p, r) ==
  /\ r.op = "patch" /\ Joined(r.agent)
  /\ LET row == members[r.agent]
         named == r.role # None
         role == IF named THEN r.role ELSE DefaultRole(agents[r.agent], row.lead)
     IN  Begin(p, r, [Idle EXCEPT
           !.member = [row EXCEPT !.role = role,
                                  !.policy = PolicyOnUpdate(role, row, named, r.grant, r.deny)],
           !.pc = "patch"])
  /\ UNCHANGED <<poolVars, intakeVars>>

SameRow(p) == members[h[p].member.agent].agent # None
              /\ members[h[p].member.agent].id = h[p].member.id

UpdateParticipant(p) ==
  /\ At(p, "patch")
  /\ IF SameRow(p) THEN UpdateMember(h[p].member) ELSE UNCHANGED members
  /\ Return(p)
  /\ UNCHANGED <<poolVars, active, messages, lastMessage, signals, events, ghosts>>

Leave(p, r) ==
  /\ r.op = "leave" /\ Joined(r.agent)
  /\ Begin(p, r, [Idle EXCEPT !.member = members[r.agent], !.pc = "leave"])
  /\ UNCHANGED <<poolVars, intakeVars>>

DeleteParticipant(p) ==
  /\ At(p, "leave")
  /\ IF SameRow(p) THEN DeleteMember(h[p].member.agent) ELSE UNCHANGED members
  /\ Return(p)
  /\ UNCHANGED <<poolVars, active, messages, lastMessage, signals, events, ghosts>>

\* POST /rules/{id}/activate, deactivate: no request writes another field.
SwitchRule(p, r) ==
  /\ r.op = "rule" /\ r.rule \in DOMAIN Rules
  /\ UpdateRule(r.rule, r.on)
  /\ Begin(p, r, Idle)
  /\ UNCHANGED <<poolVars, members, messages, lastMessage, signals, events>>
----------------------------------------------------------------------------
(* The process dies: every request in progress is lost *)

Crash ==
  /\ crashes < MaxCrashes /\ \E p \in Handlers : ~At(p, "idle")
  /\ h' = [p \in Handlers |-> Idle]
  /\ crashes' = crashes + 1
  /\ UNCHANGED <<poolVars, intakeVars, requests, overlapped, conflicts>>

MessageStep(p) ==
  \/ Preview(p) \/ CheckSender(p) \/ StoreMessage(p) \/ TouchSession(p)
  \/ Route(p) \/ InsertMention(p) \/ NextJob(p)
  \/ Schedule(p) \/ Reroute(p) \/ Hold(p) \/ Dispatch(p) \/ DispatchPending(p)

CommandStep(p) == \/ ResolveTarget(p) \/ Permit(p) \/ TargetJob(p)
                  \/ Effect(p) \/ RecordCommand(p)

MemberStep(p) == InsertParticipant(p) \/ UpdateParticipant(p) \/ DeleteParticipant(p)

IntakeRequest(p, r) ==
  \/ PostMessage(p, r) \/ CreateJob(p, r) \/ Heartbeat(p, r)
  \/ Join(p, r) \/ Patch(p, r) \/ Leave(p, r) \/ SwitchRule(p, r)

Next ==
  \/ \E p \in Handlers :
       \/ PoolStep(p) /\ UNCHANGED intakeVars
       \/ MessageStep(p) \/ CommandStep(p) \/ MemberStep(p)
       \/ \E r \in Requests : \/ PoolRequest(p, r) /\ UNCHANGED intakeVars
                              \/ IntakeRequest(p, r)
  \/ Crash

Spec == Init /\ [][Next]_vars
----------------------------------------------------------------------------
Places ==
  {"idle", "plan", "select", "runtime", "insert", "read_context", "write_context",
   "recover", "store_pool", "store_runtime", "preview", "sender", "store", "session",
   "route", "mention", "next_job", "schedule", "reroute", "hold", "dispatch", "pending",
   "command", "permit", "target", "effect", "record", "join", "patch", "leave"}

\* The rows of the tables and the places of the handlers.
TypeOK ==
  /\ agents \in [Agents -> Roles \union {"absent"}]
  /\ runtimes \in [Agents -> RuntimeStatuses]
  /\ stored \subseteq CustomPools
  /\ \A j \in DOMAIN jobs : /\ jobs[j].agent \in Agents
                            /\ jobs[j].runtime \in {jobs[j].agent, None}
                            /\ jobs[j].source \in 0..Len(messages)
                            /\ jobs[j].status \in {"queued", "running", "input_required", "canceled"}
  /\ DOMAIN contexts = DOMAIN jobs
  /\ \A j \in DOMAIN contexts : contexts[j] \in ContextRows \union {NoContext}
  /\ \A a \in Agents : members[a] = NotMember \/ members[a] \in MemberRows
  /\ active \in [DOMAIN Rules -> BOOLEAN]
  /\ lastMessage \in 0..Len(messages)
  /\ signals \subseteq Control /\ events \subseteq Control
  /\ \A p \in Handlers : h[p].pc \in Places /\ h[p].job \in 0..Len(jobs)

Serving(m) == {p \in Handlers : h[p].message = m}

\* A message makes at most one job for an agent, only for agents it mentions or
\* targets, and one for every agent it mentions once its request is answered; a
\* process that dies, or a work context that another request inserted first, can
\* end the request half-way (JobService.create_jobs_for_mentions).
MentionJobs ==
  \A m \in DOMAIN messages :
    LET made == {j \in DOMAIN jobs : jobs[j].source = m}
        mentioned == {messages[m].mentions[i] : i \in DOMAIN messages[m].mentions}
        given == {jobs[j].agent : j \in made}
    IN  /\ Cardinality(given) = Cardinality(made)
        /\ messages[m].command = None => given \subseteq mentioned
        /\ Serving(m) = {} => crashes > 0 \/ conflicts \/ mentioned \subseteq given

\* A command that was refused leaves its message and nothing else: an event
\* command.* is there for each command that was carried out and only for those,
\* except while its request is in progress or where it was cut short
\* (CommandHandler.handle_command).
CommandTrail ==
  /\ \A e \in events :
       IF e.command = "new" THEN jobs[e.job].source = e.message ELSE e \in signals
  /\ \A m \in DOMAIN messages :
       LET done == {s \in signals : s.message = m}
           made == {j \in DOMAIN jobs : jobs[j].source = m}
           told == {e \in events : e.message = m}
       IN  \/ messages[m].command = None /\ done = {} /\ told = {}
           \/ Cardinality(told) = Cardinality(done) + Cardinality(made)
           \/ told = {} /\ (Serving(m) # {} \/ crashes > 0 \/ conflicts)
=============================================================================
