---------------------------- MODULE RuntimePools ----------------------------
(***************************************************************************)
(* Runtime pools and work contexts: which pool a job is placed in, and the *)
(* row that says so.  The pool is chosen by counting the contexts that are *)
(* there, the job is inserted, the pool is chosen AGAIN and only then is   *)
(* the context written; nothing locks the pool in between, and no code     *)
(* ever releases a context.                                                *)
(*                                                                         *)
(* One step is one repository call, or a read that is followed by          *)
(* branching.  h[p] holds the local variables of the handler that serves a *)
(* request.  An agent has one runtime (POST /agents makes both), so a      *)
(* runtime is named by its agent.                                          *)
(***************************************************************************)
EXTENDS Integers, Sequences, FiniteSets, ParticipantPolicies

CONSTANTS
  Handlers,      \* the requests the server runs at a time
  Agents,        \* agents that exist or may be created
  Registered,    \* the agents that exist, with a runtime, in the beginning
  RoleOf,        \* the role each agent is created with
  CustomPools,   \* keys of the pools clients may create
  PoolRow,       \* the row of each of them
  Placed0,       \* the jobs there are in the beginning: the contexts they are placed in
  Requests,      \* what clients ask for: records with a field op
  MaxRequests,   \* bound: requests that begin
  MaxOverlapped, \* bound: the same where two have been in progress at once
  MaxCrashes     \* bound: process crashes

VARIABLES
  agents,     \* the role of each agent, "absent" before it is created
  runtimes,   \* runtime_status of each agent's runtime
  stored,     \* the keys in the runtime_pools table
  contexts,   \* the work_contexts row of each job (job_id UNIQUE)
  jobs,       \* the jobs rows
  requests,   \* how many requests began
  crashes,    \* how often the process crashed
  overlapped, \* two requests have been in progress at the same time
  conflicts,  \* a request has died of a violated UNIQUE constraint half-way
  h           \* the requests in progress: their local variables

poolVars == <<agents, runtimes, stored, contexts, jobs>>
counters == <<requests, crashes, overlapped>>
ghosts == <<counters, conflicts>>

Roles == {"planner", "builder", "reviewer", "researcher", "tester"}
Dispatchable == {"starting", "online", "busy"}
RuntimeStatuses == Dispatchable \union {"absent", "offline"}
None == "none"

ASSUME HandlersAssumption == IsFiniteSet(Handlers)
ASSUME AgentsAssumption ==
  /\ Registered \subseteq Agents /\ None \notin Agents
  /\ RoleOf \in [Agents -> Roles]
----------------------------------------------------------------------------
(* Pools *)

DefaultPool == "general_shared"
BuiltinPools == {DefaultPool, "isolated_work"}
PoolKeys == BuiltinPools \union CustomPools

Pool(max, needs, fallback, kind) ==
  [max |-> max, needs |-> needs, fallback |-> fallback, kind |-> kind]
PoolRows == [max : Nat, needs : SUBSET {"can_code", "can_review", "can_plan"},
             fallback : PoolKeys \union {None}, kind : {"codex", "other"}]

\* Keys of built-ins are reserved, and a pool falls back to an older one.
ASSUME PoolsAssumption ==
  /\ CustomPools \intersect (BuiltinPools \union {None}) = {}
  /\ PoolRow \in [CustomPools -> PoolRows]

Row(k) == CASE k = DefaultPool -> Pool(4, {}, None, "codex")
            [] k = "isolated_work" -> Pool(1, {}, DefaultPool, "codex")
            [] OTHER -> PoolRow[k]

\* list_pools: the built-in pools, then the stored ones.
Pools == BuiltinPools \union stored

Capabilities(role) == CASE role = "builder" -> {"can_code"}
                        [] role = "reviewer" -> {"can_review"}
                        [] role = "planner" -> {"can_plan"}
                        [] OTHER -> {}

NoContext == [pool |-> None, agent |-> None, runtime |-> None,
              status |-> "absent", owned |-> FALSE]
ContextRows == [pool : PoolKeys, agent : Agents, runtime : Agents \union {None},
                status : {"active", "fallback", "waiting", "recovered"},
                owned : BOOLEAN]
InUse == {"active", "fallback", "recovered"}

\* Nothing but the default pool is full in the beginning.
ASSUME PlacedAssumption ==
  /\ Placed0 \in Seq(ContextRows)
  /\ \A j \in DOMAIN Placed0 : /\ Placed0[j].agent \in Registered
                               /\ Placed0[j].runtime = Placed0[j].agent
                               /\ Placed0[j].pool = DefaultPool

ListByPool(k) == {j \in DOMAIN contexts : contexts[j].pool = k}

\* Mutant: one context too many is let in.
AtCapacityLate(k) ==
  /\ Row(k).max > 0
  /\ Cardinality({j \in ListByPool(k) : contexts[j].status \in InUse}) > Row(k).max
AtCapacity(k) ==
  /\ Row(k).max > 0
  /\ Cardinality({j \in ListByPool(k) : contexts[j].status \in InUse}) >= Row(k).max

Supports(k, has, required) == Row(k).needs \union required \subseteq has

ContextStatus(runtime, fallback) ==
  IF runtime = None THEN "waiting" ELSE IF fallback THEN "fallback" ELSE "active"
----------------------------------------------------------------------------
(* Rows and local variables *)

JobRow(agent, source, runtime, channel) ==
  [agent |-> agent, source |-> source, runtime |-> runtime, channel |-> channel,
   status |-> "queued"]

NotMember == [id |-> 0, agent |-> None, role |-> "builder", lead |-> FALSE,
              runtime |-> None, policy |-> NoPolicy]

Idle == [pc |-> "idle", req |-> [op |-> None], cont |-> "idle",
         \* placing a job
         job |-> 0, agent |-> None, source |-> 0, channel |-> None,
         explicit |-> None, pref |-> None, caps |-> {}, pool |-> None,
         visited |-> {}, fallback |-> FALSE, runtime |-> None,
         exists |-> FALSE, context |-> NoContext,
         \* serving a message
         message |-> 0, target |-> None, todo |-> <<>>, made |-> <<>>,
         row |-> JobRow(None, 0, None, None), held |-> FALSE,
         member |-> NotMember]

At(p, pc) == h[p].pc = pc
Become(p, l) == h' = [h EXCEPT ![p] = l]
Goto(p, pc) == h' = [h EXCEPT ![p].pc = pc]
\* The response is sent; an exception that nothing catches ends here too.
Return(p) == Become(p, Idle)

\* Request r arrives; its handler goes on with the locals l.
Begin(p, r, l) ==
  /\ r \in Requests /\ At(p, "idle")
  /\ overlapped' = (overlapped \/ \E q \in Handlers \ {p} : ~At(q, "idle"))
  /\ requests < IF overlapped' THEN MaxOverlapped ELSE MaxRequests
  /\ requests' = requests + 1
  /\ Become(p, [l EXCEPT !.req = r])
  /\ UNCHANGED <<crashes, conflicts>>

PoolInit ==
  /\ agents = [a \in Agents |-> IF a \in Registered THEN RoleOf[a] ELSE "absent"]
  /\ runtimes = [a \in Agents |-> IF a \in Registered THEN "starting" ELSE "absent"]
  /\ stored = {} /\ contexts = Placed0
  /\ jobs = [j \in DOMAIN Placed0 |-> JobRow(Placed0[j].agent, 0, Placed0[j].runtime, "general")]
  /\ requests = 0 /\ crashes = 0 /\ overlapped = FALSE /\ conflicts = FALSE
  /\ h = [p \in Handlers |-> Idle]

InsertAgent(a) == agents' = [agents EXCEPT ![a] = RoleOf[a]]
UpdateAgent(a, role) == agents' = [agents EXCEPT ![a] = role]
InsertRuntime(a) == runtimes' = [runtimes EXCEPT ![a] = "starting"]
UpdateRuntime(a, status) == runtimes' = [runtimes EXCEPT ![a] = status]
InsertPool(k) == stored' = stored \union {k}
PoolStored(k) == k \in stored
ContextOf(j) == contexts[j]
UpdateContext(j, row) == contexts' = [contexts EXCEPT ![j] = row]
----------------------------------------------------------------------------
(* plan_assignment: choose a pool, then a runtime.  The agent is there: no *)
(* request deletes one.                                                    *)

\* The pool the choice starts from: the preferred one if there is such a pool.
FirstPool(pref) == IF pref \in Pools THEN pref ELSE DefaultPool

PlanAssignment(p) ==
  /\ At(p, "plan")
  /\ Become(p, [h[p] EXCEPT !.pool = FirstPool(h[p].pref), !.visited = {},
                            !.fallback = FALSE, !.pc = "select"])
  /\ UNCHANGED <<poolVars, ghosts>>

\* The pool tried after k: its fallback, else the default one, else none.
NextPool(k, visited) ==
  LET f == Row(k).fallback IN
  IF f \in Pools \ visited THEN f
  ELSE IF DefaultPool \notin visited THEN DefaultPool ELSE None

\* One round of the loop of _select_pool.
SelectPool(p) ==
  /\ At(p, "select")
  /\ LET k == h[p].pool
         seen == h[p].visited \union {k}
         taken == /\ Supports(k, Capabilities(agents[h[p].agent]), h[p].caps)
                  /\ ~AtCapacity(k)
         next == NextPool(k, seen)
     IN  Become(p, IF taken \/ next = None
                     THEN [h[p] EXCEPT !.visited = seen, !.pc = "runtime"]
                     ELSE [h[p] EXCEPT !.visited = seen, !.pool = next,
                                       !.fallback = TRUE])
  /\ UNCHANGED <<poolVars, ghosts>>

\* The explicit runtime if it exists, else the agent's if the pool's kind fits.
Resolved(agent, kind, explicit) ==
  IF explicit # None THEN explicit
  ELSE IF kind = "codex" /\ runtimes[agent] # "absent" THEN agent ELSE None

ResolveRuntime(p) ==
  /\ At(p, "runtime")
  /\ Become(p, [h[p] EXCEPT
       !.runtime = Resolved(h[p].agent, Row(h[p].pool).kind, h[p].explicit),
       !.pc = IF h[p].job = 0 THEN "insert" ELSE "read_context"])
  /\ UNCHANGED <<poolVars, ghosts>>
----------------------------------------------------------------------------
(* create_job_for_agent: plan, insert the job, assign_work_context_for_job *)

\* The locals that create a job and then go on at cont.
Creating(l, agent, source, channel, explicit, cont) ==
  [l EXCEPT !.agent = agent, !.source = source, !.channel = channel,
            !.explicit = explicit, !.cont = cont, !.job = 0, !.pc = "plan"]

\* Mutant: a job whose agent has no runtime yet is given no context.
InsertJobLazily(p) ==
  /\ At(p, "insert")
  /\ LET runtime == IF h[p].explicit # None THEN h[p].explicit ELSE h[p].runtime IN
     /\ jobs' = Append(jobs, JobRow(h[p].agent, h[p].source, runtime, h[p].channel))
     /\ contexts' = Append(contexts, NoContext)
     /\ Become(p, [h[p] EXCEPT !.job = Len(jobs) + 1, !.explicit = runtime,
                               !.pc = IF runtime = None THEN h[p].cont ELSE "plan"])
  /\ UNCHANGED <<agents, runtimes, stored, ghosts>>
InsertJob(p) ==
  /\ At(p, "insert")
  /\ LET runtime == IF h[p].explicit # None THEN h[p].explicit ELSE h[p].runtime IN
     /\ jobs' = Append(jobs, JobRow(h[p].agent, h[p].source, runtime, h[p].channel))
     /\ contexts' = Append(contexts, NoContext)
     /\ Become(p, [h[p] EXCEPT !.job = Len(jobs) + 1, !.explicit = runtime,
                               !.pc = "plan"])
  /\ UNCHANGED <<agents, runtimes, stored, ghosts>>

\* create_or_update_context: look for the row of the job ...
ReadContext(p) ==
  /\ At(p, "read_context")
  /\ Become(p, [h[p] EXCEPT !.exists = ContextOf(h[p].job) # NoContext,
                            !.pc = "write_context"])
  /\ UNCHANGED <<poolVars, ghosts>>

Planned(l) ==
  [pool |-> l.pool, agent |-> l.agent, runtime |-> l.runtime,
   status |-> ContextStatus(l.runtime, l.fallback), owned |-> ~l.fallback]

\* The job is placed; what was needed for that is forgotten.
Placed(l) ==
  [l EXCEPT !.pc = l.cont, !.cont = "idle", !.made = Append(@, l.job), !.explicit = None, !.pref = None,
            !.caps = {}, !.pool = None, !.visited = {}, !.fallback = FALSE,
            !.runtime = None, !.exists = FALSE]

\* ... and insert or update it.  The response follows where nothing else does.
WriteContext(p) ==
  /\ At(p, "write_context")
  /\ IF ~h[p].exists /\ ContextOf(h[p].job) # NoContext
       THEN Return(p) /\ conflicts' = TRUE /\ UNCHANGED contexts \* job_id UNIQUE
       ELSE /\ UpdateContext(h[p].job, Planned(h[p]))
            /\ IF h[p].cont = "idle" THEN Return(p) ELSE Become(p, Placed(h[p]))
            /\ UNCHANGED conflicts
  /\ UNCHANGED <<agents, runtimes, stored, jobs, counters>>
----------------------------------------------------------------------------
(* The requests about pools, contexts, agents and their presence *)

\* POST /runtime-pools/{key}/assign; the key need not name a pool.
Assign(p, r) ==
  /\ r.op = "assign" /\ r.job \in DOMAIN jobs
  /\ Begin(p, r, [Idle EXCEPT !.job = r.job, !.agent = jobs[r.job].agent,
                              !.pref = r.pool, !.caps = r.caps, !.pc = "plan"])
  /\ UNCHANGED poolVars

\* POST /work-contexts/{id}/recover: read the row ...
Recover(p, r) ==
  /\ r.op = "recover" /\ r.job \in DOMAIN jobs /\ ContextOf(r.job) # NoContext
  /\ Begin(p, r, [Idle EXCEPT !.job = r.job, !.context = ContextOf(r.job),
                              !.pc = "recover"])
  /\ UNCHANGED poolVars

\* ... and write it back bound to the agent's runtime, if there is one.
Rebind(p) ==
  /\ At(p, "recover")
  /\ LET row == h[p].context IN
     IF runtimes[row.agent] = "absent"
       THEN UNCHANGED contexts
       ELSE UpdateContext(h[p].job, [row EXCEPT
              !.runtime = row.agent,
              !.status = IF row.status = "active" THEN "active" ELSE "recovered"])
  /\ Return(p)
  /\ UNCHANGED <<agents, runtimes, stored, jobs, ghosts>>

\* POST /runtime-pools: the fallback must exist, the key must not ...
CreatePool(p, r) ==
  /\ r.op = "pool" /\ ~PoolStored(r.key)
  /\ PoolRow[r.key].fallback \in Pools \union {None}
  /\ Begin(p, r, [Idle EXCEPT !.pool = r.key, !.pc = "store_pool"])
  /\ UNCHANGED poolVars

\* ... and the row is inserted unless another request did it (pool_key UNIQUE).
StorePool(p) ==
  /\ At(p, "store_pool")
  /\ InsertPool(h[p].pool)
  /\ Return(p)
  /\ UNCHANGED <<agents, runtimes, contexts, jobs, ghosts>>

\* POST /agents inserts the agent (display_name UNIQUE), then its runtime.
CreateAgent(p, r) ==
  /\ r.op = "agent" /\ agents[r.agent] = "absent"
  /\ InsertAgent(r.agent)
  /\ Begin(p, r, [Idle EXCEPT !.agent = r.agent, !.pc = "store_runtime"])
  /\ UNCHANGED <<runtimes, stored, contexts, jobs>>

StoreRuntime(p) ==
  /\ At(p, "store_runtime")
  /\ InsertRuntime(h[p].agent)
  /\ Return(p)
  /\ UNCHANGED <<agents, stored, contexts, jobs, ghosts>>

\* PATCH /agents: the capabilities follow the role.
PatchAgent(p, r) ==
  /\ r.op = "role" /\ agents[r.agent] # "absent"
  /\ UpdateAgent(r.agent, r.role)
  /\ Begin(p, r, Idle)
  /\ UNCHANGED <<runtimes, stored, contexts, jobs>>

\* Where a handler is about to write the context of a job it created.
Placing == {"plan", "select", "runtime", "read_context", "write_context"}

PoolStep(p) ==
  \/ PlanAssignment(p) \/ SelectPool(p) \/ ResolveRuntime(p)
  \/ InsertJob(p) \/ ReadContext(p) \/ WriteContext(p)
  \/ Rebind(p) \/ StorePool(p) \/ StoreRuntime(p)

PoolRequest(p, r) == \/ Assign(p, r) \/ Recover(p, r) \/ CreatePool(p, r)
                     \/ CreateAgent(p, r) \/ PatchAgent(p, r)
----------------------------------------------------------------------------
\* The contexts that were placed in pool k, not recovered into it.
PlacedIn(k) ==
  {j \in DOMAIN contexts : contexts[j].pool = k /\ contexts[j].status \in {"active", "fallback"}}

\* A pool other than the default one never holds more placed contexts than it
\* has room for, although _pool_is_at_capacity is evaluated several calls before
\* the context is written and a recovery writes back a row it read earlier;
\* requests that overlap can exceed the limit by one for each other handler
\* (RuntimePoolService.assign_work_context_for_job).
CapacityHeld ==
  \A k \in PoolKeys \ {DefaultPool} :
    Row(k).max > 0 =>
      Cardinality(PlacedIn(k)) <=
        Row(k).max + IF overlapped THEN Cardinality(Handlers) - 1 ELSE 0

\* A job without a work context is being given one, unless the process died
\* between the two inserts (JobService.create_job_for_agent).
ContextFollowsJob ==
  \A j \in DOMAIN jobs :
    contexts[j] = NoContext =>
      \/ crashes > 0
      \/ \E p \in Handlers : h[p].job = j /\ h[p].pc \in Placing
=============================================================================
