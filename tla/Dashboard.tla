------------------------------ MODULE Dashboard ------------------------------
(***************************************************************************)
(* What the operator dashboard computes from the tables it has read: a     *)
(* snapshot is filtered by session, phase, pool or relay template, and the *)
(* builders filter its rows once more when they count them.                *)
(*                                                                         *)
(* A table is a function from ids to rows.  The lists of the code are sets *)
(* here: the order of the rows, the ten bottlenecks it keeps, the texts,   *)
(* the ages and the telemetry samples are left out.                        *)
(* The pools are what the pool diagnostics say of them, from reads of      *)
(* their own.                                                              *)
(***************************************************************************)
EXTENDS Naturals, FiniteSets, Functions

NoKey == "none"
Filters(session, template, phase, pool) ==
  [session |-> session, template |-> template, phase |-> phase, pool |-> pool]

BlockedStatuses == {"input_required", "auth_required", "paused_by_loop_guard"}
PendingTaskStatuses == {"queued", "running", "input_required", "auth_required"}

\* The indexes are built once, from the tables before any filter.
Snapshot(t) ==
  LET poolOf == [j \in DOMAIN t.jobs |->
                   IF j \in DOMAIN t.contexts THEN t.contexts[j].pool ELSE NoKey]
      phaseOf == [s \in DOMAIN t.sessions |->
                   IF t.sessions[s].active \in t.phases[s] THEN t.sessions[s].active ELSE NoKey]
      phaseAt(s) == IF s \in DOMAIN phaseOf THEN phaseOf[s] ELSE NoKey
  IN  [rows |-> t, sessions |-> DOMAIN t.sessions, jobOf |-> t.jobs,
       poolOf |-> poolOf, phaseOf |-> phaseOf,
       jobPhase |-> [j \in DOMAIN t.jobs |-> phaseAt(t.jobs[j].session)]]

\* The value of an index, None for what it does not hold.
Lookup(index, key) == IF key \in DOMAIN index THEN index[key] ELSE NoKey
Passes(wanted, value) == wanted \in {NoKey, value}
TaskPhase(S, k) == Lookup(S.jobPhase, S.rows.tasks[k].job)
TaskPool(S, k) == Lookup(S.poolOf, S.rows.tasks[k].job)
TaskNamed(S, task) == {k \in DOMAIN S.rows.tasks : S.rows.tasks[k].task = task}
----------------------------------------------------------------------------
(* Which rows a filter lets pass *)

SessionMatches(S, f, s) ==
  /\ Passes(f.session, s) /\ Passes(f.phase, S.phaseOf[s])
  /\ f.pool # NoKey =>
       \E j \in DOMAIN S.rows.jobs : S.rows.jobs[j].session = s /\ S.poolOf[j] = f.pool

\* Mutant: the pool filter is left to the sessions that have a job in the pool.
JobMatchesAnyPool(S, f, j) ==
  /\ S.rows.jobs[j].session \in S.sessions
  /\ Passes(f.session, S.rows.jobs[j].session) /\ Passes(f.phase, S.jobPhase[j])
JobMatches(S, f, j) ==
  /\ S.rows.jobs[j].session \in S.sessions
  /\ Passes(f.session, S.rows.jobs[j].session)
  /\ Passes(f.phase, S.jobPhase[j]) /\ Passes(f.pool, S.poolOf[j])

ReviewMatches(S, f, v) ==
  LET row == S.rows.reviews[v] IN
  /\ row.session \in S.sessions /\ row.status = "requested"
  /\ Passes(f.session, row.session) /\ Passes(f.phase, S.phaseOf[row.session])
  /\ Passes(f.template, row.template) /\ Passes(f.pool, Lookup(S.poolOf, row.job))

RunMatches(S, f, u) ==
  LET row == S.rows.runs[u] IN
  /\ row.session \in S.sessions
  /\ Passes(f.session, row.session) /\ Passes(f.phase, row.phase)
  /\ Passes(f.pool, Lookup(S.poolOf, row.job))

ContextMatches(S, f, j) ==
  /\ Passes(f.session, S.rows.contexts[j].session)
  /\ Passes(f.pool, Lookup(S.poolOf, j)) /\ Passes(f.phase, Lookup(S.jobPhase, j))

TaskMatches(S, f, k) ==
  /\ Passes(f.session, S.rows.tasks[k].session)
  /\ Passes(f.phase, TaskPhase(S, k)) /\ Passes(f.pool, TaskPool(S, k))
  /\ Passes(f.template, S.rows.tasks[k].template)

ApprovalMatches(S, f, a) ==
  LET j == S.rows.approvals[a].job IN
  /\ S.rows.approvals[a].status = "pending" /\ j \in DOMAIN S.jobOf
  /\ Passes(f.session, S.jobOf[j].session)
  /\ Passes(f.phase, S.jobPhase[j]) /\ Passes(f.pool, S.poolOf[j])

\* Registrations and deliveries follow their task; without one they show only
\* where no session is asked for.
TaskPasses(S, f, task) ==
  IF TaskNamed(S, task) = {} THEN f.session = NoKey
  ELSE \A k \in TaskNamed(S, task) : TaskMatches(S, f, k)
HookMatches(S, f, w) ==
  /\ Passes(f.session, S.rows.hooks[w].session)
  /\ TaskPasses(S, f, S.rows.hooks[w].task)
DeliveryMatches(S, f, hooks, d) ==
  /\ S.rows.deliveries[d].hook \in hooks
  /\ Passes(f.session, S.rows.deliveries[d].session)
  /\ TaskPasses(S, f, S.rows.deliveries[d].task)

Keep(table, Matches(_)) == Restrict(table, {i \in DOMAIN table : Matches(i)})

FilterSnapshot(S, f) ==
  LET t == S.rows
      hooks == Keep(t.hooks, LAMBDA w : HookMatches(S, f, w))
  IN  [S EXCEPT !.rows =
        [t EXCEPT
          !.sessions = Keep(t.sessions, LAMBDA s : SessionMatches(S, f, s)),
          !.jobs = Keep(t.jobs, LAMBDA j : JobMatches(S, f, j)),
          !.reviews = Keep(t.reviews, LAMBDA v : ReviewMatches(S, f, v)),
          !.runs = Keep(t.runs, LAMBDA u : RunMatches(S, f, u)),
          !.contexts = Keep(t.contexts, LAMBDA j : ContextMatches(S, f, j)),
          !.tasks = Keep(t.tasks, LAMBDA k : TaskMatches(S, f, k)),
          !.approvals = Keep(t.approvals, LAMBDA a : ApprovalMatches(S, f, a)),
          !.hooks = hooks,
          !.deliveries = Keep(t.deliveries, LAMBDA d : DeliveryMatches(S, f, DOMAIN hooks, d)),
          !.pools = IF f.pool = NoKey THEN @ ELSE Keep(@, LAMBDA k : k = f.pool)]]
----------------------------------------------------------------------------
(* Aggregates *)

JobsWith(S, f, statuses) ==
  {j \in DOMAIN S.rows.jobs : JobMatches(S, f, j) /\ S.rows.jobs[j].status \in statuses}
PendingReviews(S, f) == {v \in DOMAIN S.rows.reviews : ReviewMatches(S, f, v)}
Tasks(S, f) == {k \in DOMAIN S.rows.tasks : TaskMatches(S, f, k)}

QueueHeat(S, f) ==
  LET place(j) == <<S.rows.jobs[j].session, S.jobPhase[j], S.poolOf[j]>>
      shown == {j \in DOMAIN S.rows.jobs : JobMatches(S, f, j)}
      count(g, statuses) == Cardinality({j \in JobsWith(S, f, statuses) : place(j) = g})
  IN  [g \in {place(j) : j \in shown} |->
        [queued |-> count(g, {"queued"}), running |-> count(g, {"running"}),
         blocked |-> count(g, BlockedStatuses),
         total |-> Cardinality({j \in shown : place(j) = g})]]

\* A pending gate counts in its run's phase; all else in its session's.
PhaseDistribution(S, f) ==
  LET sessions == {s \in DOMAIN S.rows.sessions : SessionMatches(S, f, s)}
      gates == {u \in DOMAIN S.rows.runs : RunMatches(S, f, u) /\ S.rows.runs[u].gate = "pending"}
      in(k, statuses) == Cardinality({j \in JobsWith(S, f, statuses) : S.jobPhase[j] = k})
      row(k) ==
        [sessions |-> Cardinality({s \in sessions : S.phaseOf[s] = k}),
         queued |-> in(k, {"queued"}), running |-> in(k, {"running"}),
         blocked |-> in(k, BlockedStatuses),
         reviews |-> Cardinality({v \in PendingReviews(S, f) : S.phaseOf[S.rows.reviews[v].session] = k}),
         gates |-> Cardinality({u \in gates : S.rows.runs[u].phase = k}),
         tasks |-> Cardinality({k2 \in Tasks(S, f) : TaskPhase(S, k2) = k})]
      phases == ({S.phaseOf[s] : s \in sessions}
                 \union {S.jobPhase[j] : j \in JobsWith(S, f, {"queued", "running"} \union BlockedStatuses)}
                 \union {S.phaseOf[S.rows.reviews[v].session] : v \in PendingReviews(S, f)}
                 \union {S.rows.runs[u].phase : u \in gates}
                 \union {TaskPhase(S, k) : k \in Tasks(S, f)}) \ {NoKey}
  IN  [k \in phases |-> row(k)]

ReviewBottlenecks(S, f) ==
  LET place(v) == LET r == S.rows.reviews[v] IN <<r.session, r.template, r.channel, r.scope>>
      shown == PendingReviews(S, f)
  IN  [g \in {place(v) : v \in shown} |-> Cardinality({v \in shown : place(v) = g})]

PoolHealth(S, f) ==
  LET in(k, statuses) == Cardinality({j \in JobsWith(S, f, statuses) : S.poolOf[j] = k})
  IN  [k \in {k \in DOMAIN S.rows.pools : Passes(f.pool, k)} |->
        [status |-> S.rows.pools[k].status, waiting |-> S.rows.pools[k].waiting,
         queued |-> in(k, {"queued"}), blocked |-> in(k, BlockedStatuses),
         reviews |-> Cardinality({v \in PendingReviews(S, f) : Lookup(S.poolOf, S.rows.reviews[v].job) = k}),
         tasks |-> Cardinality({i \in Tasks(S, f) : TaskPool(S, i) = k
                                                  /\ S.rows.tasks[i].status \in PendingTaskStatuses})]]

Throughput(S, f) ==
  [status \in {"queued", "running", "input_required", "auth_required",
               "completed", "failed", "canceled"} |->
    Cardinality({k \in Tasks(S, f) : S.rows.tasks[k].status = status})]

WebhookSummary(S, f) ==
  LET hooks == {w \in DOMAIN S.rows.hooks : HookMatches(S, f, w)}
      sent == {d \in DOMAIN S.rows.deliveries : DeliveryMatches(S, f, hooks, d)}
      with(status) == Cardinality({d \in sent : S.rows.deliveries[d].status = status})
  IN  [registrations |-> Cardinality(hooks),
       active |-> Cardinality({w \in hooks : S.rows.hooks[w].status = "active"}),
       pending |-> with("pending"), retrying |-> with("retrying"),
       failed |-> with("failed"), delivered |-> with("delivered")]

Bottlenecks(phases, pools, reviews) ==
  LET stuck(k) == phases[k].blocked + phases[k].reviews + phases[k].gates
      load(k) == pools[k].blocked + pools[k].queued + pools[k].waiting
                 + pools[k].reviews + pools[k].tasks
  IN  {<<"phase", k, stuck(k)>> : k \in {k \in DOMAIN phases : stuck(k) > 0}}
      \union {<<"runtime_pool", k, load(k)>> : k \in {k \in DOMAIN pools : load(k) > 0}}
      \union {<<"review", g, reviews[g]>> : g \in DOMAIN reviews}

Diagnostics(view) ==
  [bottleneck |-> view.bottlenecks # {},
   degraded |-> {k \in DOMAIN view.pools : view.pools[k].status # "ready"},
   inFlight |-> view.tasks["queued"] + view.tasks["running"]
                + view.tasks["input_required"] + view.tasks["auth_required"],
   retries |-> view.webhooks.failed > 0 \/ view.webhooks.retrying > 0]

View(tables, f) ==
  LET S == FilterSnapshot(Snapshot(tables), f)
      phases == PhaseDistribution(S, f)
      pools == PoolHealth(S, f)
      reviews == ReviewBottlenecks(S, f)
  IN  [heat |-> QueueHeat(S, f), phases |-> phases, pools |-> pools, reviews |-> reviews,
       tasks |-> Throughput(S, f), webhooks |-> WebhookSummary(S, f),
       bottlenecks |-> Bottlenecks(phases, pools, reviews)]
=============================================================================
