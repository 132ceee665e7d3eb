---------------------------- MODULE OperatorSurface ----------------------------
(***************************************************************************)
(* The operator surface as a whole: sessions are set up, operators act on  *)
(* their jobs, approvals and phases, and clients poll the activity of a    *)
(* session.  A poll reads the session, then the tables of the dashboard,   *)
(* then those of the feed, each table by a call of its own and in any      *)
(* order (asyncio.gather), while everything goes on.                       *)
(***************************************************************************)
EXTENDS OperatorDesk, ActivityFeed

CONSTANTS
  Clients,   \* clients that poll
  Watched,   \* the sessions they look at
  Limits,    \* the limit of each poll
  Elsewhere, \* the tables other components write: reviews, runs, contexts, tasks,
             \* hooks, deliveries and pools
  MaxPolls   \* bound: polls of a client

ASSUME WatchedAssumption == Watched \subseteq Sessions
\* There are finitely many sessions and tasks, tasks are of sessions there are, and
\* no session and no pool has the name that stands for no filter.
ASSUME ElsewhereAssumption ==
  /\ IsFiniteSet(Sessions) /\ IsFiniteSet(DOMAIN Elsewhere.tasks)
  /\ \A k \in DOMAIN Elsewhere.tasks : Elsewhere.tasks[k].session \in Opened
  /\ NoKey \notin Sessions \union DOMAIN Elsewhere.pools

VARIABLES
  view,    \* the poll each client makes, and what it knows from earlier ones
  lasting  \* the troubles that have lasted since the client's poll began

watchVars == <<view, lasting>>
vars == <<setupVars, clock, h, ghosts, deskVars, watchVars>>

DashboardTables == {"sessions", "phases", "jobs", "approvals"}
FeedTables == {"jobs", "approvals", "sessionEvents", "jobEvents", "phases"}

\* The first poll of a client, with since 0.
Unread(s) == [pc |-> "idle", session |-> s, active |-> None, todo |-> {}, read |-> <<>>,
              cursor |-> 0, given |-> {}, fresh |-> {}, state |-> None, polls |-> 0,
              dashboard |-> <<>>]

SessionRows == Restrict(sessions, {s \in Sessions : Exists(s)})
PhaseRows == phases
JobRows == jobs
ApprovalRows == approvals
SessionEventRows == sessionEvents
JobEventRows == jobEvents
Stored == [sessions |-> SessionRows, phases |-> PhaseRows, jobs |-> JobRows,
           approvals |-> ApprovalRows, sessionEvents |-> SessionEventRows,
           jobEvents |-> JobEventRows]

\* Tables as the dashboard takes them.
Tables(read) ==
  [sessions |-> read.sessions, jobs |-> read.jobs, approvals |-> read.approvals,
   phases |-> [s \in Sessions |-> Keys(read.phases[s])],
   reviews |-> Elsewhere.reviews, runs |-> Elsewhere.runs, contexts |-> Elsewhere.contexts,
   tasks |-> Elsewhere.tasks, hooks |-> Elsewhere.hooks,
   deliveries |-> Elsewhere.deliveries, pools |-> Elsewhere.pools]
OfSession(s) == Filters(s, NoKey, NoKey, NoKey)

\* What an operator should be told of, at this moment.
Troubles(s) ==
  LET of(statuses) == {j \in DOMAIN jobs : jobs[j].session = s /\ jobs[j].status \in statuses}
      waiting == {a \in DOMAIN approvals : approvals[a].status = "pending"
                                           /\ jobs[approvals[a].job].session = s}
      down == {k \in DOMAIN Elsewhere.pools : Elsewhere.pools[k].status = "offline"}
  IN  {<<"warning", "job", ToString(j)>> : j \in of({"input_required", "auth_required", "paused_by_loop_guard", "failed"})}
      \union {<<"critical", "job", ToString(j)>> : j \in of({"paused_by_loop_guard", "failed"})}
      \union {<<"warning", "approval", ToString(a)>> : a \in waiting}
      \union {<<"critical", "pool", ToString(k)>> : k \in down}
----------------------------------------------------------------------------
Poll(c) ==
  LET v == view[c] IN
  /\ v.pc = "idle" /\ v.polls < MaxPolls /\ Exists(v.session)
  /\ view' = [view EXCEPT ![c] =
       [v EXCEPT !.pc = "dashboard", !.todo = DashboardTables, !.polls = @ + 1,
                 !.active = sessions[v.session].active,
                 !.given = @ \union v.fresh, !.fresh = {}, !.state = None]]

\* The next calls of a gather to answer.
ReadTables(c) ==
  LET v == view[c] IN
  /\ v.pc \in {"dashboard", "feed"} /\ v.todo # {}
  /\ \E some \in SUBSET v.todo \ {{}} :
       view' = [view EXCEPT ![c].todo = @ \ some,
                            ![c].read = [t \in some \union DOMAIN @ |->
                                           IF t \in some THEN Stored[t] ELSE @[t]]]

LoadDashboard(c) ==
  LET v == view[c] IN
  /\ v.pc = "dashboard" /\ v.todo = {}
  /\ view' = [view EXCEPT ![c] =
       [v EXCEPT !.pc = "feed", !.todo = FeedTables, !.read = <<>>,
                 !.dashboard = View(Tables(v.read), OfSession(v.session))]]

\* The active phase is the one of the session row that was read first.
FeedRows(v) == [sessionEvents |-> v.read.sessionEvents, jobEvents |-> v.read.jobEvents,
                jobs |-> v.read.jobs, approvals |-> v.read.approvals,
                phaseRows |-> v.read.phases]
Answer(c, limit) ==
  LET v == view[c]
      rows == FeedRows(v)
      drafts == Drafts(rows, v.session, v.active)
      given == Materialize(drafts, v.cursor, limit)
  IN  /\ v.pc = "feed" /\ v.todo = {}
      /\ view' = [view EXCEPT ![c] =
           [v EXCEPT !.pc = "idle", !.read = <<>>, !.active = None,
                     !.fresh = {d.key : d \in given},
                     !.cursor = NextCursor(given, drafts, v.cursor),
                     !.state = IncidentState(Signals(rows, v.session, v.dashboard)),
                     !.dashboard = <<>>]]

Watch(c) ==
  /\ Poll(c) \/ ReadTables(c) \/ LoadDashboard(c) \/ \E limit \in Limits : Answer(c, limit)
  /\ UNCHANGED <<setupVars, clock, h, ghosts, deskVars>>

\* A crash ends the polls under way; their clients poll again.
Cut(v) == [v EXCEPT !.pc = "idle", !.todo = {}, !.read = <<>>, !.dashboard = <<>>, !.active = None]
Server ==
  \/ ((\E p \in Handlers : Serve(p)) \/ (\E j \in DOMAIN jobs : JobMoves(j))) /\ UNCHANGED view
  \/ Crash /\ view' = [c \in Clients |-> Cut(view[c])]

\* A poll that begins starts with the troubles there are, and loses those that end.
Started(c) ==
  lasting' = [lasting EXCEPT ![c] = IF view[c].pc = "idle" THEN Troubles(view[c].session) ELSE @]
Fade ==
  lasting' = [c \in Clients |-> IF view[c].pc = "idle" THEN lasting[c]
                                ELSE lasting[c] \intersect Troubles(view[c].session)']

Init ==
  /\ DeskInit
  /\ view \in [Clients -> {Unread(s) : s \in Watched}]
  /\ lasting = [c \in Clients |-> {}]
Next ==
  \/ Server /\ Fade
  \/ \E c \in Clients : Watch(c) /\ Started(c)

Spec == Init /\ [][Next]_vars
----------------------------------------------------------------------------
(* Properties *)

Current(v) ==
  LET rows == [sessionEvents |-> sessionEvents, jobEvents |-> jobEvents, jobs |-> jobs,
               phaseRows |-> phases]
  IN  Drafts(rows, v.session, sessions[v.session].active)

\* Positions are the cursor of the feed, and the list grows in the middle and has
\* a phase row that moves.  Even so a client that polls on gets to what is newest:
\* what is younger than all it was given, and than the phases, is always numbered
\* above its cursor (get_session_activity, _materialize_events).
FeedReachesNewest ==
  \A c \in Clients :
    LET v == view[c]
        older == v.given \union v.fresh
                 \union {SortKey(f.at, 3, 0) : f \in phases[v.session]}
    IN  v.pc = "idle" =>
          \A d \in Current(v) :
            (\A k \in older : k < d.key) => Sequence(d, Current(v)) > v.cursor

\* The tables behind one answer are read at different moments.  Trouble that
\* lasts from the first to the last is in the verdict all the same, and what is
\* critical makes it an incident (_build_signals, _build_incident_summary).
NothingHidden ==
  \A c \in Clients :
    LET v == view[c] IN
    v.state # None =>
      /\ lasting[c] # {} => v.state # "healthy"
      /\ (\E x \in lasting[c] : x[1] = "critical") => v.state = "incident"

\* A filter selects and changes no count: what the dashboard shows of a session, a
\* phase or a pool is what it shows of them without a filter, and the sessions add
\* up to the whole, whatever moments the tables are from (_filter_snapshot and the
\* builders, which filter the same rows once more).
FiltersSelect ==
  \A c \in Clients : view[c].pc = "dashboard" /\ view[c].todo = {} =>
    LET t == Tables(view[c].read)
        all == View(t, Filters(NoKey, NoKey, NoKey, NoKey))
        of(s) == View(t, Filters(s, NoKey, NoKey, NoKey))
        some(g) == View(t, Filters(g[1], NoKey, g[2], g[3])).heat
        under(g, x) == x[1] = g[1] /\ Passes(g[2], x[2]) /\ Passes(g[3], x[3])
        sum(n) == FoldSet(LAMBDA s, m : n[s] + m, 0, DOMAIN t.sessions)
    IN  /\ \A g \in DOMAIN all.heat : some(g) = Restrict(all.heat, {x \in DOMAIN all.heat : under(g, x)})
        /\ \A k \in DOMAIN t.pools :
             /\ View(t, Filters(NoKey, NoKey, NoKey, k)).pools = Restrict(all.pools, {k})
             /\ all.pools[k].blocked = sum([s \in DOMAIN t.sessions |-> of(s).pools[k].blocked])
        /\ \A s \in DOMAIN t.sessions : Diagnostics(of(s)).degraded = Diagnostics(all).degraded
        /\ Diagnostics(all).inFlight = sum([s \in DOMAIN t.sessions |-> Diagnostics(of(s)).inFlight])

\* OPERATOR_UI.md: a poll with the cursor of the last one "returns only events
\* after that cursor".  Nothing comes twice.
FeedAfterCursor == \A c \in Clients : view[c].fresh \intersect view[c].given = {}
=============================================================================
