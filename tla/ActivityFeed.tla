----------------------------- MODULE ActivityFeed -----------------------------
(***************************************************************************)
(* The activity of one session as an operator sees it: a list made anew at *)
(* every poll from the events, jobs, messages and the active phase, sorted *)
(* and numbered by position, and the signals that say what needs care.     *)
(*                                                                         *)
(* A row is an event of the list, with its sort key: the time and the rank *)
(* of its source.  Times differ but for the two events of one decision,    *)
(* whose ranks differ, so positions can be counted.                        *)
(***************************************************************************)
EXTENDS Naturals, FiniteSets, Dashboard

\* sort_key: the time, then session events, job events, jobs, the phase, then the
\* id, which tells apart at most fifteen jobs of one time.
SortKey(at, rank, id) == 64 * at + 16 * rank + id
Draft(at, rank, id, kind) == [key |-> SortKey(at, rank, id), kind |-> kind]

SessionEventDrafts(t, s) == {Draft(e.at, 0, 0, "event") : e \in {e \in t.sessionEvents : e.session = s}}
JobEventDrafts(t, s) == {Draft(e.at, 1, 0, "jobEvent") : e \in {e \in t.jobEvents : e.session = s}}
JobDrafts(t, s) ==
  {Draft(t.jobs[j].at, 2, j, "job") : j \in {j \in DOMAIN t.jobs : t.jobs[j].session = s}}
\* The phase row keeps the time it was seeded; activating it does not touch it.
PhaseDrafts(t, s, active) ==
  {Draft(f.at, 3, 0, "phase") : f \in {f \in t.phaseRows[s] : f.key = active}}

Drafts(t, s, active) ==
  SessionEventDrafts(t, s) \union JobEventDrafts(t, s)
  \union JobDrafts(t, s) \union PhaseDrafts(t, s, active)

Sequence(d, drafts) == Cardinality({e \in drafts : e.key <= d.key})

\* The first poll gives the end of the list, a later one what follows its cursor.
Materialize(drafts, since, limit) ==
  {d \in drafts : IF since = 0 THEN Sequence(d, drafts) + limit > Cardinality(drafts)
                  ELSE Sequence(d, drafts) \in (since + 1)..(since + limit)}
\* Mutant: the cursor is the first position that was not given.
CursorPastLast(given, drafts, since) ==
  IF given = {} THEN since ELSE 1 + Cardinality({d \in drafts : \E g \in given : d.key <= g.key})
NextCursor(given, drafts, since) ==
  IF given = {} THEN since
  ELSE CHOOSE n \in {Sequence(d, drafts) : d \in given} :
         \A d \in given : Sequence(d, drafts) <= n
----------------------------------------------------------------------------
(* Signals: severity, kind and what they are about *)

Signal(severity, kind, about) == [severity |-> severity, kind |-> kind, about |-> about]

ApprovalSignals(t, s) ==
  LET jobs == {j \in DOMAIN t.jobs : t.jobs[j].session = s}
      waiting == {a \in DOMAIN t.approvals : t.approvals[a].status = "pending" /\ t.approvals[a].job \in jobs}
  IN  {Signal("warning", "pending_approval", a) : a \in waiting}

\* Mutant: a job counts as an error only with an error message, which a failed one
\* need not have.
ErrorSignalsByMessage(t, s) == {}
ErrorSignals(t, s) ==
  {Signal("critical", "recent_error", j) :
    j \in {j \in DOMAIN t.jobs : t.jobs[j].session = s /\ t.jobs[j].status = "failed"}}

StuckSignals(t, s) ==
  {Signal(IF t.jobs[j].status = "paused_by_loop_guard" THEN "critical" ELSE "warning", "stuck_job", j) :
    j \in {j \in DOMAIN t.jobs : t.jobs[j].session = s /\ t.jobs[j].status \in BlockedStatuses}}

PhaseSignals(view) ==
  {Signal("warning", "phase_bottleneck", k) :
    k \in {k \in DOMAIN view.phases :
             view.phases[k].blocked + view.phases[k].reviews + view.phases[k].gates > 0}}

PoolSignals(view) ==
  LET load(k) == view.pools[k].queued + view.pools[k].blocked + view.pools[k].reviews + view.pools[k].tasks
      quiet(k) == view.pools[k].status = "ready" /\ load(k) = 0
      down(k) == view.pools[k].status \in {"offline", "crashed"}
  IN  {Signal(IF down(k) THEN "critical" ELSE "warning", "runtime_health", k) :
        k \in {k \in DOMAIN view.pools : ~quiet(k)}}

Signals(t, s, view) ==
  ApprovalSignals(t, s) \union ErrorSignals(t, s) \union StuckSignals(t, s)
  \union PhaseSignals(view) \union PoolSignals(view)

\* The signal the summary is made of decides its state.
TopSeverity(signals) ==
  IF \E g \in signals : g.severity = "critical" THEN "critical"
  ELSE IF signals # {} THEN "warning" ELSE "none"
IncidentState(signals) ==
  LET top == TopSeverity(signals) IN
  IF top = "none" THEN "healthy" ELSE IF top = "critical" THEN "incident" ELSE "watch"
=============================================================================
