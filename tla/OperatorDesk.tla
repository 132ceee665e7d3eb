----------------------------- MODULE OperatorDesk -----------------------------
(***************************************************************************)
(* The actions of the operator surface: approve, reject, retry, resume,    *)
(* cancel and activate a phase.  Each reads its target, refuses or goes on *)
(* to the service that makes the change (which reads the row again), and   *)
(* then records an audit event with the result.                            *)
(*                                                                         *)
(* What the turns of a job do, and whether the relay engine knows its      *)
(* thread, is modelled in JobLifecycle; here a job moves between statuses  *)
(* by itself, and a call to the relay engine succeeds or raises.           *)
(***************************************************************************)
EXTENDS SessionSetup

CONSTANTS
  Jobs0,      \* the jobs rows in the beginning, one of each session and status
  Approvals0, \* the approval requests in the beginning: their jobs
  MaxMoves    \* bound: moves of jobs that no request makes

VARIABLES
  jobs,          \* the jobs rows
  approvals,     \* the approval_requests rows
  jobEvents,     \* the job_events rows
  sessionEvents, \* the session_events rows
  effects,       \* requests whose service call changed its target or found it changed
  lost,          \* requests that raised, or died, after that
  moves          \* how often a job moved by itself

deskVars == <<jobs, approvals, jobEvents, sessionEvents, effects, lost, moves>>
trail == <<jobEvents, sessionEvents, lost, moves>>

JobDecisions == [approve |-> "accepted", reject |-> "declined"]
Requeued == [retry |-> "retry_requested", resume |-> "resumed"]
RetryableStatuses == {"failed", "canceled", "paused_by_loop_guard"}
ResumableStatuses == {"queued", "input_required", "auth_required", "paused_by_loop_guard"}
Startable == [retry |-> RetryableStatuses, resume |-> ResumableStatuses]
TerminalStatuses == {"completed", "failed"}

Job(session, status, at) == [session |-> session, status |-> status, marker |-> None, at |-> at]

\* Jobs are numbered rows with a time, and an approval request names one.
ASSUME RowsAssumption ==
  /\ IsFiniteSet(DOMAIN Jobs0) /\ DOMAIN Jobs0 \subseteq Nat
  /\ \A j \in DOMAIN Jobs0 : /\ Jobs0[j] = Job(Jobs0[j].session, Jobs0[j].status, Jobs0[j].at)
                             /\ Jobs0[j].at \in Nat
  /\ \A a \in DOMAIN Approvals0 : Approvals0[a] \in DOMAIN Jobs0

DeskInit ==
  /\ SetupInit
  /\ jobs = Jobs0
  /\ approvals = [a \in DOMAIN Approvals0 |-> [job |-> Approvals0[a], status |-> "pending"]]
  /\ jobEvents = {} /\ sessionEvents = {}
  /\ effects = {} /\ lost = {} /\ moves = 0

UpdateJob(j, row) == jobs' = [jobs EXCEPT ![j].status = row.status, ![j].marker = row.marker]
UpdateApproval(a, status) == approvals' = [approvals EXCEPT ![a].status = status]
Held(row) == [status |-> row.status, marker |-> row.marker]
Effect(p) == effects' = effects \union {h[p].n}
----------------------------------------------------------------------------
(* The audit: stamped when it is built, inserted by the next call *)

Audited(p, local, result) ==
  /\ Tick
  /\ Become(p, [local EXCEPT !.pc = "audit", !.result = result, !.now = clock'])

RecordAudit(p) ==
  /\ At(p, "audit")
  /\ sessionEvents' = sessionEvents \union
       {[session |-> h[p].session, type |-> h[p].req.op, result |-> h[p].result,
         n |-> h[p].n, at |-> h[p].now]}
  /\ Return(p)
  /\ UNCHANGED <<setupVars, clock, ghosts, jobs, approvals, jobEvents, effects, lost, moves>>

\* An action that ends at its first read: the audit is all it does.
Ends(p, r, local, result) ==
  /\ Tick
  /\ Begin(p, r, [local EXCEPT !.pc = "audit", !.result = result, !.now = clock'])
Proceeds(p, r, local) == Begin(p, r, local) /\ UNCHANGED clock
----------------------------------------------------------------------------
(* Approve and reject *)

DecideApproval(p, r) ==
  /\ r.op \in DOMAIN JobDecisions
  /\ LET a == approvals[r.approval]
         local == [Idle EXCEPT !.pc = "decide", !.session = jobs[a.job].session, !.job = a.job]
     IN  IF a.status # "pending" THEN Ends(p, r, local, "failed") ELSE Proceeds(p, r, local)
  /\ UNCHANGED <<setupVars, deskVars>>

\* The manager reads the approval again; a decided one raises without audit.
CheckApproval(p) ==
  /\ At(p, "decide")
  /\ IF approvals[h[p].req.approval].status # "pending"
       THEN Return(p) /\ UNCHANGED clock
       ELSE Tick /\ Become(p, [h[p] EXCEPT !.pc = "resolve", !.now = clock'])
  /\ UNCHANGED <<setupVars, ghosts, deskVars>>

WriteApproval(p) ==
  /\ At(p, "resolve")
  /\ UpdateApproval(h[p].req.approval, JobDecisions[h[p].req.op])
  /\ Effect(p)
  /\ Goto(p, "read")
  /\ UNCHANGED <<setupVars, clock, ghosts, jobs, trail>>

ReadJob(p) ==
  /\ At(p, "read")
  /\ Become(p, [h[p] EXCEPT !.pc = "write", !.held = Held(jobs[h[p].job])])
  /\ UNCHANGED <<setupVars, clock, ghosts, deskVars>>

Decided(op, row) ==
  [marker |-> JobDecisions[op],
   status |-> IF op = "reject" THEN "canceled"
              ELSE IF row.status = "input_required" THEN "queued" ELSE "running"]

WriteDecided(p) ==
  /\ At(p, "write")
  /\ UpdateJob(h[p].job, Decided(h[p].req.op, h[p].held))
  /\ Goto(p, "jobEvent")
  /\ UNCHANGED <<setupVars, clock, ghosts, approvals, effects, trail>>

\* The events of a decision, or of an interrupt, carry the time it was made.
Event(p) == [session |-> h[p].session, at |-> h[p].now, n |-> 0,
             type |-> h[p].req.op, result |-> None]
RecordJobEvent(p) ==
  /\ At(p, "jobEvent")
  /\ jobEvents' = jobEvents \union {Event(p)}
  /\ Goto(p, "sessionEvent")
  /\ UNCHANGED <<setupVars, clock, ghosts, jobs, approvals, sessionEvents, effects, lost, moves>>

RecordSessionEvent(p) ==
  /\ At(p, "sessionEvent")
  /\ sessionEvents' = sessionEvents \union {Event(p)}
  /\ IF h[p].req.op \in DOMAIN JobDecisions
       THEN Audited(p, h[p], "applied")
       ELSE Goto(p, "reread") /\ UNCHANGED clock
  /\ UNCHANGED <<setupVars, ghosts, jobs, approvals, jobEvents, effects, lost, moves>>
----------------------------------------------------------------------------
(* Retry and resume *)

Duplicate(op, row) == row.status = "queued" /\ row.marker = Requeued[op]

RestartJob(p, r) ==
  /\ r.op \in DOMAIN Requeued
  /\ LET row == jobs[r.job]
         local == [Idle EXCEPT !.session = row.session, !.job = r.job]
     IN  IF Duplicate(r.op, row) THEN Ends(p, r, local, "duplicate")
         ELSE IF row.status \notin Startable[r.op] THEN Ends(p, r, local, "failed")
         ELSE Proceeds(p, r, [local EXCEPT !.pc = "requeue"])
  /\ UNCHANGED <<setupVars, deskVars>>

\* Mutant: a job that may no longer be retried is answered like any other.
RequeueAnswered(p) ==
  /\ At(p, "requeue")
  /\ LET op == h[p].req.op
         row == jobs[h[p].job]
     IN  IF Duplicate(op, row) THEN Goto(p, "reread") /\ Effect(p)
         ELSE /\ IF row.status \notin Startable[op] THEN Goto(p, "reread")
                 ELSE Become(p, [h[p] EXCEPT !.pc = "requeued", !.held = Held(row)])
              /\ UNCHANGED effects
  /\ UNCHANGED <<setupVars, clock, ghosts, jobs, approvals, trail>>

\* The queue reads the job again: a duplicate is answered, another status raises.
Requeue(p) ==
  /\ At(p, "requeue")
  /\ LET op == h[p].req.op
         row == jobs[h[p].job]
     IN  IF Duplicate(op, row) THEN Goto(p, "reread") /\ Effect(p)
         ELSE /\ IF row.status \notin Startable[op] THEN Return(p)
                 ELSE Become(p, [h[p] EXCEPT !.pc = "requeued", !.held = Held(row)])
              /\ UNCHANGED effects
  /\ UNCHANGED <<setupVars, clock, ghosts, jobs, approvals, trail>>

WriteQueued(p) ==
  /\ At(p, "requeued")
  /\ UpdateJob(h[p].job, [status |-> "queued", marker |-> Requeued[h[p].req.op]])
  /\ Effect(p)
  /\ Goto(p, "schedule")
  /\ UNCHANGED <<setupVars, clock, ghosts, approvals, trail>>

\* The job is held, or its turn begins; a relay that fails raises.
Schedule(p) ==
  /\ At(p, "schedule")
  /\ \/ /\ \/ UNCHANGED jobs
           \/ UpdateJob(h[p].job, [jobs[h[p].job] EXCEPT !.status = "running"])
        /\ Goto(p, "reread")
        /\ UNCHANGED lost
     \/ /\ lost' = lost \union {h[p].n}
        /\ Return(p)
        /\ UNCHANGED jobs
  /\ UNCHANGED <<setupVars, clock, ghosts, approvals, jobEvents, sessionEvents, effects, moves>>

Reread(p) ==
  /\ At(p, "reread")
  /\ Audited(p, h[p], "applied")
  /\ UNCHANGED <<setupVars, ghosts, deskVars>>
----------------------------------------------------------------------------
(* Cancel *)

CancelJob(p, r) ==
  /\ r.op = "cancel"
  /\ LET row == jobs[r.job]
         local == [Idle EXCEPT !.session = row.session, !.job = r.job, !.held = Held(row)]
     IN  IF row.status = "canceled" THEN Ends(p, r, local, "duplicate")
         ELSE IF row.status \in TerminalStatuses THEN Ends(p, r, local, "failed")
         ELSE Proceeds(p, r, [local EXCEPT !.pc = IF row.status = "running" THEN "interrupt" ELSE "cancel"])
  /\ UNCHANGED <<setupVars, deskVars>>

\* A job that has ended meanwhile is left alone, and the audit says applied; one
\* without a thread is cancelled from the row that was read first.
Interrupt(p) ==
  /\ At(p, "interrupt")
  /\ LET row == jobs[h[p].job]
         ended == row.status \in TerminalStatuses \union {"canceled"} \/ row.marker = "interrupted"
     IN  \/ ended /\ Goto(p, "reread") /\ Effect(p) /\ UNCHANGED clock
         \/ ~ended /\ Goto(p, "cancel") /\ UNCHANGED <<effects, clock>>
         \/ ~ended /\ Tick /\ UNCHANGED effects
            /\ Become(p, [h[p] EXCEPT !.pc = "interrupted", !.held = Held(row), !.now = clock'])
  /\ UNCHANGED <<setupVars, ghosts, jobs, approvals, trail>>

\* turn/interrupt answers, or raises before the job is touched.
WriteInterrupted(p) ==
  /\ At(p, "interrupted")
  /\ \/ Return(p) /\ UNCHANGED <<jobs, effects>>
     \/ /\ UpdateJob(h[p].job, [status |-> "canceled", marker |-> "interrupted"])
        /\ Effect(p)
        /\ Goto(p, "jobEvent")
  /\ UNCHANGED <<setupVars, clock, ghosts, approvals, trail>>

CancelDirectly(p) ==
  /\ At(p, "cancel")
  /\ UpdateJob(h[p].job, [status |-> "canceled", marker |-> "operator_canceled"])
  /\ Effect(p)
  /\ Audited(p, h[p], "applied")
  /\ UNCHANGED <<setupVars, ghosts, approvals, trail>>
----------------------------------------------------------------------------
(* Activate a phase *)

ActivatePhase(p, r) ==
  /\ r.op = "activate_phase" /\ Exists(r.session)
  /\ LET local == [Idle EXCEPT !.session = r.session, !.row = sessions[r.session]] IN
     IF local.row.status # "active" THEN Ends(p, r, local, "failed")
     ELSE Proceeds(p, r, [local EXCEPT !.pc = "ensurePhases", !.then = "lookup"])
  /\ UNCHANGED <<setupVars, deskVars>>

\* The active phase is that of the session read before the presets were seeded.
LookupPhase(p) ==
  /\ At(p, "lookup")
  /\ LET r == h[p].req IN
     IF r.phase \notin Keys(phases[r.session]) THEN Audited(p, h[p], "failed")
     ELSE IF h[p].row.active = r.phase THEN Audited(p, h[p], "duplicate")
     ELSE /\ Become(p, [h[p] EXCEPT !.pc = "ensurePhases", !.then = "target"])
          /\ UNCHANGED clock
  /\ UNCHANGED <<setupVars, ghosts, deskVars>>

Activation(p) ==
  /\ h[p].req.op = "activate_phase"
  /\ LET answer == Audited(p, h[p], "applied") IN
     TargetPhase(p, answer) \/ WritePhase(p, answer)
  /\ IF h'[p].pc = "audit" THEN Effect(p) ELSE UNCHANGED effects
  /\ UNCHANGED <<jobs, approvals, trail>>
----------------------------------------------------------------------------
\* A turn of JobLifecycle: it starts, ends, asks, or is paused.
Moves == [queued |-> {"running", "paused_by_loop_guard"},
          running |-> {"completed", "failed", "auth_required"}]
JobMoves(j) ==
  /\ moves < MaxMoves /\ jobs[j].status \in DOMAIN Moves
  /\ \E status \in Moves[jobs[j].status] : UpdateJob(j, [jobs[j] EXCEPT !.status = status])
  /\ moves' = moves + 1
  /\ UNCHANGED <<setupVars, clock, ghosts, h, approvals, jobEvents, sessionEvents, effects, lost>>

Crash ==
  /\ crashes < MaxCrashes
  /\ crashes' = crashes + 1
  /\ h' = [p \in Handlers |-> Idle]
  /\ lost' = lost \union ({h[p].n : p \in Handlers} \intersect effects)
  /\ UNCHANGED <<setupVars, clock, requests, applied, jobs, approvals, jobEvents,
                 sessionEvents, effects, moves>>

DeskBegins(p) ==
  \E r \in Requests :
    DecideApproval(p, r) \/ RestartJob(p, r) \/ CancelJob(p, r) \/ ActivatePhase(p, r)

DeskSteps(p) ==
  \/ CheckApproval(p) \/ WriteApproval(p) \/ ReadJob(p) \/ WriteDecided(p)
  \/ RecordJobEvent(p) \/ RecordSessionEvent(p) \/ Requeue(p) \/ WriteQueued(p)
  \/ Schedule(p) \/ Reread(p) \/ Interrupt(p) \/ WriteInterrupted(p) \/ CancelDirectly(p)
  \/ LookupPhase(p) \/ Activation(p) \/ RecordAudit(p)

Serve(p) ==
  \/ (SetupBegins(p) \/ SetupSteps(p) \/ SetupActivation(p)) /\ UNCHANGED deskVars
  \/ DeskBegins(p) \/ DeskSteps(p)

\* The audit trail of the operator surface tells what happened: whoever competes
\* for a job, an approval or a phase, an action is audited as applied if and only
\* if its service call took effect, but for one still in progress and one that
\* raised or died in between (approve_approval ... activate_phase, _record_audit).
AuditTrail ==
  LET told(n) == \E e \in sessionEvents : e.n = n /\ e.result = "applied"
      busy(n) == \E p \in Handlers : h[p].n = n
  IN  \A n \in 1..requests :
        /\ told(n) => n \in effects \ lost
        /\ n \in effects => told(n) \/ busy(n) \/ n \in lost
=============================================================================
