----------------------------- MODULE PhaseGates -----------------------------
(***************************************************************************)
(* Phases, orchestration runs, gates, reviews, gate approvals and policies *)
(* of one session.  A gate stops the run of the session until a review or  *)
(* an approval is decided; the decision moves session and run to the       *)
(* success or the failure phase.                                           *)
(*                                                                         *)
(* As in JobLifecycle one step is one repository call, or a read that is   *)
(* followed by branching; h[p] holds the local variables of the handler    *)
(* that serves request p, and a row it read earlier is written back WHOLE. *)
(* Session events, job events, telemetry and policy_decisions are          *)
(* append-only trails that no code of this module reads: they are left out *)
(* (as are the messages themselves; the session row written with a message *)
(* is here).                                                               *)
(***************************************************************************)
EXTENDS Integers, Sequences, FiniteSets, FiniteSetsExt

CONSTANTS
  Handlers,      \* the requests the server runs at a time
  SuccessPhases, \* success_phase_key of the gate requests: any string
  Activations,   \* phase keys clients activate by hand
  Policies,      \* the rows of the policies table, in the order of _list_sync
  Ops,           \* the requests clients send, a subset of AllOps
  MaxRequests,   \* bound: requests that begin once the session is created
  MaxOverlapped, \* bound: the same where two have been in progress at once
  MaxCrashes     \* bound: process crashes

AllOps == {"create", "start", "review_gate", "approval_gate", "request_review",
           "judge", "decide", "activate", "edit", "pause", "control"}

Presets == <<"planning", "implementation", "review", "revise", "finalize">>
PresetKeys == {Presets[i] : i \in 1..5}

ASSUME HandlersAssumption == IsFiniteSet(Handlers)
ASSUME BoundsAssumption ==
  MaxRequests \in Nat /\ MaxOverlapped \in 0..MaxRequests /\ MaxCrashes \in Nat
ASSUME OpsAssumption == Ops \subseteq AllOps /\ Activations \subseteq PresetKeys
ASSUME SuccessAssumption == "none" \notin SuccessPhases \* "none" stands for no phase

\* A row of the policies table, as far as the scope clauses and the decision
\* tell rows apart; a condition that lists values may be negated.
Condition == [key : {"phase_key", "current_phase_key"}, values : SUBSET STRING,
              negated : BOOLEAN]
PolicyRow == [session : {"none", "this", "other"}, phase : STRING,
              conditions : SUBSET Condition, decision : STRING, type : STRING]
ASSUME PoliciesAssumption == Policies \in Seq(PolicyRow)

VARIABLES
  session,    \* the sessions row
  phases,     \* the keys of the session's phases rows
  run,        \* the orchestration_runs row of the session (session_id UNIQUE)
  reviews,    \* session_reviews, in the order they were created
  approvals,  \* approval_requests made for gates
  jobs,       \* jobs: the source job, then hand-offs and revisions
  artifacts,  \* artifacts made for gates: what each describes
  flags,      \* is_active and automation_paused of each policy
  requests,   \* how many requests began
  crashes,    \* how often the process crashed
  overlapped, \* two requests have been in progress at the same time
  h           \* the requests in progress: their local variables

vars == <<session, phases, run, reviews, approvals, jobs, artifacts, flags,
          requests, crashes, overlapped, h>>
ghosts == <<requests, crashes, overlapped>>

----------------------------------------------------------------------------
(* Rows and local variables *)

PhaseKeys == PresetKeys \union SuccessPhases
MaybePhase == PhaseKeys \union {"none"}

NoSession == [exists |-> FALSE, active |-> "none", guard |-> "normal",
              title |-> "new"]
SessionRow == [exists : BOOLEAN, active : {"none"} \union PresetKeys,
               guard : {"normal", "paused"}, title : {"new", "edited"}]

NoRun == [status |-> "absent", phase |-> "none", pending |-> "none",
          failure |-> "revise", gate |-> "none", gateStatus |-> "idle",
          source |-> 0, handoff |-> 0, review |-> 0, approval |-> 0,
          transition |-> 0, decision |-> 0, revision |-> 0]
RunRow == [status : {"absent", "active", "blocked", "completed"},
           phase : MaybePhase, pending : MaybePhase, failure : PresetKeys,
           gate : {"none", "review_required", "approval_required"},
           gateStatus : {"idle", "pending", "approved", "rejected"},
           source : Nat, handoff : Nat, review : Nat, approval : Nat,
           transition : Nat, decision : Nat, revision : Nat]

NewReview(j) == [job |-> j, status |-> "requested", message |-> FALSE,
                 summary |-> 0, revision |-> 0]
ReviewRow == [job : Nat, status : {"requested", "approved", "changes_requested"},
              message : BOOLEAN, summary : Nat, revision : Nat]

ApprovalRow == [job : Nat, status : {"pending", "accepted", "declined"}]

\* `of` names the decision a revision job was made for.
NewJob(kind, parent, of) ==
  [kind |-> kind, parent |-> parent, of |-> of, status |-> "queued",
   scheduled |-> FALSE]

Artifact(about, job, phase) == [about |-> about, job |-> job, phase |-> phase]

Idle == [pc |-> "idle", op |-> "none", next |-> "none", cont |-> "none",
         todo |-> {}, job |-> 0, gate |-> "none", succ |-> "none",
         ok |-> FALSE, auto |-> FALSE, run |-> NoRun, target |-> "none",
         sess |-> NoSession, review |-> 0, row |-> NewReview(0),
         approval |-> 0, handoff |-> 0, artifact |-> 0, revision |-> 0,
         policy |-> 0, flag |-> [active |-> FALSE, paused |-> FALSE]]

At(p, pc) == h[p].pc = pc
Become(p, l) == h' = [h EXCEPT ![p] = l]
Goto(p, pc) == h' = [h EXCEPT ![p].pc = pc]
\* The response is sent; a raised LookupError or ValueError ends here too.
Return(p) == Become(p, Idle)

\* A request of a client that goes on at pc with the locals l; the one that
\* creates the session does not count against the bound.
Begin(p, op, l) ==
  /\ op \in Ops /\ At(p, "idle")
  /\ overlapped' = (overlapped \/ \E q \in Handlers \ {p} : ~At(q, "idle"))
  /\ op # "create" => /\ session.exists
                      /\ requests < IF overlapped' THEN MaxOverlapped ELSE MaxRequests
  /\ Become(p, [l EXCEPT !.op = op])
  /\ requests' = requests + IF op = "create" THEN 0 ELSE 1
  /\ UNCHANGED crashes

Init ==
  /\ session = NoSession /\ phases = {} /\ run = NoRun
  /\ reviews = <<>> /\ approvals = <<>> /\ artifacts = <<>>
  /\ jobs = <<[NewJob("source", 0, 0) EXCEPT !.status = "completed"]>>
  /\ flags = [i \in DOMAIN Policies |-> [active |-> TRUE, paused |-> FALSE]]
  /\ requests = 0 /\ crashes = 0 /\ overlapped = FALSE
  /\ h = [p \in Handlers |-> Idle]
----------------------------------------------------------------------------
(* The repositories: each call is one transaction *)

InsertPhase(key) == phases' = phases \union {key}
PhaseExists(key) == key \in phases
UpdateSession(row) == session' = row
InsertRun(row) == run' = row
UpdateRun(row) == run' = row
RunOfReview(r) == run.review = r
RunOfApproval(a) == run.approval = a
InsertReview(row) == reviews' = Append(reviews, row)
UpdateReview(r, row) == reviews' = [reviews EXCEPT ![r] = row]
ReviewsOfJob(j) == {r \in DOMAIN reviews : reviews[r].job = j}
InsertApproval(row) == approvals' = Append(approvals, row)
UpdateApproval(a, status) == approvals' = [approvals EXCEPT ![a].status = status]
InsertJob(row) == jobs' = Append(jobs, row)
UpdateJob(j, status) == jobs' = [jobs EXCEPT ![j].status = status]
InsertArtifact(row) == artifacts' = Append(artifacts, row)
UpdatePolicy(i, row) == flags' = [flags EXCEPT ![i] = row]
----------------------------------------------------------------------------
(* Phase rows: ensure_default_phases seeds the missing presets one by one *)

\* The locals that seed what is missing now and then go on at pc.
Seeded(l, pc) ==
  LET missing == {i \in DOMAIN Presets : Presets[i] \notin phases}
  IN  IF missing = {} THEN [l EXCEPT !.pc = pc]
                      ELSE [l EXCEPT !.pc = "seed", !.todo = missing, !.next = pc]

SeedOne(p) ==
  /\ At(p, "seed")
  /\ LET first == Min(h[p].todo)
         rest == h[p].todo \ {first}
     IN \* UNIQUE (session_id, phase_key): another request seeded it
        IF PhaseExists(Presets[first])
          THEN Return(p) /\ UNCHANGED phases
          ELSE /\ InsertPhase(Presets[first])
               /\ Become(p, [h[p] EXCEPT
                    !.todo = rest, !.pc = IF rest = {} THEN h[p].next ELSE @])
  /\ UNCHANGED <<session, run, reviews, approvals, jobs, artifacts, flags, ghosts>>

\* The phase get_active_phase returns once the presets are there.
ActivePhase == IF session.active = "none" THEN "planning" ELSE session.active

\* activate_phase_by_key: look the phase up, read the session row ...
FindPhase(p) ==
  /\ At(p, "find_phase")
  /\ IF PhaseExists(h[p].target)
       THEN Become(p, [h[p] EXCEPT
              !.pc = IF session.active = h[p].target THEN h[p].cont ELSE "set_phase",
              !.sess = session])
       ELSE Return(p)
  /\ UNCHANGED <<session, phases, run, reviews, approvals, jobs, artifacts, flags, ghosts>>

\* ... and write it back with the new active phase.
SetPhase(p) ==
  /\ At(p, "set_phase")
  /\ UpdateSession([h[p].sess EXCEPT !.active = h[p].target])
  /\ Goto(p, h[p].cont)
  /\ UNCHANGED <<phases, run, reviews, approvals, jobs, artifacts, flags, ghosts>>

Activated(l, key, cont) ==
  Seeded([l EXCEPT !.target = key, !.cont = cont], "find_phase")

CreateSession(p) ==
  /\ ~session.exists
  /\ session' = [NoSession EXCEPT !.exists = TRUE]
  /\ Begin(p, "create", Activated(Idle, "planning", "done"))
  /\ UNCHANGED <<phases, run, reviews, approvals, jobs, artifacts, flags>>

ActivateByHand(p, key) ==
  /\ Begin(p, "activate", Activated(Idle, key, "done"))
  /\ UNCHANGED <<session, phases, run, reviews, approvals, jobs, artifacts, flags>>

Done(p) ==
  /\ At(p, "done")
  /\ Return(p)
  /\ UNCHANGED <<session, phases, run, reviews, approvals, jobs, artifacts, flags, ghosts>>

\* PATCH /sessions and LoopGuard.pause_job: the other writers of the row.
ReadSession(p, op) ==
  /\ op \in {"edit", "pause"}
  /\ Begin(p, op, [Idle EXCEPT !.pc = op, !.sess = session])
  /\ UNCHANGED <<session, phases, run, reviews, approvals, jobs, artifacts, flags>>

EditSession(p) ==
  /\ At(p, "edit")
  /\ UpdateSession([h[p].sess EXCEPT !.title = "edited"])
  /\ Return(p)
  /\ UNCHANGED <<phases, run, reviews, approvals, jobs, artifacts, flags, ghosts>>

PauseSession(p) ==
  /\ At(p, "pause")
  /\ UpdateSession([h[p].sess EXCEPT !.guard = "paused"])
  /\ Return(p)
  /\ UNCHANGED <<phases, run, reviews, approvals, jobs, artifacts, flags, ghosts>>
----------------------------------------------------------------------------
(* OrchestrationEngineService.start_run *)

\* Seed, read the active phase, read the run, save it, go on at cont.
Started(l, cont) == Seeded([l EXCEPT !.cont = cont], "read_phase")

StartRun(p) ==
  /\ Begin(p, "start", Started(Idle, "done"))
  /\ UNCHANGED <<session, phases, run, reviews, approvals, jobs, artifacts, flags>>

ReadPhase(p) ==
  /\ At(p, "read_phase")
  /\ Become(p, [h[p] EXCEPT !.target = ActivePhase, !.pc = "read_run"])
  /\ UNCHANGED <<session, phases, run, reviews, approvals, jobs, artifacts, flags, ghosts>>

ReadRun(p) ==
  /\ At(p, "read_run")
  /\ Become(p, [h[p] EXCEPT
       !.run = run, !.pc = IF run.gateStatus = "pending" THEN h[p].cont ELSE "save_run"])
  /\ UNCHANGED <<session, phases, run, reviews, approvals, jobs, artifacts, flags, ghosts>>

\* A run that is (again) at a phase, with no gate.
AtPhase(row, key) ==
  [NoRun EXCEPT !.status = "active", !.phase = key, !.failure = row.failure]

SaveRun(p) ==
  /\ At(p, "save_run")
  /\ IF h[p].run = NoRun /\ run # NoRun \* UNIQUE (session_id): another request
       THEN Return(p) /\ UNCHANGED run
       ELSE /\ IF h[p].run = NoRun THEN InsertRun(AtPhase(NoRun, h[p].target))
                                    ELSE UpdateRun(AtPhase(h[p].run, h[p].target))
            /\ Become(p, [h[p] EXCEPT !.run = run', !.pc = h[p].cont])
  /\ UNCHANGED <<session, phases, reviews, approvals, jobs, artifacts, flags, ghosts>>
----------------------------------------------------------------------------
(* Policies *)

\* PolicyRepository._list_sync: the scope clauses are OR-ed.
Candidates(key) ==
  {i \in DOMAIN Policies : Policies[i].session = "this" \/ Policies[i].phase = key}

\* _matches_policy and _matches_expected, for the two phase conditions.
Expected(c, actual) ==
  IF c.negated THEN actual \notin c.values ELSE actual \in c.values
Matches(i, key, current) ==
  \A c \in Policies[i].conditions :
    Expected(c, IF c.key = "phase_key" THEN key ELSE current)

\* _resolve_decision
Decision(i) ==
  CASE Policies[i].decision # "none" -> Policies[i].decision
    [] Policies[i].decision = "none" /\ Policies[i].type = "conditional_auto_approve" -> "auto_approve"
    [] Policies[i].decision = "none" /\ Policies[i].type = "escalation" -> "escalate_review"
    [] OTHER -> "allow"

\* _evaluate: the first active policy that matches settles the gate; when
\* its automation is paused the gate is left to people.  0 is "no policy".
\* Mutant: a paused policy is passed over.
EvaluateUnpaused(key, current) ==
  LET hits == {i \in Candidates(key) :
                 flags[i].active /\ ~flags[i].paused /\ Matches(i, key, current)}
  IN  IF hits = {} THEN [policy |-> 0, decision |-> "allow"]
      ELSE [policy |-> Min(hits), decision |-> Decision(Min(hits))]
Evaluate(key, current) ==
  LET hits == {i \in Candidates(key) : flags[i].active /\ Matches(i, key, current)}
  IN  IF hits = {} THEN [policy |-> 0, decision |-> "allow"]
      ELSE [policy |-> Min(hits),
            decision |-> IF flags[Min(hits)].paused THEN "allow"
                                                    ELSE Decision(Min(hits))]

PauseAutomation(i) == [flags[i] EXCEPT !.paused = TRUE]
ResumeAutomation(i) == [flags[i] EXCEPT !.paused = FALSE]
ActivatePolicy(i) == [flags[i] EXCEPT !.active = TRUE]
DeactivatePolicy(i) == [flags[i] EXCEPT !.active = FALSE]

\* Each of them reads the row and writes it back.
ReadPolicy(p, i, flag) ==
  /\ Begin(p, "control", [Idle EXCEPT !.pc = "control", !.policy = i, !.flag = flag])
  /\ UNCHANGED <<session, phases, run, reviews, approvals, jobs, artifacts, flags>>

SavePolicy(p) ==
  /\ At(p, "control")
  /\ UpdatePolicy(h[p].policy, h[p].flag)
  /\ Return(p)
  /\ UNCHANGED <<session, phases, run, reviews, approvals, jobs, artifacts, ghosts>>
----------------------------------------------------------------------------
(* Requesting a gate.  While a gate is pending the same request is answered *)
(* with that gate and any other with a conflict: neither changes anything.  *)

\* _run_matches_review_gate_request, _run_matches_approval_gate_request and
\* _matches_pending_gate
SameGate(row, l) ==
  /\ row.gateStatus = "pending" /\ row.gate = l.gate /\ row.source = l.job
  /\ row.pending = l.succ /\ row.failure = "revise"

GateAllowed == run.gateStatus # "pending"
RequestReviewGate(p, j, key) ==
  /\ GateAllowed
  /\ Begin(p, "review_gate", Started(
       [Idle EXCEPT !.gate = "review_required", !.job = j, !.succ = key], "check_review"))
RequestApprovalGate(p, j, key) ==
  /\ GateAllowed
  /\ Begin(p, "approval_gate", Started(
       [Idle EXCEPT !.gate = "approval_required", !.job = j, !.succ = key], "evaluate"))

RequestGate(p, j, key) ==
  /\ RequestReviewGate(p, j, key) \/ RequestApprovalGate(p, j, key)
  /\ UNCHANGED <<session, phases, run, reviews, approvals, jobs, artifacts, flags>>

\* The policy of an approval gate.  An escalated gate starts over as a review
\* gate, and meets a gate that became pending meanwhile.
EvaluateGate(p) ==
  /\ At(p, "evaluate")
  /\ LET l == h[p]
         e == Evaluate(l.succ, ActivePhase)
     IN CASE ~PhaseExists(l.succ) -> Return(p)
          [] PhaseExists(l.succ) /\ e.decision = "escalate_review" ->
               IF GateAllowed
                 THEN Become(p, Started([l EXCEPT !.gate = "review_required"], "check_review"))
                 ELSE Return(p)
          [] OTHER -> Become(p, [l EXCEPT !.pc = "handoff", !.policy = e.policy,
                                          !.auto = (e.decision = "auto_approve")])
  /\ UNCHANGED <<session, phases, run, reviews, approvals, jobs, artifacts, flags, ghosts>>

\* ReviewModeService.request_review, on its own or for a gate.
RequestReview(p, j) ==
  /\ Begin(p, "request_review", [Idle EXCEPT !.pc = "check_review", !.job = j])
  /\ UNCHANGED <<session, phases, run, reviews, approvals, jobs, artifacts, flags>>

ActiveReview(j) == \E r \in ReviewsOfJob(j) : reviews[r].status = "requested"

CheckReview(p) ==
  /\ At(p, "check_review")
  /\ IF ActiveReview(h[p].job) THEN Return(p)
     ELSE Become(p, [h[p] EXCEPT !.pc = "create_review", !.sess = session])
  /\ UNCHANGED <<session, phases, run, reviews, approvals, jobs, artifacts, flags, ghosts>>

CreateReview(p) ==
  /\ At(p, "create_review")
  /\ InsertReview(NewReview(h[p].job))
  /\ Become(p, [h[p] EXCEPT !.pc = "publish_request", !.review = Len(reviews) + 1,
                            !.row = NewReview(h[p].job)])
  /\ UNCHANGED <<session, phases, run, approvals, jobs, artifacts, flags, ghosts>>

\* _publish_message: the message, and the whole session row read before.
\* Mutant: the row is rebuilt without its active phase.
PublishAfresh(p, pc, next) ==
  /\ At(p, pc)
  /\ UpdateSession([h[p].sess EXCEPT !.active = "none"])
  /\ Goto(p, next)
  /\ UNCHANGED <<phases, run, reviews, approvals, jobs, artifacts, flags, ghosts>>
Publish(p, pc, next) ==
  /\ At(p, pc)
  /\ UpdateSession(h[p].sess)
  /\ Goto(p, next)
  /\ UNCHANGED <<phases, run, reviews, approvals, jobs, artifacts, flags, ghosts>>

LinkRequest(p) ==
  /\ At(p, "link_request")
  /\ UpdateReview(h[p].review, [h[p].row EXCEPT !.message = TRUE])
  /\ IF h[p].op = "request_review" THEN Return(p) ELSE Goto(p, "handoff")
  /\ UNCHANGED <<session, phases, run, approvals, jobs, artifacts, flags, ghosts>>

CreateHandoff(p) ==
  /\ At(p, "handoff")
  /\ InsertJob(NewJob("handoff", h[p].job, 0))
  /\ Become(p, [h[p] EXCEPT !.handoff = Len(jobs) + 1,
       !.pc = IF h[p].gate = "review_required" THEN "describe" ELSE "create_approval"])
  /\ UNCHANGED <<session, phases, run, reviews, approvals, artifacts, flags, ghosts>>

CreateApproval(p) ==
  /\ At(p, "create_approval")
  /\ InsertApproval([job |-> h[p].handoff, status |-> "pending"])
  /\ Become(p, [h[p] EXCEPT !.approval = Len(approvals) + 1, !.pc = "describe"])
  /\ UNCHANGED <<session, phases, run, reviews, jobs, artifacts, flags, ghosts>>

\* The transition artifact; then record_gate_request starts the run again.
Describe(p) ==
  /\ At(p, "describe")
  /\ InsertArtifact(Artifact(h[p].gate, h[p].job, h[p].succ))
  /\ Become(p, Started([h[p] EXCEPT !.artifact = Len(artifacts) + 1], "record_gate"))
  /\ UNCHANGED <<session, phases, run, reviews, approvals, jobs, flags, ghosts>>

Gated(row, l) ==
  [row EXCEPT !.status = "blocked", !.pending = l.succ, !.failure = "revise",
              !.gate = l.gate, !.gateStatus = "pending", !.source = l.job,
              !.handoff = l.handoff, !.review = l.review,
              !.approval = l.approval, !.transition = l.artifact]

\* A gate that became pending meanwhile is returned if it is the same and
\* overwritten if it is not.
RecordGate(p) ==
  /\ At(p, "record_gate")
  /\ IF SameGate(h[p].run, h[p]) THEN UNCHANGED run
     ELSE UpdateRun(Gated(h[p].run, h[p]))
  /\ IF h[p].auto THEN Become(p, [h[p] EXCEPT !.pc = "read_approval", !.ok = TRUE])
                  ELSE Return(p)
  /\ UNCHANGED <<session, phases, reviews, approvals, jobs, artifacts, flags, ghosts>>
----------------------------------------------------------------------------
(* Deciding an approval *)

DecideApproval(p, a, ok) ==
  /\ a \in DOMAIN approvals /\ approvals[a].status = "pending"
  /\ Begin(p, "decide", [Idle EXCEPT !.pc = "save_approval", !.approval = a, !.ok = ok])
  /\ UNCHANGED <<session, phases, run, reviews, approvals, jobs, artifacts, flags>>

\* An auto-approved gate decides its own approval.
ReadApproval(p) ==
  /\ At(p, "read_approval")
  /\ IF approvals[h[p].approval].status = "pending" THEN Goto(p, "save_approval")
                                                    ELSE Return(p)
  /\ UNCHANGED <<session, phases, run, reviews, approvals, jobs, artifacts, flags, ghosts>>

\* Mutant: the vocabulary of reviews.
VerdictOfReview(ok) == IF ok THEN "approved" ELSE "changes_requested"
Verdict(ok) == IF ok THEN "accepted" ELSE "declined"

SaveApproval(p) ==
  /\ At(p, "save_approval")
  /\ UpdateApproval(h[p].approval, Verdict(h[p].ok))
  /\ Goto(p, "move_handoff")
  /\ UNCHANGED <<session, phases, run, reviews, jobs, artifacts, flags, ghosts>>

\* _update_job_for_decision on the hand-off job, which nothing scheduled.
\* Mutant: the gate is not told.
MoveHandoffAlone(p) ==
  /\ At(p, "move_handoff")
  /\ UpdateJob(approvals[h[p].approval].job,
               IF h[p].ok THEN "running" ELSE "canceled")
  /\ Return(p)
  /\ UNCHANGED <<session, phases, run, reviews, approvals, artifacts, flags, ghosts>>
MoveHandoff(p) ==
  /\ At(p, "move_handoff")
  /\ UpdateJob(approvals[h[p].approval].job,
               IF h[p].ok THEN "running" ELSE "canceled")
  /\ Goto(p, "find_gate")
  /\ UNCHANGED <<session, phases, run, reviews, approvals, artifacts, flags, ghosts>>
----------------------------------------------------------------------------
(* Deciding a review: submit_decision, then resolve_review_decision *)

ReviewVerdict(ok) == IF ok THEN "approved" ELSE "changes_requested"

\* A review that is decided already answers the same decision once more.
\* Mutant: the replay is taken for a first decision.
JudgeReviewAfresh(p, r, ok) ==
  /\ r \in DOMAIN reviews
  /\ Begin(p, "judge", [Idle EXCEPT
       !.review = r, !.ok = ok, !.row = reviews[r], !.job = reviews[r].job,
       !.sess = session, !.pc = IF ok THEN "publish_decision" ELSE "revise"])
  /\ UNCHANGED <<session, phases, run, reviews, approvals, jobs, artifacts, flags>>
\* Mutant: the replay does not load the artifact and the job of the decision.
JudgeReviewBare(p, r, ok) ==
  /\ r \in DOMAIN reviews
  /\ LET row == reviews[r]
         l == [Idle EXCEPT !.review = r, !.ok = ok, !.row = row, !.job = row.job]
     IN \/ /\ row.status = "requested"
           /\ Begin(p, "judge", [l EXCEPT !.sess = session,
                !.pc = IF ok THEN "publish_decision" ELSE "revise"])
        \/ /\ row.status = ReviewVerdict(ok)
           /\ Begin(p, "judge", [l EXCEPT !.pc = "find_gate"])
  /\ UNCHANGED <<session, phases, run, reviews, approvals, jobs, artifacts, flags>>
JudgeReview(p, r, ok) ==
  /\ r \in DOMAIN reviews
  /\ LET row == reviews[r]
         l == [Idle EXCEPT !.review = r, !.ok = ok, !.row = row, !.job = row.job]
     IN \/ /\ row.status = "requested"
           /\ Begin(p, "judge", [l EXCEPT !.sess = session,
                !.pc = IF ok THEN "publish_decision" ELSE "revise"])
        \/ /\ row.status = ReviewVerdict(ok)
           /\ Begin(p, "judge", [l EXCEPT !.pc = "find_gate",
                !.artifact = row.summary, !.revision = row.revision])
  /\ UNCHANGED <<session, phases, run, reviews, approvals, jobs, artifacts, flags>>

\* The revision job of a rejected review or approval.
CreateRevision(p) ==
  /\ At(p, "revise")
  /\ InsertJob(NewJob("revision", h[p].job,
               IF h[p].review # 0 THEN h[p].review ELSE h[p].approval))
  /\ Become(p, [h[p] EXCEPT !.revision = Len(jobs) + 1,
       !.pc = IF h[p].review # 0 THEN "schedule" ELSE "resolve"])
  /\ UNCHANGED <<session, phases, run, reviews, approvals, artifacts, flags, ghosts>>

\* OfflineQueueService.schedule_job, whose own steps are in JobLifecycle.
ScheduleRevision(p) ==
  /\ At(p, "schedule")
  /\ jobs' = [jobs EXCEPT ![h[p].revision].scheduled = TRUE]
  /\ Goto(p, "publish_decision")
  /\ UNCHANGED <<session, phases, run, reviews, approvals, artifacts, flags, ghosts>>

Summarize(p) ==
  /\ At(p, "summarize")
  /\ InsertArtifact(Artifact("decision", h[p].job, "none"))
  /\ Become(p, [h[p] EXCEPT !.artifact = Len(artifacts) + 1, !.pc = "save_review"])
  /\ UNCHANGED <<session, phases, run, reviews, approvals, jobs, flags, ghosts>>

SaveReview(p) ==
  /\ At(p, "save_review")
  /\ UpdateReview(h[p].review,
       [h[p].row EXCEPT !.status = ReviewVerdict(h[p].ok), !.summary = h[p].artifact,
                        !.revision = h[p].revision])
  /\ Goto(p, "find_gate")
  /\ UNCHANGED <<session, phases, run, approvals, jobs, artifacts, flags, ghosts>>
----------------------------------------------------------------------------
(* Resolving the gate: phase first, run last *)

\* get_run_by_review_id, get_run_by_approval_id
\* Mutant: the decision of any review is taken for the gate's.
FoundAny(l) == IF l.op = "judge" THEN TRUE ELSE RunOfApproval(l.approval)
Found(l) == IF l.op = "judge" THEN RunOfReview(l.review) ELSE RunOfApproval(l.approval)

\* Mutant: a declined gate moves on as well.
TargetOnward(ok) == IF run.pending # "none" THEN run.pending ELSE "finalize"
Target(ok) == IF run.pending # "none" \/ ~ok
                THEN IF ok THEN run.pending ELSE run.failure
                ELSE "finalize"
\* A gate that is settled already is only read again.
AlreadyResolved == run.gateStatus \in {"approved", "rejected"} /\ run.decision # 0

FindGate(p) ==
  /\ At(p, "find_gate")
  /\ LET l == h[p]
     IN IF ~Found(l) \/ AlreadyResolved THEN Return(p)
        ELSE Become(p, Activated([l EXCEPT !.run = run, !.job = run.source],
                                 Target(l.ok), IF l.op = "judge" THEN "resolve" ELSE "decide"))
  /\ UNCHANGED <<session, phases, run, reviews, approvals, jobs, artifacts, flags, ghosts>>

\* The decision artifact of an approval, of the hand-off job.
DescribeDecision(p) ==
  /\ At(p, "decide")
  /\ InsertArtifact(Artifact("decision", approvals[h[p].approval].job, h[p].target))
  /\ Become(p, [h[p] EXCEPT !.artifact = Len(artifacts) + 1,
                            !.pc = IF h[p].ok THEN "resolve" ELSE "revise"])
  /\ UNCHANGED <<session, phases, run, reviews, approvals, jobs, flags, ghosts>>

\* record_gate_resolution on the row read in FindGate
Resolved(row, l) ==
  [row EXCEPT !.status = IF l.ok /\ l.target = "finalize" THEN "completed" ELSE "active",
              !.phase = l.target, !.pending = "none",
              !.gateStatus = IF l.ok THEN "approved" ELSE "rejected",
              !.decision = l.artifact, !.revision = l.revision]

ResolveGate(p) ==
  /\ At(p, "resolve")
  /\ UpdateRun(Resolved(h[p].run, h[p]))
  /\ Return(p)
  /\ UNCHANGED <<session, phases, reviews, approvals, jobs, artifacts, flags, ghosts>>

\* The process dies: rows stay, requests in progress are gone.
Crash ==
  /\ crashes < MaxCrashes /\ \E p \in Handlers : ~At(p, "idle")
  /\ h' = [p \in Handlers |-> Idle]
  /\ crashes' = crashes + 1
  /\ UNCHANGED <<session, phases, run, reviews, approvals, jobs, artifacts, flags,
                 requests, overlapped>>
----------------------------------------------------------------------------
(* Next, fairness, specification *)

Client(p) ==
  \/ CreateSession(p) \/ StartRun(p)
  \/ \E key \in Activations : ActivateByHand(p, key)
  \/ ReadSession(p, "edit") \/ ReadSession(p, "pause")
  \/ \E key \in SuccessPhases : RequestGate(p, 1, key)
  \/ RequestReview(p, 1)
  \/ \E a \in DOMAIN approvals, ok \in BOOLEAN : DecideApproval(p, a, ok)
  \/ \E r \in DOMAIN reviews, ok \in BOOLEAN : JudgeReview(p, r, ok)
  \/ \E i \in DOMAIN Policies :
       \E row \in {PauseAutomation(i), ResumeAutomation(i), ActivatePolicy(i), DeactivatePolicy(i)} :
         ReadPolicy(p, i, row)

Server(p) ==
  \/ SeedOne(p) \/ FindPhase(p) \/ SetPhase(p) \/ Done(p)
  \/ EditSession(p) \/ PauseSession(p) \/ SavePolicy(p)
  \/ ReadPhase(p) \/ ReadRun(p) \/ SaveRun(p)
  \/ EvaluateGate(p) \/ CheckReview(p) \/ CreateReview(p)
  \/ Publish(p, "publish_request", "link_request") \/ LinkRequest(p)
  \/ CreateHandoff(p) \/ CreateApproval(p) \/ Describe(p) \/ RecordGate(p)
  \/ ReadApproval(p) \/ SaveApproval(p) \/ MoveHandoff(p)
  \/ CreateRevision(p) \/ ScheduleRevision(p)
  \/ Publish(p, "publish_decision", "summarize") \/ Summarize(p) \/ SaveReview(p)
  \/ FindGate(p) \/ DescribeDecision(p) \/ ResolveGate(p)

Next == (\E p \in Handlers : Client(p) \/ Server(p)) \/ Crash

\* The event loop runs every request that has begun; clients promise nothing.
Spec == Init /\ [][Next]_vars /\ \A p \in Handlers : WF_vars(Server(p))
----------------------------------------------------------------------------
(* Properties *)

Pending == run.gateStatus = "pending"
Settled == run.gateStatus \in {"approved", "rejected"}

\* What the decision of the run's own review or approval says: "open" while
\* nobody decided.
Verdicts == [requested |-> "open", approved |-> "approved", changes_requested |-> "rejected",
             pending |-> "open", accepted |-> "approved", declined |-> "rejected"]
GateVerdict ==
  CASE run.gate = "review_required" -> Verdicts[reviews[run.review].status]
    [] run.gate = "approval_required" -> Verdicts[approvals[run.approval].status]
    [] OTHER -> "none"

\* Every row has the type its table gives it, and ids name existing rows.
TypeOK ==
  /\ session \in SessionRow /\ phases \subseteq PresetKeys /\ run \in RunRow
  /\ \A r \in DOMAIN reviews : reviews[r] \in ReviewRow /\ reviews[r].job \in DOMAIN jobs
  /\ \A a \in DOMAIN approvals : approvals[a] \in ApprovalRow /\ approvals[a].job \in DOMAIN jobs
  /\ \A j \in DOMAIN jobs : jobs[j].parent < j
  /\ flags \in [DOMAIN Policies -> [active : BOOLEAN, paused : BOOLEAN]]
  /\ requests \in 0..MaxRequests /\ crashes \in 0..MaxCrashes

\* A run that waits at a gate can be decided: it is blocked, the hand-off job
\* of its source, the artifact of this transition, and the review (with its
\* message) or the approval of that job exist; and a settled run names the
\* decision about its source, and the revision job when it was rejected.  In
\* every interleaving and after a crash: the run is the last row a request writes.
GateBacked ==
  /\ Pending =>
       /\ run.status = "blocked"
       /\ run.handoff \in DOMAIN jobs /\ jobs[run.handoff].parent = run.source
       /\ run.transition \in DOMAIN artifacts
       /\ artifacts[run.transition] = Artifact(run.gate, run.source, run.pending)
       /\ IF run.gate = "review_required"
            THEN run.review \in DOMAIN reviews /\ reviews[run.review].job = run.source
            ELSE run.approval \in DOMAIN approvals /\ approvals[run.approval].job = run.handoff
  /\ Settled =>
       /\ run.decision \in DOMAIN artifacts /\ artifacts[run.decision].about = "decision"
       /\ artifacts[run.decision].job =
            IF run.gate = "review_required" THEN run.source ELSE run.handoff
       /\ run.gateStatus = "rejected" =>
            /\ run.revision \in DOMAIN jobs /\ jobs[run.revision].kind = "revision"
            /\ jobs[run.revision].parent = run.source

\* Requests served one at a time, crashes included: the run says what the
\* reviewer or the approver said, and a settled run never contradicts it.
DecisionAgrees == Settled /\ ~overlapped => run.gateStatus = GateVerdict

\* Requests served one at a time: nothing but its own decision changes a run
\* that waits at a gate, no other gate request and no start; the run then is in
\* the phase the decision leads to, and so is the session.
GateReleasedByDecision ==
  [][Pending /\ run' # run /\ ~overlapped =>
       /\ run'.gateStatus = GateVerdict
       /\ run'.phase = IF GateVerdict = "approved" THEN run.pending ELSE run.failure
       /\ session.active = run'.phase]_vars

\* Requests served one at a time: what a phase change, an edit or a pause wrote
\* into the session row stays until the next one, although every review message
\* writes the whole row back.
SessionFieldsKept ==
  [][session.exists /\ ~overlapped /\ session' # session =>
       \E p \in Handlers :
         /\ session'.active # session.active => h[p].pc = "set_phase"
         /\ session'.guard # session.guard => h[p].op = "pause"
         /\ session'.title # session.title => h[p].op = "edit"]_vars

\* Requests served one at a time, without a crash: a review that asks for
\* changes makes one revision job however often the decision is submitted.
RevisionOnce ==
  ~overlapped /\ crashes = 0 =>
    \A r \in DOMAIN reviews :
      Cardinality({j \in DOMAIN jobs : /\ jobs[j].kind = "revision" /\ jobs[j].of = r
                                       /\ jobs[j].scheduled}) <= 1

\* A gate is approved without a person only while no active policy that
\* matches it has its automation paused ahead of the one that approves it.
AutomationObeysPolicies ==
  [][\A p \in Handlers : h'[p].auto /\ ~h[p].auto =>
       LET fits == {i \in DOMAIN Policies :
                      /\ flags[i].active
                      /\ Policies[i].session = "this" \/ Policies[i].phase = h[p].succ
                      /\ Matches(i, h[p].succ, ActivePhase)}
       IN \E i \in fits : /\ ~flags[i].paused /\ Decision(i) = "auto_approve"
                          /\ \A k \in fits : k >= i]_vars

\* Served one at a time and without a crash, a decided gate is released,
\* unless it leads to a phase that does not exist.
DecidedGateResolves ==
  (Pending /\ GateVerdict # "open" /\ (GateVerdict = "approved" => run.pending \in PresetKeys))
    ~> (~Pending \/ crashes > 0 \/ overlapped)

\* docs/operations/TROUBLESHOOTING.md:55: "A mismatched request now fails with a conflict
\* instead of overwriting the pending run".
PendingRunNotOverwritten ==
  [][Pending /\ run'.gateStatus = "pending" => run'.source = run.source
       /\ run'.gate = run.gate /\ run'.pending = run.pending]_vars
=============================================================================
