-------------------------- MODULE PhaseGates_proofs --------------------------
(***************************************************************************)
(* Proofs about PhaseGates for every number of handlers, phases, policies  *)
(* and bounds.  The invariant says of every handler what it holds at the   *)
(* step it is at: rows that exist, made for the job it serves.  Rows are   *)
(* only added, and what a row was made for never changes, so that what a   *)
(* handler holds stays true whatever the others do; and the run is written *)
(* last, from what its handler holds.  What a request that is served alone *)
(* knows besides, that the rows are still as it read them, is what the     *)
(* properties about requests served one at a time rest on.                 *)
(***************************************************************************)
EXTENDS PhaseGates, FiniteSetTheorems, WellFoundedInduction, TLAPS

\* The steps of the handlers, and what a handler's locals can be.
Seeking == {"find_phase", "set_phase"}
Starting == {"read_phase", "read_run", "save_run"}
Detours == {"seed"} \union Seeking \union Starting
Asking == {"evaluate", "check_review", "create_review", "publish_request", "link_request",
           "handoff", "create_approval", "describe", "record_gate"}
Judging == {"schedule", "publish_decision", "summarize", "save_review"}
Deciding == {"read_approval", "save_approval", "move_handoff"}
PCs == Detours \union Asking \union Judging \union Deciding \union
       {"idle", "done", "edit", "pause", "control", "find_gate", "revise", "decide", "resolve"}

Flag == [active : BOOLEAN, paused : BOOLEAN]
Locals == [pc : PCs, op : AllOps \union {"none"}, next : PCs \union {"none"},
           cont : PCs \union {"none"},
           todo : SUBSET (DOMAIN Presets), job : Nat,
           gate : {"none", "review_required", "approval_required"},
           succ : SuccessPhases \union {"none"}, ok : BOOLEAN, auto : BOOLEAN, run : RunRow,
           target : MaybePhase, sess : SessionRow, review : Nat, row : ReviewRow,
           approval : Nat, handoff : Nat, artifact : Nat, revision : Nat,
           policy : Nat, flag : Flag]

\* Where a handler that seeds, activates or starts goes next, and in the end.
Route(l) == IF l.pc = "seed" THEN l.next ELSE l.pc
Stage(l) == IF l.pc \in Detours THEN l.cont ELSE l.pc

\* The review of job j, the approval of hand-off j, a hand-off of job j, ...
IsReview(r, j) == r \in DOMAIN reviews /\ reviews[r].job = j
IsApproval(a, j) == a \in DOMAIN approvals /\ approvals[a].job = j
IsHandoff(k, j) == k \in DOMAIN jobs /\ jobs[k].parent = j
IsRevision(k, j) == k \in DOMAIN jobs /\ jobs[k].kind = "revision" /\ jobs[k].parent = j
IsTransition(n, row) == n \in DOMAIN artifacts /\ artifacts[n] = row
IsDecision(n, j) == n \in DOMAIN artifacts /\ artifacts[n].about = "decision" /\ artifacts[n].job = j

\* A review that is decided has its decision, and its revision when changes are asked for.
ReviewSound(row) ==
  /\ row.status # "requested" => IsDecision(row.summary, row.job)
  /\ row.status = "changes_requested" => IsRevision(row.revision, row.job)

\* A run row, wherever it is held, is backed by the rows it names.
RowSound(row) ==
  /\ row.gateStatus = "idle" => row.gate = "none" /\ row.review = 0 /\ row.approval = 0
  /\ row.gateStatus # "idle" => row.gate # "none" /\ IsHandoff(row.handoff, row.source)
  /\ row.gate = "review_required" => row.approval = 0 /\ IsReview(row.review, row.source)
  /\ row.gate = "approval_required" => row.review = 0 /\ IsApproval(row.approval, row.handoff)
  /\ row.gateStatus = "pending" =>
       /\ row.status = "blocked" /\ row.pending # "none"
       /\ IsTransition(row.transition, Artifact(row.gate, row.source, row.pending))
  /\ row.gateStatus \in {"approved", "rejected"} =>
       IsDecision(row.decision, IF row.gate = "review_required" THEN row.source ELSE row.handoff)
  /\ row.gateStatus = "rejected" => IsRevision(row.revision, row.source)

\* The way of a handler with these locals through its steps.
WaySound(l) ==
  /\ l.pc = "seed" => l.todo # {} /\ l.next \in {"find_phase", "read_phase"}
  /\ Route(l) \in Seeking => l.cont \in {"done", "resolve", "decide"}
  /\ Route(l) \in Starting => l.cont \in {"done", "check_review", "evaluate", "record_gate"}
  /\ l.pc \in {"set_phase", "read_run", "save_run"} => l.target \in PresetKeys
  /\ l.pc = "edit" => l.op = "edit"
  /\ l.pc = "pause" => l.op = "pause"

\* A handler that asks for a gate or a review.
AskSound(l) ==
  LET s == Stage(l) IN
  /\ s \in Asking => /\ l.job \in DOMAIN jobs
                     /\ l.op \in {"review_gate", "approval_gate", "request_review"}
  /\ s \in Asking /\ l.op = "request_review" =>
       s \in {"check_review", "create_review", "publish_request", "link_request"}
  /\ s \in Asking /\ l.op # "request_review" =>
       l.gate \in {"review_required", "approval_required"} /\ l.succ \in SuccessPhases
  /\ s \in {"check_review", "create_review", "publish_request", "link_request"}
       => l.gate # "approval_required"
  /\ s \in {"evaluate", "create_approval"} => l.gate = "approval_required"
  /\ s = "evaluate" => ~l.auto /\ l.approval = 0
  /\ l.auto => l.gate = "approval_required"
  /\ l.gate = "review_required" => l.approval = 0
  /\ l.gate = "approval_required" => l.review = 0
  /\ s \in {"publish_request", "link_request"} => IsReview(l.review, l.job) /\ l.row = NewReview(l.job)
  /\ s \in {"handoff", "describe", "record_gate"} /\ l.gate = "review_required" => IsReview(l.review, l.job)
  /\ s \in {"create_approval", "describe", "record_gate"} => IsHandoff(l.handoff, l.job)
  /\ s \in {"describe", "record_gate"} /\ l.gate = "approval_required" => IsApproval(l.approval, l.handoff)
  /\ s = "record_gate" => IsTransition(l.artifact, Artifact(l.gate, l.job, l.succ))

\* A handler at the decision of a review, and one at the decision of an approval,
\* until it has found the gate.
AtReview(l) == l.pc \in Judging \/ (l.pc \in {"revise", "find_gate"} /\ l.op = "judge")
AtApproval(l) == l.pc \in Deciding \/ (l.pc = "find_gate" /\ l.op # "judge")
\* One that has found it, and has to describe or only to resolve it.
Describing(l) == Stage(l) = "decide" \/ (l.pc = "revise" /\ l.op # "judge")
Resolving(l) == Stage(l) = "resolve"

DecideSound(l) ==
  /\ AtReview(l) => /\ l.op = "judge" /\ IsReview(l.review, l.job) /\ l.row.job = l.job
                    /\ l.pc \in Judging \union {"find_gate"} /\ ~l.ok => IsRevision(l.revision, l.job)
                    /\ l.pc \in {"save_review", "find_gate"} => IsDecision(l.artifact, l.job)
  /\ l.pc \in {"revise", "schedule"} => ~l.ok
  /\ l.pc = "schedule" => jobs[l.revision].of = l.review
  /\ AtApproval(l) => l.op # "judge" /\ l.review = 0 /\ l.approval \in DOMAIN approvals
  /\ Describing(l) => /\ l.op # "judge" /\ l.review = 0 /\ l.job = l.run.source
                      /\ l.run.gateStatus = "pending" /\ l.run.gate = "approval_required"
                      /\ l.run.approval = l.approval
                      /\ l.pc = "revise" => IsDecision(l.artifact, l.run.handoff)
  /\ Resolving(l) => /\ l.run.gateStatus = "pending"
                     /\ IsDecision(l.artifact, IF l.run.gate = "review_required" THEN l.run.source ELSE l.run.handoff)
                     /\ ~l.ok => IsRevision(l.revision, l.run.source)
                     /\ IF l.op = "judge" THEN l.run.gate = "review_required" /\ l.run.review = l.review
                        ELSE l.run.gate = "approval_required" /\ l.run.approval = l.approval

LocalSound(l) == RowSound(l.run) /\ WaySound(l) /\ AskSound(l) /\ DecideSound(l)

JobRow == [kind : {"source", "handoff", "revision"}, parent : Nat, of : Nat,
           status : {"queued", "running", "canceled", "completed"}, scheduled : BOOLEAN]
ArtifactRow == [about : {"decision", "review_required", "approval_required"},
                job : Nat, phase : MaybePhase]

\* The rows of the tables.
RowsOK ==
  /\ session \in SessionRow /\ phases \subseteq PresetKeys /\ run \in RunRow
  /\ reviews \in Seq(ReviewRow) /\ approvals \in Seq(ApprovalRow)
  /\ jobs \in Seq(JobRow) /\ artifacts \in Seq(ArtifactRow)
  /\ flags \in [DOMAIN Policies -> Flag]
  /\ 1 \in DOMAIN jobs
  /\ \A r \in DOMAIN reviews : reviews[r].job \in DOMAIN jobs /\ ReviewSound(reviews[r])
  /\ \A a \in DOMAIN approvals : approvals[a].job \in DOMAIN jobs
  /\ \A j \in DOMAIN jobs : jobs[j].parent < j
  /\ RowSound(run)

CountsOK == requests \in 0..MaxRequests /\ crashes \in 0..MaxCrashes /\ overlapped \in BOOLEAN

Inv == RowsOK /\ CountsOK /\ h \in [Handlers -> Locals] /\ \A p \in Handlers : LocalSound(h[p])

\* What a request that is alone holds: the rows are still what it has read.
Alone(l) ==
  /\ l.pc \in {"create_review", "publish_request", "schedule", "publish_decision", "set_phase", "edit", "pause"}
       \/ (l.pc = "revise" /\ l.op = "judge") => l.sess = session
  /\ Stage(l) \in Asking /\ l.op # "request_review" => ~Pending
  /\ l.pc = "save_run" => ~Pending
  /\ l.pc \in {"publish_request", "link_request"} =>
       run.review # l.review /\ reviews[l.review].status = "requested"
  /\ l.pc \in Judging \/ (l.pc = "revise" /\ l.op = "judge") => reviews[l.review].status = "requested"
  /\ l.pc = "save_approval" => approvals[l.approval].status = "pending"
  /\ l.pc \in {"move_handoff", "find_gate"} \/ Describing(l) \/ Resolving(l) =>
       IF l.op = "judge" THEN reviews[l.review].status = ReviewVerdict(l.ok)
                         ELSE approvals[l.approval].status = Verdict(l.ok)
  /\ Describing(l) \/ Resolving(l) =>
       l.run = run /\ l.target = IF l.ok THEN run.pending ELSE run.failure
  /\ l.pc \in {"decide", "resolve"} \/ (l.pc = "revise" /\ l.op # "judge")
       => session.active = l.target

OneByOne ==
  ~overlapped =>
    /\ \A p, q \in Handlers : p # q => At(p, "idle") \/ At(q, "idle")
    /\ \A p \in Handlers : Alone(h[p])
    /\ Settled => run.gateStatus = GateVerdict

\* The scheduled revisions of review r, and whoever has just scheduled one.
Scheduled(j, r) == j \in DOMAIN jobs /\ jobs[j].kind = "revision" /\ jobs[j].of = r /\ jobs[j].scheduled
Making(l, r) == l.pc \in Judging \ {"schedule"} /\ l.review = r /\ ~l.ok
Revised ==
  ~overlapped /\ crashes = 0 =>
    \A j, k \in DOMAIN jobs, r \in Nat : Scheduled(j, r) /\ Scheduled(k, r) =>
      /\ j = k /\ r \in DOMAIN reviews
      /\ reviews[r].status = "changes_requested" \/ \E p \in Handlers : Making(h[p], r)
----------------------------------------------------------------------------
(* What is true of a row stays true while rows are added *)

\* Rows are added, and what a row was made for never changes.
Grow ==
  /\ DOMAIN reviews \subseteq DOMAIN reviews'
  /\ \A r \in DOMAIN reviews : reviews'[r].job = reviews[r].job
  /\ DOMAIN approvals \subseteq DOMAIN approvals'
  /\ \A a \in DOMAIN approvals : approvals'[a].job = approvals[a].job
  /\ DOMAIN jobs \subseteq DOMAIN jobs'
  /\ \A j \in DOMAIN jobs : /\ jobs'[j].kind = jobs[j].kind
                            /\ jobs'[j].parent = jobs[j].parent
                            /\ jobs'[j].of = jobs[j].of
  /\ DOMAIN artifacts \subseteq DOMAIN artifacts'
  /\ \A n \in DOMAIN artifacts : artifacts'[n] = artifacts[n]

LEMMA FactsKept ==
  ASSUME Grow, NEW x, NEW y
  PROVE  /\ IsReview(x, y) => IsReview(x, y)'
         /\ IsApproval(x, y) => IsApproval(x, y)'
         /\ IsHandoff(x, y) => IsHandoff(x, y)'
         /\ IsRevision(x, y) => IsRevision(x, y)'
         /\ IsTransition(x, y) => IsTransition(x, y)'
         /\ IsDecision(x, y) => IsDecision(x, y)'
BY DEF Grow, IsReview, IsApproval, IsHandoff, IsRevision, IsTransition, IsDecision

LEMMA RowKept ==
  ASSUME Grow, NEW row, RowSound(row)
  PROVE  RowSound(row)'
BY FactsKept DEF RowSound

LEMMA ReviewKept ==
  ASSUME Grow, NEW row, ReviewSound(row)
  PROVE  ReviewSound(row)'
BY FactsKept DEF ReviewSound

LEMMA LocalKept ==
  ASSUME Grow, NEW l, LocalSound(l)
  PROVE  LocalSound(l)'
<1>1. RowSound(l.run)'
  BY RowKept DEF LocalSound
<1>2. WaySound(l)'
  BY DEF LocalSound, WaySound
<1>3. AskSound(l)'
  BY FactsKept DEF LocalSound, AskSound, Grow
<1>4. DecideSound(l)'
  <2>1. l.pc = "schedule" => l.revision \in DOMAIN jobs
    BY DEF LocalSound, DecideSound, AtReview, Judging, IsRevision
  <2>2. l.pc = "schedule" => (jobs[l.revision].of = l.review)'
    BY <2>1 DEF LocalSound, DecideSound, Grow
  <2>. QED BY <2>2, FactsKept DEF LocalSound, DecideSound, Grow
<1>. QED BY <1>1, <1>2, <1>3, <1>4 DEF LocalSound

LEMMA HeldAfter ==
  ASSUME NEW q, NEW m, h'[q] = m, LocalSound(m)'
  PROVE  LocalSound(h[q])'
<1>1. RowSound(h[q].run)'
  BY DEF LocalSound, RowSound, IsReview, IsApproval, IsHandoff, IsRevision, IsTransition, IsDecision
<1>2. WaySound(h[q])'
  BY DEF LocalSound, WaySound, Route
<1>3. AskSound(h[q])'
  BY DEF LocalSound, AskSound, Stage, IsReview, IsApproval, IsHandoff, IsTransition
<1>4. DecideSound(h[q])'
  BY DEF LocalSound, DecideSound, AtReview, AtApproval, Describing, Resolving, Stage,
         IsReview, IsRevision, IsDecision
<1>. QED BY <1>1, <1>2, <1>3, <1>4 DEF LocalSound

\* One handler moves on.
LEMMA HandlerMoves ==
  ASSUME Inv, Grow, RowsOK', CountsOK', NEW p \in Handlers, NEW l \in Locals,
         h' = [h EXCEPT ![p] = l], LocalSound(l)'
  PROVE  Inv'
<1>1. h \in [Handlers -> Locals]
  BY DEF Inv
<1>2. ASSUME NEW q \in Handlers PROVE LocalSound(h[q])'
  <2>1. PICK m : m = IF q = p THEN l ELSE h[q]
    OBVIOUS
  <2>2. LocalSound(m)'
    <3>1. CASE q = p
      BY <2>1, <3>1
    <3>2. CASE q # p
      BY <2>1, <3>2, LocalKept DEF Inv
    <3>. QED BY <3>1, <3>2
  <2>3. h'[q] = m
    BY <1>1, <2>1
  <2>. QED BY <2>2, <2>3, HeldAfter
<1>3. \A q \in Handlers : LocalSound(h[q])'
  BY <1>2
<1>. QED BY <1>1, <1>3 DEF Inv
----------------------------------------------------------------------------
(* What a transaction leaves behind *)

\* Of the four tables that hold a list, none changes.
Listed == <<reviews, approvals, jobs, artifacts>>

LEMMA NoneAdded ==
  ASSUME RowsOK, UNCHANGED Listed, NEW s \in SessionRow, session' = s,
         NEW keys \in SUBSET PresetKeys, phases' = keys,
         NEW row \in RunRow, run' = row, RowSound(row), flags' \in [DOMAIN Policies -> Flag]
  PROVE  RowsOK' /\ Grow
<1>1. Grow
  BY DEF Listed, Grow
<1>2. RowSound(run)'
  BY DEF Listed, RowSound, IsReview, IsApproval, IsHandoff, IsRevision, IsTransition, IsDecision
<1>3. \A r \in DOMAIN reviews : reviews[r].job \in DOMAIN jobs /\ ReviewSound(reviews[r])'
  BY DEF Listed, RowsOK, ReviewSound, IsRevision, IsDecision
<1>. QED BY <1>1, <1>2, <1>3 DEF RowsOK, Listed

\* Of the others, none changes.
Plain == <<session, phases, run, flags>>

LEMMA OthersKept ==
  ASSUME RowsOK, Grow, UNCHANGED Plain,
         reviews' \in Seq(ReviewRow), approvals' \in Seq(ApprovalRow),
         jobs' \in Seq(JobRow), artifacts' \in Seq(ArtifactRow),
         \A r \in DOMAIN reviews' : reviews'[r].job \in DOMAIN jobs',
         \A r \in DOMAIN reviews' : reviews'[r] # reviews[r] \/ r \notin DOMAIN reviews
                                       => ReviewSound(reviews[r])',
         \A a \in DOMAIN approvals' : approvals'[a].job \in DOMAIN jobs',
         \A j \in DOMAIN jobs' : jobs'[j].parent < j
  PROVE  RowsOK'
<1>1. RowSound(run)'
  <2>1. PICK row : row = run
    OBVIOUS
  <2>2. RowSound(row)'
    BY <2>1, RowKept DEF RowsOK
  <2>3. run' = row
    BY <2>1 DEF Plain
  <2>. QED BY <2>2, <2>3
         DEF RowSound, IsReview, IsApproval, IsHandoff, IsRevision, IsTransition, IsDecision
<1>2. ASSUME NEW r \in DOMAIN reviews' PROVE ReviewSound(reviews[r])'
  <2>1. CASE r \in DOMAIN reviews /\ reviews'[r] = reviews[r]
    <3>1. PICK row : row = reviews[r]
      OBVIOUS
    <3>2. ReviewSound(row)'
      BY <2>1, <3>1, ReviewKept DEF RowsOK
    <3>3. reviews'[r] = row
      BY <2>1, <3>1
    <3>. QED BY <3>2, <3>3 DEF ReviewSound, IsRevision, IsDecision
  <2>. QED BY <2>1
<1>3. 1 \in DOMAIN jobs'
  BY DEF RowsOK, Grow
<1>. QED BY <1>1, <1>2, <1>3 DEF RowsOK, Plain

LEMMA AddReview ==
  ASSUME RowsOK, UNCHANGED Plain, UNCHANGED <<approvals, jobs, artifacts>>,
         NEW j \in DOMAIN jobs, reviews' = Append(reviews, NewReview(j)),
         NEW n, n = Len(reviews) + 1
  PROVE  RowsOK' /\ Grow /\ IsReview(n, j)' /\ n \in Nat
<1>1. reviews \in Seq(ReviewRow) /\ Len(reviews) \in Nat /\ DOMAIN reviews = 1 .. Len(reviews)
  BY DEF RowsOK
<1>2. j \in Nat
  BY DEF RowsOK
<1>3. PICK row : row = NewReview(j)
  OBVIOUS
<1>4. row \in ReviewRow /\ row.status = "requested" /\ row.job = j
  BY <1>2, <1>3 DEF NewReview, ReviewRow
<1>5. /\ reviews' \in Seq(ReviewRow) /\ DOMAIN reviews' = 1 .. Len(reviews) + 1
      /\ \A r \in DOMAIN reviews : reviews'[r] = reviews[r]
      /\ reviews'[Len(reviews) + 1] = row
  BY <1>1, <1>3, <1>4
<1>6. Grow
  BY <1>1, <1>5 DEF Grow
<1>7. \A r \in DOMAIN reviews' : r \in DOMAIN reviews \/ reviews'[r] = row
  BY <1>1, <1>5
<1>8. \A r \in DOMAIN reviews' : reviews'[r] # reviews[r] \/ r \notin DOMAIN reviews
                                   => ReviewSound(reviews[r])'
  BY <1>4, <1>5, <1>7 DEF ReviewSound
<1>9. \A r \in DOMAIN reviews' : reviews'[r].job \in DOMAIN jobs'
  BY <1>4, <1>5, <1>7 DEF RowsOK
<1>10. RowsOK'
  BY <1>5, <1>6, <1>8, <1>9, OthersKept DEF RowsOK
<1>11. n \in DOMAIN reviews' /\ n \in Nat
  BY <1>1, <1>5
<1>. QED BY <1>4, <1>5, <1>6, <1>10, <1>11 DEF IsReview

LEMMA ChangeReview ==
  ASSUME RowsOK, UNCHANGED Plain, UNCHANGED <<approvals, jobs, artifacts>>,
         NEW r \in DOMAIN reviews, NEW row \in ReviewRow, row.job = reviews[r].job,
         ReviewSound(row), reviews' = [reviews EXCEPT ![r] = row]
  PROVE  RowsOK' /\ Grow
<1>1. /\ reviews' \in Seq(ReviewRow) /\ DOMAIN reviews' = DOMAIN reviews
      /\ \A s \in DOMAIN reviews : reviews'[s] = IF s = r THEN row ELSE reviews[s]
  BY DEF RowsOK
<1>2. Grow
  BY <1>1 DEF Grow
<1>3. \A s \in DOMAIN reviews' : reviews'[s] # reviews[s] \/ s \notin DOMAIN reviews
                                   => ReviewSound(reviews[s])'
  BY <1>1 DEF ReviewSound, IsRevision, IsDecision
<1>4. \A s \in DOMAIN reviews' : reviews'[s].job \in DOMAIN jobs'
  BY <1>1 DEF RowsOK
<1>. QED BY <1>1, <1>2, <1>3, <1>4, OthersKept DEF RowsOK

LEMMA AddApproval ==
  ASSUME RowsOK, UNCHANGED Plain, UNCHANGED <<reviews, jobs, artifacts>>,
         NEW j \in DOMAIN jobs, approvals' = Append(approvals, [job |-> j, status |-> "pending"]),
         NEW n, n = Len(approvals) + 1
  PROVE  RowsOK' /\ Grow /\ IsApproval(n, j)' /\ n \in Nat
<1>1. approvals \in Seq(ApprovalRow) /\ Len(approvals) \in Nat /\ DOMAIN approvals = 1 .. Len(approvals)
  BY DEF RowsOK
<1>2. j \in Nat
  BY DEF RowsOK
<1>3. PICK row : row = [job |-> j, status |-> "pending"]
  OBVIOUS
<1>4. row \in ApprovalRow /\ row.job = j
  BY <1>2, <1>3 DEF ApprovalRow
<1>5. /\ approvals' \in Seq(ApprovalRow) /\ DOMAIN approvals' = 1 .. Len(approvals) + 1
      /\ \A a \in DOMAIN approvals : approvals'[a] = approvals[a]
      /\ approvals'[Len(approvals) + 1] = row
  BY <1>1, <1>3, <1>4
<1>6. Grow
  BY <1>1, <1>5 DEF Grow
<1>7. \A a \in DOMAIN approvals' : a \in DOMAIN approvals \/ approvals'[a] = row
  BY <1>1, <1>5
<1>8. \A a \in DOMAIN approvals' : approvals'[a].job \in DOMAIN jobs'
  BY <1>4, <1>5, <1>7 DEF RowsOK
<1>9. RowsOK'
  BY <1>5, <1>6, <1>8, OthersKept DEF RowsOK
<1>10. n \in DOMAIN approvals' /\ n \in Nat
  BY <1>1, <1>5
<1>. QED BY <1>4, <1>5, <1>6, <1>9, <1>10 DEF IsApproval

LEMMA ChangeApproval ==
  ASSUME RowsOK, UNCHANGED Plain, UNCHANGED <<reviews, jobs, artifacts>>,
         NEW a \in DOMAIN approvals, NEW status \in {"pending", "accepted", "declined"},
         approvals' = [approvals EXCEPT ![a].status = status]
  PROVE  RowsOK' /\ Grow
<1>1. PICK row : row = [approvals[a] EXCEPT !.status = status]
  OBVIOUS
<1>2. approvals \in Seq(ApprovalRow) /\ approvals[a] \in ApprovalRow
  BY DEF RowsOK
<1>3. row \in ApprovalRow /\ row.job = approvals[a].job /\ approvals' = [approvals EXCEPT ![a] = row]
  BY <1>1, <1>2 DEF ApprovalRow
<1>4. /\ approvals' \in Seq(ApprovalRow) /\ DOMAIN approvals' = DOMAIN approvals
      /\ \A b \in DOMAIN approvals : approvals'[b].job = approvals[b].job
  BY <1>2, <1>3
<1>5. Grow
  BY <1>4 DEF Grow
<1>. QED BY <1>4, <1>5, OthersKept DEF RowsOK

LEMMA AddJob ==
  ASSUME RowsOK, UNCHANGED Plain, UNCHANGED <<reviews, approvals, artifacts>>,
         NEW kind \in {"handoff", "revision"}, NEW parent \in 0 .. Len(jobs), NEW of \in Nat,
         jobs' = Append(jobs, NewJob(kind, parent, of)), NEW n, n = Len(jobs) + 1
  PROVE  /\ RowsOK' /\ Grow /\ n \in Nat /\ IsHandoff(n, parent)' /\ jobs'[n].of = of
         /\ kind = "revision" => IsRevision(n, parent)'
<1>1. jobs \in Seq(JobRow) /\ Len(jobs) \in Nat /\ DOMAIN jobs = 1 .. Len(jobs)
  BY DEF RowsOK
<1>2. PICK row : row = NewJob(kind, parent, of)
  OBVIOUS
<1>3. row \in JobRow /\ row.kind = kind /\ row.parent = parent /\ row.of = of
  <2>1. parent \in Nat
    BY <1>1
  <2>. QED BY <1>2, <2>1 DEF NewJob, JobRow
<1>4. /\ jobs' \in Seq(JobRow) /\ DOMAIN jobs' = 1 .. Len(jobs) + 1 /\ Len(jobs') = Len(jobs) + 1
      /\ \A j \in DOMAIN jobs : jobs'[j] = jobs[j]
      /\ jobs'[Len(jobs) + 1] = row
  BY <1>1, <1>2, <1>3
<1>5. Grow
  BY <1>1, <1>4 DEF Grow
<1>6. \A j \in DOMAIN jobs' : jobs'[j].parent < j
  BY <1>1, <1>3, <1>4 DEF RowsOK
<1>7. RowsOK'
  BY <1>4, <1>5, <1>6, OthersKept DEF RowsOK, Grow
<1>8. n \in DOMAIN jobs' /\ n \in Nat /\ jobs'[n] = row
  BY <1>1, <1>4
<1>9. IsHandoff(n, parent)' /\ (kind = "revision" => IsRevision(n, parent)')
  BY <1>3, <1>8 DEF IsHandoff, IsRevision
<1>. QED BY <1>3, <1>5, <1>7, <1>8, <1>9

LEMMA ChangeJob ==
  ASSUME RowsOK, UNCHANGED Plain, UNCHANGED <<reviews, approvals, artifacts>>,
         NEW j \in DOMAIN jobs,
         \/ \E status \in {"running", "canceled"} : jobs' = [jobs EXCEPT ![j].status = status]
         \/ jobs' = [jobs EXCEPT ![j].scheduled = TRUE]
  PROVE  RowsOK' /\ Grow
<1>1. jobs \in Seq(JobRow) /\ jobs[j] \in JobRow
  BY DEF RowsOK
<1>2. PICK row \in JobRow : /\ jobs' = [jobs EXCEPT ![j] = row] /\ row.kind = jobs[j].kind
                            /\ row.parent = jobs[j].parent /\ row.of = jobs[j].of
  <2>1. ASSUME NEW status \in {"running", "canceled"}, jobs' = [jobs EXCEPT ![j].status = status]
        PROVE  \E row \in JobRow : /\ jobs' = [jobs EXCEPT ![j] = row] /\ row.kind = jobs[j].kind
                                   /\ row.parent = jobs[j].parent /\ row.of = jobs[j].of
    <3>1. PICK row : row = [jobs[j] EXCEPT !.status = status]
      OBVIOUS
    <3>. QED BY <1>1, <2>1, <3>1 DEF JobRow
  <2>2. ASSUME jobs' = [jobs EXCEPT ![j].scheduled = TRUE]
        PROVE  \E row \in JobRow : /\ jobs' = [jobs EXCEPT ![j] = row] /\ row.kind = jobs[j].kind
                                   /\ row.parent = jobs[j].parent /\ row.of = jobs[j].of
    <3>1. PICK row : row = [jobs[j] EXCEPT !.scheduled = TRUE]
      OBVIOUS
    <3>. QED BY <1>1, <2>2, <3>1 DEF JobRow
  <2>. QED BY <2>1, <2>2
<1>3. /\ jobs' \in Seq(JobRow) /\ DOMAIN jobs' = DOMAIN jobs
      /\ \A k \in DOMAIN jobs : /\ jobs'[k].kind = jobs[k].kind /\ jobs'[k].of = jobs[k].of
                                /\ jobs'[k].parent = jobs[k].parent
  BY <1>1, <1>2
<1>4. Grow
  BY <1>3 DEF Grow
<1>. QED BY <1>3, <1>4, OthersKept DEF RowsOK

LEMMA AddArtifact ==
  ASSUME RowsOK, UNCHANGED Plain, UNCHANGED <<reviews, approvals, jobs>>,
         NEW row \in ArtifactRow, artifacts' = Append(artifacts, row),
         NEW n, n = Len(artifacts) + 1
  PROVE  /\ RowsOK' /\ Grow /\ n \in Nat /\ IsTransition(n, row)'
         /\ row.about = "decision" => IsDecision(n, row.job)'
<1>1. artifacts \in Seq(ArtifactRow) /\ Len(artifacts) \in Nat /\ DOMAIN artifacts = 1 .. Len(artifacts)
  BY DEF RowsOK
<1>2. /\ artifacts' \in Seq(ArtifactRow) /\ DOMAIN artifacts' = 1 .. Len(artifacts) + 1
      /\ \A i \in DOMAIN artifacts : artifacts'[i] = artifacts[i]
      /\ artifacts'[Len(artifacts) + 1] = row
  BY <1>1
<1>3. Grow
  BY <1>1, <1>2 DEF Grow
<1>4. RowsOK'
  BY <1>2, <1>3, OthersKept DEF RowsOK
<1>5. n \in DOMAIN artifacts' /\ n \in Nat /\ artifacts'[n] = row
  BY <1>1, <1>2
<1>. QED BY <1>3, <1>4, <1>5 DEF IsTransition, IsDecision
----------------------------------------------------------------------------
(* What a handler holds *)

LEMMA MinIs ==
  ASSUME NEW S \in SUBSET Nat, S # {}
  PROVE  Min(S) \in S /\ \A y \in S : Min(S) <= y
<1>1. PICK x \in S : \A y \in S : <<y, x>> \notin OpToRel(<, Nat)
  BY NatLessThanWellFounded, WFMin
<1>2. \A y \in S : ~(y < x)
  BY <1>1 DEF OpToRel
<1>3. \A y \in S : x <= y
  BY <1>2
<1>. QED BY <1>3 DEF Min

LEMMA PresetsAre ==
  /\ DOMAIN Presets = 1 .. 5 /\ \A i \in 1 .. 5 : Presets[i] \in PresetKeys
  /\ {"planning", "implementation", "review", "revise", "finalize"} \subseteq PresetKeys
<1>1. DOMAIN Presets = 1 .. 5
  BY DEF Presets
<1>2. /\ Presets[1] = "planning" /\ Presets[2] = "implementation" /\ Presets[3] = "review"
      /\ Presets[4] = "revise" /\ Presets[5] = "finalize"
  BY DEF Presets
<1>3. \A i \in 1 .. 5 : Presets[i] \in PresetKeys
  BY DEF PresetKeys
<1>4. 1 \in 1 .. 5 /\ 2 \in 1 .. 5 /\ 3 \in 1 .. 5 /\ 4 \in 1 .. 5 /\ 5 \in 1 .. 5
  OBVIOUS
<1>5. {"planning", "implementation", "review", "revise", "finalize"} \subseteq PresetKeys
  BY <1>2, <1>3, <1>4
<1>. QED BY <1>1, <1>3, <1>5

LEMMA NoRunIs == NoRun \in RunRow /\ RowSound(NoRun) /\ NoRun.gateStatus = "idle"
<1>1. "none" \in MaybePhase /\ "revise" \in PresetKeys
  BY PresetsAre DEF MaybePhase
<1>2. NoRun \in RunRow
  BY <1>1 DEF NoRun, RunRow
<1>. QED BY <1>2 DEF NoRun, RowSound

LEMMA IdleIs ==
  /\ Idle \in Locals /\ LocalSound(Idle) /\ Idle.pc = "idle" /\ ~Idle.auto
<1>1. "none" \in MaybePhase /\ NoSession \in SessionRow /\ NewReview(0) \in ReviewRow
  BY DEF MaybePhase, NoSession, SessionRow, NewReview, ReviewRow
<1>2. "idle" \in PCs
  BY DEF PCs
<1>3. Idle \in Locals
  BY <1>1, <1>2, NoRunIs DEF Idle, Locals, Flag
<1>4. RowSound(Idle.run)
  BY NoRunIs DEF Idle
<1>5. /\ Idle.pc = "idle" /\ Idle.op = "none" /\ Idle.gate = "none" /\ ~Idle.auto
  BY DEF Idle
<1>6. WaySound(Idle) /\ AskSound(Idle) /\ DecideSound(Idle)
  BY <1>5 DEF WaySound, AskSound, DecideSound, Route, Stage, Seeking, Starting, Detours, Asking,
              AtReview, AtApproval, Describing, Resolving, Judging, Deciding
<1>. QED BY <1>3, <1>4, <1>5, <1>6 DEF LocalSound

LEMMA GhostsKept == ASSUME Inv, UNCHANGED ghosts PROVE CountsOK'
BY DEF Inv, CountsOK, ghosts

\* A handler goes on, and only the session, a phase, the run or a policy changes.
LEMMA MovesOn ==
  ASSUME Inv, UNCHANGED Listed, UNCHANGED ghosts, NEW p \in Handlers, NEW l \in Locals,
         h' = [h EXCEPT ![p] = l], LocalSound(l),
         NEW s \in SessionRow, session' = s, NEW keys \in SUBSET PresetKeys, phases' = keys,
         NEW row \in RunRow, run' = row, RowSound(row), flags' \in [DOMAIN Policies -> Flag]
  PROVE  Inv'
<1>1. RowsOK' /\ Grow
  BY NoneAdded DEF Inv
<1>. QED BY <1>1, LocalKept, HandlerMoves, GhostsKept

\* A handler goes on, and nothing else changes.
LEMMA Reads ==
  ASSUME Inv, UNCHANGED Listed, UNCHANGED Plain, UNCHANGED ghosts, NEW p \in Handlers,
         NEW l \in Locals, h' = [h EXCEPT ![p] = l], LocalSound(l)
  PROVE  Inv'
<1>1. PICK s \in SessionRow, keys \in SUBSET PresetKeys, row \in RunRow :
         s = session /\ keys = phases /\ row = run
  BY DEF Inv, RowsOK
<1>2. RowSound(row) /\ flags \in [DOMAIN Policies -> Flag]
  BY <1>1 DEF Inv, RowsOK
<1>. QED BY <1>1, <1>2, MovesOn DEF Plain

\* A handler that returns.
LEMMA Returns ==
  ASSUME Inv, UNCHANGED Listed, UNCHANGED Plain, UNCHANGED ghosts, NEW p \in Handlers, Return(p)
  PROVE  Inv'
BY IdleIs, Reads DEF Return, Become

LEMMA ReadPhaseKeeps ==
  ASSUME Inv, NEW p \in Handlers, ReadPhase(p)
  PROVE  Inv'
<1>1. PICK g : g = h[p]
  OBVIOUS
<1>2. g \in Locals /\ LocalSound(g) /\ g.pc = "read_phase"
  BY <1>1 DEF Inv, ReadPhase, At
<1>3. PICK key \in PresetKeys : key = ActivePhase
  BY PresetsAre DEF Inv, RowsOK, SessionRow, ActivePhase
<1>4. PICK l : l = [g EXCEPT !.target = key, !.pc = "read_run"]
  OBVIOUS
<1>5. l \in Locals
  BY <1>2, <1>4 DEF Locals, PCs, Detours, Starting, MaybePhase, PhaseKeys
<1>6. LocalSound(l)
  BY <1>2, <1>4 DEF Locals, LocalSound, WaySound, AskSound, DecideSound, Route, Stage, Seeking, Starting,
      Detours, Asking, AtReview, AtApproval, Describing, Resolving, Judging, Deciding
<1>7. h' = [h EXCEPT ![p] = l]
  BY <1>1, <1>3, <1>4 DEF ReadPhase, Become
<1>. QED BY <1>5, <1>6, <1>7, Reads DEF ReadPhase, Listed, Plain

\* Seeding on the way to a step holds what that step holds.
Twin(l, m) ==
  /\ l.pc \in {"find_phase", "read_phase"} /\ m.pc = "seed" /\ m.next = l.pc /\ m.todo # {}
  /\ m.op = l.op /\ m.cont = l.cont /\ m.job = l.job /\ m.gate = l.gate /\ m.succ = l.succ
  /\ m.ok = l.ok /\ m.auto = l.auto /\ m.run = l.run /\ m.target = l.target /\ m.sess = l.sess
  /\ m.review = l.review /\ m.row = l.row /\ m.approval = l.approval
  /\ m.handoff = l.handoff /\ m.artifact = l.artifact /\ m.revision = l.revision

LEMMA TwinSound ==
  ASSUME NEW l, NEW m, Twin(l, m), LocalSound(l)
  PROVE  LocalSound(m)
BY DEF Twin, LocalSound, WaySound, AskSound, DecideSound, Route, Stage, Seeking, Starting,
       Detours, Asking, AtReview, AtApproval, Describing, Resolving, Judging, Deciding

LEMMA TwinSoundLater ==
  ASSUME NEW l, NEW m, Twin(l, m), LocalSound(l)'
  PROVE  LocalSound(m)'
BY DEF Twin, LocalSound, WaySound, AskSound, DecideSound, Route, Stage, Seeking, Starting,
       Detours, Asking, AtReview, AtApproval, Describing, Resolving, Judging, Deciding

LEMMA SeededIs ==
  ASSUME NEW g \in Locals, NEW pc \in {"find_phase", "read_phase"}, NEW l, l = [g EXCEPT !.pc = pc],
         NEW m, m = Seeded(g, pc)
  PROVE  l \in Locals /\ m \in Locals /\ (m = l \/ Twin(l, m))
<1>1. pc \in PCs /\ "seed" \in PCs
  BY DEF PCs, Detours, Seeking, Starting
<1>2. PICK missing \in SUBSET (DOMAIN Presets) : missing = {i \in DOMAIN Presets : Presets[i] \notin phases}
  OBVIOUS
<1>3. l \in Locals
  BY <1>1 DEF Locals
<1>4. CASE missing = {}
  BY <1>2, <1>3, <1>4 DEF Seeded
<1>5. CASE missing # {}
  <2>1. m = [g EXCEPT !.pc = "seed", !.todo = missing, !.next = pc]
    BY <1>2, <1>5 DEF Seeded
  <2>2. m \in Locals
    BY <1>1, <2>1 DEF Locals
  <2>3. Twin(l, m)
    BY <1>5, <2>1 DEF Twin, Locals
  <2>. QED BY <1>3, <2>2, <2>3
<1>. QED BY <1>4, <1>5

----------------------------------------------------------------------------
(* The steps of the server that add no row *)

LEMMA SeedOneKeeps ==
  ASSUME Inv, NEW p \in Handlers, SeedOne(p)
  PROVE  Inv'
<1>1. PICK g : g = h[p]
  OBVIOUS
<1>2. g \in Locals /\ LocalSound(g) /\ g.pc = "seed"
  BY <1>1 DEF Inv, SeedOne, At
<1>3. g.todo \in SUBSET (1 .. 5) /\ g.todo # {} /\ g.next \in {"find_phase", "read_phase"}
  BY <1>2, PresetsAre DEF Locals, LocalSound, WaySound
<1>4. PICK first : first = Min(g.todo)
  OBVIOUS
<1>5. first \in 1 .. 5
  BY <1>3, <1>4, MinIs
<1>6. PICK rest : rest = g.todo \ {first}
  OBVIOUS
<1>7. CASE Return(p) /\ UNCHANGED phases
  BY <1>7, Returns DEF SeedOne, Listed, Plain
<1>8. CASE /\ InsertPhase(Presets[first])
           /\ Become(p, [g EXCEPT !.todo = rest, !.pc = IF rest = {} THEN g.next ELSE g.pc])
  <2>1. PICK keys \in SUBSET PresetKeys : keys = phases \union {Presets[first]}
    BY <1>5, PresetsAre DEF Inv, RowsOK
  <2>2. PICK l : l = [g EXCEPT !.todo = rest, !.pc = IF rest = {} THEN g.next ELSE g.pc]
    OBVIOUS
  <2>3. l \in Locals
    <3>1. PICK pc : pc = IF rest = {} THEN g.next ELSE g.pc
      OBVIOUS
    <3>2. pc \in PCs /\ rest \in SUBSET (DOMAIN Presets)
      BY <1>2, <1>3, <1>6, <3>1, PresetsAre DEF PCs, Detours, Starting, Seeking
    <3>3. l = [g EXCEPT !.todo = rest, !.pc = pc]
      BY <2>2, <3>1
    <3>. QED BY <1>2, <3>2, <3>3 DEF Locals
  <2>4. LocalSound(l)
    BY <1>2, <1>3, <1>6, <2>2 DEF Locals, LocalSound, WaySound, AskSound, DecideSound, Route, Stage,
        Seeking, Starting, Detours, Asking, AtReview, AtApproval, Describing, Resolving, Judging, Deciding
  <2>5. h' = [h EXCEPT ![p] = l] /\ phases' = keys
    BY <1>8, <2>1, <2>2 DEF Become, InsertPhase
  <2>6. session \in SessionRow /\ run \in RunRow /\ RowSound(run) /\ flags \in [DOMAIN Policies -> Flag]
    BY DEF Inv, RowsOK
  <2>. QED BY <2>3, <2>4, <2>5, <2>6, MovesOn DEF SeedOne, Listed
<1>. QED
  BY <1>1, <1>4, <1>6, <1>7, <1>8 DEF SeedOne

LEMMA FindPhaseKeeps ==
  ASSUME Inv, NEW p \in Handlers, FindPhase(p)
  PROVE  Inv'
<1>1. PICK g : g = h[p]
  OBVIOUS
<1>2. g \in Locals /\ LocalSound(g) /\ g.pc = "find_phase"
  BY <1>1 DEF Inv, FindPhase, At
<1>3. g.cont \in {"done", "resolve", "decide"}
  BY <1>2 DEF LocalSound, WaySound, Route, Seeking
<1>4. CASE ~PhaseExists(g.target)
  BY <1>1, <1>4, Returns DEF FindPhase, Listed, Plain
<1>5. CASE PhaseExists(g.target)
  <2>1. PICK pc \in {g.cont, "set_phase"} : pc = IF session.active = g.target THEN g.cont ELSE "set_phase"
    OBVIOUS
  <2>2. PICK l : l = [g EXCEPT !.pc = pc, !.sess = session]
    OBVIOUS
  <2>3. g.target \in PresetKeys
    BY <1>5 DEF PhaseExists, Inv, RowsOK
  <2>4. l \in Locals
    <3>1. pc \in PCs /\ session \in SessionRow
      BY <1>3, <2>1 DEF Inv, RowsOK, PCs, Detours, Seeking
    <3>. QED BY <1>2, <2>2, <3>1 DEF Locals
  <2>5. LocalSound(l)
    BY <1>2, <1>3, <2>1, <2>2, <2>3 DEF Locals, LocalSound, WaySound, AskSound, DecideSound, Route, Stage,
        Seeking, Starting, Detours, Asking, AtReview, AtApproval, Describing, Resolving, Judging, Deciding
  <2>6. h' = [h EXCEPT ![p] = l]
    BY <1>1, <1>5, <2>1, <2>2 DEF FindPhase, Become
  <2>. QED BY <2>4, <2>5, <2>6, Reads DEF FindPhase, Listed, Plain
<1>. QED BY <1>4, <1>5

LEMMA SetPhaseKeeps ==
  ASSUME Inv, NEW p \in Handlers, SetPhase(p)
  PROVE  Inv'
<1>1. PICK g : g = h[p]
  OBVIOUS
<1>2. g \in Locals /\ LocalSound(g) /\ g.pc = "set_phase"
  BY <1>1 DEF Inv, SetPhase, At
<1>3. g.cont \in {"done", "resolve", "decide"} /\ g.target \in PresetKeys
  BY <1>2 DEF LocalSound, WaySound, Route, Seeking
<1>4. PICK s : s = [g.sess EXCEPT !.active = g.target]
  OBVIOUS
<1>5. s \in SessionRow
  BY <1>2, <1>3, <1>4 DEF Locals, SessionRow
<1>6. PICK l : l = [g EXCEPT !.pc = g.cont]
  OBVIOUS
<1>7. l \in Locals
  BY <1>2, <1>3, <1>6 DEF Locals, PCs
<1>8. LocalSound(l)
  BY <1>2, <1>3, <1>6 DEF Locals, LocalSound, WaySound, AskSound, DecideSound, Route, Stage,
      Seeking, Starting, Detours, Asking, AtReview, AtApproval, Describing, Resolving, Judging, Deciding
<1>9. h' = [h EXCEPT ![p] = l] /\ session' = s
  BY <1>1, <1>4, <1>6 DEF SetPhase, Goto, UpdateSession
<1>10. phases \in SUBSET PresetKeys /\ run \in RunRow /\ RowSound(run) /\ flags \in [DOMAIN Policies -> Flag]
  BY DEF Inv, RowsOK
<1>. QED BY <1>5, <1>7, <1>8, <1>9, <1>10, MovesOn DEF SetPhase, Listed

\* The steps that write one row and return.
LEMMA LastWriteKeeps ==
  ASSUME Inv, NEW p \in Handlers,
         Done(p) \/ EditSession(p) \/ PauseSession(p) \/ SavePolicy(p)
  PROVE  Inv'
<1>1. PICK g : g = h[p]
  OBVIOUS
<1>2. g \in Locals
  BY <1>1 DEF Inv
<1>3. phases \in SUBSET PresetKeys /\ run \in RunRow /\ RowSound(run) /\ flags \in [DOMAIN Policies -> Flag]
  BY DEF Inv, RowsOK
<1>4. CASE Done(p)
  BY <1>4, Returns DEF Done, Listed, Plain
<1>5. CASE EditSession(p)
  <2>1. PICK s : s = [g.sess EXCEPT !.title = "edited"]
    OBVIOUS
  <2>2. s \in SessionRow
    BY <1>2, <2>1 DEF Locals, SessionRow
  <2>. QED BY <1>1, <1>3, <1>5, <2>1, <2>2, IdleIs, MovesOn
           DEF EditSession, UpdateSession, Return, Become, Listed
<1>6. CASE PauseSession(p)
  <2>1. PICK s : s = [g.sess EXCEPT !.guard = "paused"]
    OBVIOUS
  <2>2. s \in SessionRow
    BY <1>2, <2>1 DEF Locals, SessionRow
  <2>. QED BY <1>1, <1>3, <1>6, <2>1, <2>2, IdleIs, MovesOn
           DEF PauseSession, UpdateSession, Return, Become, Listed
<1>7. CASE SavePolicy(p)
  <2>1. flags' \in [DOMAIN Policies -> Flag]
    BY <1>1, <1>2, <1>3, <1>7 DEF SavePolicy, UpdatePolicy, Locals
  <2>2. session \in SessionRow
    BY DEF Inv, RowsOK
  <2>. QED BY <1>3, <1>7, <2>1, <2>2, IdleIs, MovesOn DEF SavePolicy, Return, Become, Listed
<1>. QED BY <1>4, <1>5, <1>6, <1>7

LEMMA ReadRunKeeps ==
  ASSUME Inv, NEW p \in Handlers, ReadRun(p)
  PROVE  Inv'
<1>1. PICK g : g = h[p]
  OBVIOUS
<1>2. g \in Locals /\ LocalSound(g) /\ g.pc = "read_run"
  BY <1>1 DEF Inv, ReadRun, At
<1>3. g.cont \in {"done", "check_review", "evaluate", "record_gate"} /\ g.target \in PresetKeys
  BY <1>2 DEF LocalSound, WaySound, Route, Starting
<1>4. PICK row : row = run
  OBVIOUS
<1>5. row \in RunRow /\ RowSound(row)
  BY <1>4 DEF Inv, RowsOK
<1>6. PICK pc \in {g.cont, "save_run"} : pc = IF run.gateStatus = "pending" THEN g.cont ELSE "save_run"
  OBVIOUS
<1>7. PICK l : l = [g EXCEPT !.run = row, !.pc = pc]
  OBVIOUS
<1>8. l \in Locals
  <2>1. pc \in PCs
    BY <1>3, <1>6 DEF PCs, Detours, Starting, Asking
  <2>. QED BY <1>2, <1>5, <1>7, <2>1 DEF Locals
<1>9. LocalSound(l)
  BY <1>2, <1>3, <1>5, <1>6, <1>7 DEF Locals, LocalSound, WaySound, AskSound, DecideSound, Route, Stage,
      Seeking, Starting, Detours, Asking, AtReview, AtApproval, Describing, Resolving, Judging, Deciding
<1>10. h' = [h EXCEPT ![p] = l]
  BY <1>1, <1>4, <1>6, <1>7 DEF ReadRun, Become
<1>. QED BY <1>8, <1>9, <1>10, Reads DEF ReadRun, Listed, Plain

LEMMA SaveRunKeeps ==
  ASSUME Inv, NEW p \in Handlers, SaveRun(p)
  PROVE  Inv'
<1>1. PICK g : g = h[p]
  OBVIOUS
<1>2. g \in Locals /\ LocalSound(g) /\ g.pc = "save_run"
  BY <1>1 DEF Inv, SaveRun, At
<1>3. g.cont \in {"done", "check_review", "evaluate", "record_gate"} /\ g.target \in PresetKeys
  BY <1>2 DEF LocalSound, WaySound, Route, Starting
<1>4. CASE Return(p) /\ UNCHANGED run
  BY <1>4, Returns DEF SaveRun, Listed, Plain
<1>5. CASE run' = AtPhase(g.run, g.target) /\ Become(p, [g EXCEPT !.run = run', !.pc = g.cont])
  <2>1. PICK row : row = AtPhase(g.run, g.target)
    OBVIOUS
  <2>2. NoRun \in RunRow /\ g.run \in RunRow
    BY <1>2, NoRunIs DEF Locals
  <2>3. row \in RunRow
    BY <1>3, <2>1, <2>2 DEF AtPhase, RunRow, MaybePhase, PhaseKeys
  <2>4. row.gateStatus = "idle" /\ row.gate = "none" /\ row.review = 0 /\ row.approval = 0
    BY <2>1, <2>2 DEF AtPhase, NoRun, RunRow
  <2>5. RowSound(row)
    BY <2>4 DEF RowSound
  <2>6. PICK l : l = [g EXCEPT !.run = row, !.pc = g.cont]
    OBVIOUS
  <2>7. l \in Locals
    BY <1>2, <1>3, <2>3, <2>6 DEF Locals, PCs, Asking
  <2>8. LocalSound(l)
    BY <1>2, <1>3, <2>5, <2>6 DEF Locals, LocalSound, WaySound, AskSound, DecideSound, Route, Stage,
        Seeking, Starting, Detours, Asking, AtReview, AtApproval, Describing, Resolving, Judging, Deciding
  <2>9. h' = [h EXCEPT ![p] = l] /\ run' = row
    BY <1>5, <2>1, <2>6 DEF Become
  <2>10. session \in SessionRow /\ phases \in SUBSET PresetKeys /\ flags \in [DOMAIN Policies -> Flag]
    BY DEF Inv, RowsOK
  <2>. QED BY <2>3, <2>5, <2>7, <2>8, <2>9, <2>10, MovesOn DEF SaveRun, Listed
<1>. QED BY <1>1, <1>4, <1>5 DEF SaveRun, InsertRun, UpdateRun

LEMMA EvaluateGateKeeps ==
  ASSUME Inv, NEW p \in Handlers, EvaluateGate(p)
  PROVE  Inv'
<1>1. PICK g : g = h[p]
  OBVIOUS
<1>2. g \in Locals /\ LocalSound(g) /\ g.pc = "evaluate"
  BY <1>1 DEF Inv, EvaluateGate, At
<1>3. /\ g.job \in DOMAIN jobs /\ g.op \in {"review_gate", "approval_gate"} /\ ~g.auto
      /\ g.gate = "approval_required" /\ g.succ \in SuccessPhases
      /\ g.approval = 0 /\ g.review = 0
  BY <1>2 DEF LocalSound, AskSound, Stage, Detours, Seeking, Starting, Asking
<1>4. PICK e : e = Evaluate(g.succ, ActivePhase)
  OBVIOUS
<1>5. e.policy \in Nat
  <2>1. PICK hits \in SUBSET Nat :
          hits = {i \in Candidates(g.succ) : flags[i].active /\ Matches(i, g.succ, ActivePhase)}
    <3>1. DOMAIN Policies \subseteq Nat
      BY PoliciesAssumption
    <3>. QED BY <3>1 DEF Candidates
  <2>2. CASE hits = {}
    BY <1>4, <2>1, <2>2 DEF Evaluate
  <2>3. CASE hits # {}
    <3>1. e.policy = Min(hits)
      BY <1>4, <2>1, <2>3 DEF Evaluate
    <3>. QED BY <2>3, <3>1, MinIs
  <2>. QED BY <2>2, <2>3
<1>6. CASE Return(p)
  BY <1>6, Returns DEF EvaluateGate, Listed, Plain
<1>7. CASE Become(p, Started([g EXCEPT !.gate = "review_required"], "check_review"))
  <2>1. PICK f : f = [[g EXCEPT !.gate = "review_required"] EXCEPT !.cont = "check_review"]
    OBVIOUS
  <2>2. f \in Locals
    BY <1>2, <2>1 DEF Locals, PCs, Asking
  <2>3. PICK l : l = [f EXCEPT !.pc = "read_phase"]
    OBVIOUS
  <2>4. PICK m : m = Seeded(f, "read_phase")
    OBVIOUS
  <2>5. l \in Locals /\ m \in Locals /\ (m = l \/ Twin(l, m))
    BY <2>2, <2>3, <2>4, SeededIs
  <2>6. LocalSound(l)
    <3>1. /\ l.pc = "read_phase" /\ l.cont = "check_review" /\ l.gate = "review_required"
          /\ l.job = g.job /\ l.op = g.op /\ ~l.auto /\ l.succ = g.succ
          /\ l.approval = 0 /\ l.review = 0 /\ l.run = g.run
      BY <1>2, <1>3, <2>1, <2>3 DEF Locals
    <3>. QED BY <1>2, <1>3, <3>1 DEF LocalSound, WaySound, AskSound, DecideSound, Route, Stage,
        Seeking, Starting, Detours, Asking, AtReview, AtApproval, Describing, Resolving, Judging, Deciding
  <2>7. LocalSound(m)
    BY <2>5, <2>6, TwinSound
  <2>8. h' = [h EXCEPT ![p] = m]
    BY <1>7, <2>1, <2>4 DEF Become, Started
  <2>. QED BY <2>5, <2>7, <2>8, Reads DEF EvaluateGate, Listed, Plain
<1>8. CASE Become(p, [g EXCEPT !.pc = "handoff", !.policy = e.policy, !.auto = (e.decision = "auto_approve")])
  <2>1. PICK auto \in BOOLEAN : auto = (e.decision = "auto_approve")
    OBVIOUS
  <2>2. PICK l : l = [g EXCEPT !.pc = "handoff", !.policy = e.policy, !.auto = auto]
    OBVIOUS
  <2>3. l \in Locals
    BY <1>2, <1>5, <2>2 DEF Locals, PCs, Asking
  <2>4. LocalSound(l)
    BY <1>2, <1>3, <2>2 DEF Locals, LocalSound, WaySound, AskSound, DecideSound, Route, Stage,
        Seeking, Starting, Detours, Asking, AtReview, AtApproval, Describing, Resolving, Judging, Deciding
  <2>5. h' = [h EXCEPT ![p] = l]
    BY <1>8, <2>1, <2>2 DEF Become
  <2>. QED BY <2>3, <2>4, <2>5, Reads DEF EvaluateGate, Listed, Plain
<1>. QED BY <1>1, <1>4, <1>6, <1>7, <1>8 DEF EvaluateGate

LEMMA CheckReviewKeeps ==
  ASSUME Inv, NEW p \in Handlers, CheckReview(p)
  PROVE  Inv'
<1>1. PICK g : g = h[p]
  OBVIOUS
<1>2. g \in Locals /\ LocalSound(g) /\ g.pc = "check_review" /\ session \in SessionRow
  BY <1>1 DEF Inv, RowsOK, CheckReview, At
<1>3. CASE Return(p)
  BY <1>3, Returns DEF CheckReview, Listed, Plain
<1>4. CASE Become(p, [g EXCEPT !.pc = "create_review", !.sess = session])
  <2>1. PICK l : l = [g EXCEPT !.pc = "create_review", !.sess = session]
    OBVIOUS
  <2>2. l \in Locals
    BY <1>2, <2>1 DEF Locals, PCs, Asking
  <2>3. LocalSound(l)
    BY <1>2, <2>1 DEF Locals, LocalSound, WaySound, AskSound, DecideSound, Route, Stage,
        Seeking, Starting, Detours, Asking, AtReview, AtApproval, Describing, Resolving, Judging, Deciding
  <2>4. h' = [h EXCEPT ![p] = l]
    BY <1>4, <2>1 DEF Become
  <2>. QED BY <2>2, <2>3, <2>4, Reads DEF CheckReview, Listed, Plain
<1>. QED BY <1>1, <1>3, <1>4 DEF CheckReview

LEMMA PublishKeeps ==
  ASSUME Inv, NEW p \in Handlers,
         \/ Publish(p, "publish_request", "link_request")
         \/ Publish(p, "publish_decision", "summarize")
  PROVE  Inv'
<1>1. PICK g : g = h[p]
  OBVIOUS
<1>2. PICK next \in PCs :
        /\ \/ g.pc = "publish_request" /\ next = "link_request"
           \/ g.pc = "publish_decision" /\ next = "summarize"
        /\ Publish(p, g.pc, next)
  <2>1. {"publish_request", "link_request", "publish_decision", "summarize"} \subseteq PCs
    BY DEF PCs, Asking, Judging
  <2>. QED BY <1>1, <2>1 DEF Publish, At
<1>3. g \in Locals /\ LocalSound(g)
  BY <1>1 DEF Inv
<1>4. PICK s \in SessionRow : s = g.sess
  BY <1>3 DEF Locals
<1>5. PICK l : l = [g EXCEPT !.pc = next]
  OBVIOUS
<1>6. l \in Locals
  BY <1>3, <1>5 DEF Locals
<1>7. LocalSound(l)
  BY <1>2, <1>3, <1>5 DEF Locals, LocalSound, WaySound, AskSound, DecideSound, Route, Stage,
      Seeking, Starting, Detours, Asking, AtReview, AtApproval, Describing, Resolving, Judging, Deciding
<1>8. h' = [h EXCEPT ![p] = l] /\ session' = s
  BY <1>1, <1>2, <1>4, <1>5 DEF Publish, Goto, UpdateSession
<1>9. phases \in SUBSET PresetKeys /\ run \in RunRow /\ RowSound(run) /\ flags \in [DOMAIN Policies -> Flag]
  BY DEF Inv, RowsOK
<1>. QED BY <1>2, <1>6, <1>7, <1>8, <1>9, MovesOn DEF Publish, Listed

LEMMA ReadApprovalKeeps ==
  ASSUME Inv, NEW p \in Handlers, ReadApproval(p)
  PROVE  Inv'
<1>1. PICK g : g = h[p]
  OBVIOUS
<1>2. g \in Locals /\ LocalSound(g) /\ g.pc = "read_approval"
  BY <1>1 DEF Inv, ReadApproval, At
<1>3. CASE Return(p)
  BY <1>3, Returns DEF ReadApproval, Listed, Plain
<1>4. CASE Goto(p, "save_approval")
  <2>1. PICK l : l = [g EXCEPT !.pc = "save_approval"]
    OBVIOUS
  <2>2. l \in Locals
    BY <1>2, <2>1 DEF Locals, PCs, Deciding
  <2>3. LocalSound(l)
    BY <1>2, <2>1 DEF Locals, LocalSound, WaySound, AskSound, DecideSound, Route, Stage,
        Seeking, Starting, Detours, Asking, AtReview, AtApproval, Describing, Resolving, Judging, Deciding
  <2>4. h' = [h EXCEPT ![p] = l]
    BY <1>1, <1>4, <2>1 DEF Goto
  <2>. QED BY <2>2, <2>3, <2>4, Reads DEF ReadApproval, Listed, Plain
<1>. QED BY <1>3, <1>4 DEF ReadApproval

LEMMA RecordGateKeeps ==
  ASSUME Inv, NEW p \in Handlers, RecordGate(p)
  PROVE  Inv'
<1>1. PICK g : g = h[p]
  OBVIOUS
<1>2. g \in Locals /\ LocalSound(g) /\ g.pc = "record_gate"
  BY <1>1 DEF Inv, RecordGate, At
<1>3. /\ g.gate \in {"review_required", "approval_required"} /\ g.succ \in SuccessPhases
      /\ g.gate = "review_required" => g.approval = 0 /\ IsReview(g.review, g.job)
      /\ g.gate = "approval_required" => g.review = 0 /\ IsApproval(g.approval, g.handoff)
      /\ IsHandoff(g.handoff, g.job)
      /\ IsTransition(g.artifact, Artifact(g.gate, g.job, g.succ))
      /\ g.auto => g.gate = "approval_required"
      /\ g.op # "judge"
  BY <1>2 DEF LocalSound, AskSound, Stage, Detours, Seeking, Starting, Asking
<1>4. PICK row : row = IF SameGate(g.run, g) THEN run ELSE Gated(g.run, g)
  OBVIOUS
<1>5. row \in RunRow /\ RowSound(row)
  <2>1. CASE SameGate(g.run, g)
    <3>1. row = run
      BY <1>4, <2>1
    <3>. QED BY <3>1 DEF Inv, RowsOK
  <2>2. CASE ~SameGate(g.run, g)
    <3>1. row = Gated(g.run, g)
      BY <1>4, <2>2
    <3>2. g.run \in RunRow /\ "revise" \in PresetKeys /\ g.succ \in MaybePhase /\ g.succ # "none"
      BY <1>2, <1>3, PresetsAre, SuccessAssumption DEF Locals, MaybePhase, PhaseKeys
    <3>3. row \in RunRow
      BY <1>2, <1>3, <3>1, <3>2 DEF Gated, RunRow, Locals
    <3>4. /\ row.gateStatus = "pending" /\ row.gate = g.gate /\ row.source = g.job
          /\ row.handoff = g.handoff /\ row.review = g.review /\ row.approval = g.approval
          /\ row.transition = g.artifact /\ row.status = "blocked" /\ row.pending = g.succ
      BY <3>1, <3>2 DEF Gated, RunRow
    <3>5. RowSound(row)
      BY <1>3, <3>2, <3>4 DEF RowSound
    <3>. QED BY <3>3, <3>5
  <2>. QED BY <2>1, <2>2
<1>6. PICK l : l = IF g.auto THEN [g EXCEPT !.pc = "read_approval", !.ok = TRUE] ELSE Idle
  OBVIOUS
<1>7. l \in Locals /\ LocalSound(l)
  <2>1. CASE g.auto
    <3>1. l = [g EXCEPT !.pc = "read_approval", !.ok = TRUE]
      BY <1>6, <2>1
    <3>2. l \in Locals
      BY <1>2, <3>1 DEF Locals, PCs, Deciding
    <3>3. /\ l.pc = "read_approval" /\ l.op = g.op /\ l.run = g.run /\ l.review = g.review
          /\ l.approval = g.approval /\ l.gate = g.gate /\ l.cont = g.cont
      BY <1>2, <3>1 DEF Locals
    <3>4. l.review = 0 /\ l.approval \in DOMAIN approvals /\ l.op # "judge" /\ l.gate = "approval_required"
      BY <1>3, <2>1, <3>3 DEF IsApproval
    <3>5. LocalSound(l)
      BY <1>2, <3>3, <3>4 DEF LocalSound, WaySound, AskSound, DecideSound, Route, Stage,
        Seeking, Starting, Detours, Asking, AtReview, AtApproval, Describing, Resolving, Judging, Deciding
    <3>. QED BY <3>2, <3>5
  <2>2. CASE ~g.auto
    BY <1>6, <2>2, IdleIs
  <2>. QED BY <2>1, <2>2
<1>8. h' = [h EXCEPT ![p] = l]
  BY <1>1, <1>6 DEF RecordGate, Return, Become
<1>9. run' = row
  BY <1>1, <1>4 DEF RecordGate, UpdateRun
<1>10. session \in SessionRow /\ phases \in SUBSET PresetKeys /\ flags \in [DOMAIN Policies -> Flag]
  BY DEF Inv, RowsOK
<1>. QED BY <1>5, <1>7, <1>8, <1>9, <1>10, MovesOn DEF RecordGate, Listed

\* A run that is found by the review or the approval of a decision and is not
\* settled waits for exactly that decision.
LEMMA FoundIsPending ==
  ASSUME Inv, NEW l \in Locals, Found(l), ~AlreadyResolved,
         IF l.op = "judge" THEN l.review \in DOMAIN reviews ELSE l.approval \in DOMAIN approvals
  PROVE  /\ run.gateStatus = "pending" /\ run.pending # "none"
         /\ l.op = "judge" => run.gate = "review_required" /\ run.review = l.review
         /\ l.op # "judge" => run.gate = "approval_required" /\ run.approval = l.approval
<1>1. reviews \in Seq(ReviewRow) /\ approvals \in Seq(ApprovalRow) /\ artifacts \in Seq(ArtifactRow)
  BY DEF Inv, RowsOK
<1>2. 0 \notin DOMAIN reviews /\ 0 \notin DOMAIN approvals /\ 0 \notin DOMAIN artifacts
  BY <1>1
<1>3. RowSound(run) /\ run \in RunRow
  BY DEF Inv, RowsOK
<1>4. run.gateStatus \in {"approved", "rejected"} => run.decision # 0
  BY <1>2, <1>3 DEF RowSound, IsDecision
<1>5. run.review # 0 \/ run.approval # 0
  BY <1>2 DEF Found, RunOfReview, RunOfApproval
<1>6. run.gateStatus = "pending"
  BY <1>3, <1>4, <1>5 DEF RowSound, RunRow, AlreadyResolved
<1>7. run.gate \in {"review_required", "approval_required"}
  BY <1>3, <1>6 DEF RowSound, RunRow
<1>. QED BY <1>2, <1>3, <1>6, <1>7 DEF RowSound, Found, RunOfReview, RunOfApproval

LEMMA FindGateKeeps ==
  ASSUME Inv, NEW p \in Handlers, FindGate(p)
  PROVE  Inv'
<1>1. PICK g : g = h[p]
  OBVIOUS
<1>2. g \in Locals /\ LocalSound(g) /\ g.pc = "find_gate"
  BY <1>1 DEF Inv, FindGate, At
<1>3. CASE Return(p)
  BY <1>3, Returns DEF FindGate, Listed, Plain
<1>4. CASE /\ Found(g) /\ ~AlreadyResolved
           /\ Become(p, Activated([g EXCEPT !.run = run, !.job = run.source],
                                  Target(g.ok), IF g.op = "judge" THEN "resolve" ELSE "decide"))
  <2>1. PICK row : row = run
    OBVIOUS
  <2>2. row \in RunRow /\ RowSound(row)
    BY <2>1 DEF Inv, RowsOK
  <2>3. /\ g.op = "judge" => /\ IsReview(g.review, g.job) /\ IsDecision(g.artifact, g.job)
                             /\ ~g.ok => IsRevision(g.revision, g.job)
        /\ g.op # "judge" => g.review = 0 /\ g.approval \in DOMAIN approvals
    BY <1>2 DEF LocalSound, DecideSound, AtReview, AtApproval
  <2>4. /\ row.gateStatus = "pending" /\ row.pending # "none"
        /\ g.op = "judge" => row.gate = "review_required" /\ row.review = g.review
        /\ g.op # "judge" => row.gate = "approval_required" /\ row.approval = g.approval
    BY <1>2, <1>4, <2>1, <2>3, FoundIsPending DEF IsReview
  <2>5. PICK key \in MaybePhase : key = Target(g.ok)
    BY <2>1, <2>2, <2>4 DEF Target, RunRow, MaybePhase, PhaseKeys
  <2>6. PICK cont \in {"resolve", "decide"} : cont = IF g.op = "judge" THEN "resolve" ELSE "decide"
    OBVIOUS
  <2>7. PICK f : f = [[g EXCEPT !.run = row, !.job = row.source] EXCEPT !.target = key, !.cont = cont]
    OBVIOUS
  <2>8. f \in Locals
    <3>1. cont \in PCs /\ row.source \in Nat
      BY <2>2, <2>6 DEF PCs, RunRow
    <3>. QED BY <1>2, <2>2, <2>7, <3>1 DEF Locals
  <2>9. PICK l : l = [f EXCEPT !.pc = "find_phase"]
    OBVIOUS
  <2>10. PICK m : m = Seeded(f, "find_phase")
    OBVIOUS
  <2>11. l \in Locals /\ m \in Locals /\ (m = l \/ Twin(l, m))
    BY <2>8, <2>9, <2>10, SeededIs
  <2>12. /\ l.pc = "find_phase" /\ l.cont = cont /\ l.run = row /\ l.job = row.source
         /\ l.op = g.op /\ l.ok = g.ok /\ l.review = g.review /\ l.approval = g.approval
         /\ l.artifact = g.artifact /\ l.revision = g.revision /\ l.gate = g.gate /\ l.auto = g.auto
    BY <1>2, <2>7, <2>9 DEF Locals
  <2>13. g.op = "judge" => row.source = g.job
    BY <2>2, <2>3, <2>4 DEF RowSound, IsReview
  <2>14. LocalSound(l)
    <3>1. RowSound(l.run) /\ WaySound(l)
      BY <2>2, <2>6, <2>12 DEF WaySound, Route, Seeking, Starting
    <3>2. AskSound(l)
      BY <1>2, <2>6, <2>12 DEF LocalSound, AskSound, Stage, Seeking, Starting, Detours, Asking
    <3>3. DecideSound(l)
      BY <2>3, <2>4, <2>6, <2>12, <2>13 DEF DecideSound, AtReview, AtApproval, Describing, Resolving,
         Stage, Seeking, Detours, Judging, Deciding, IsReview
    <3>. QED BY <3>1, <3>2, <3>3 DEF LocalSound
  <2>15. LocalSound(m)
    BY <2>11, <2>14, TwinSound
  <2>16. h' = [h EXCEPT ![p] = m]
    BY <1>4, <2>1, <2>5, <2>6, <2>7, <2>10 DEF Become, Activated
  <2>. QED BY <2>11, <2>15, <2>16, Reads DEF FindGate, Listed, Plain
<1>. QED BY <1>1, <1>3, <1>4 DEF FindGate

LEMMA ResolveGateKeeps ==
  ASSUME Inv, NEW p \in Handlers, ResolveGate(p)
  PROVE  Inv'
<1>1. PICK g : g = h[p]
  OBVIOUS
<1>2. g \in Locals /\ LocalSound(g) /\ g.pc = "resolve"
  BY <1>1 DEF Inv, ResolveGate, At
<1>3. /\ g.run.gateStatus = "pending" /\ RowSound(g.run) /\ g.run \in RunRow
      /\ IsDecision(g.artifact, IF g.run.gate = "review_required" THEN g.run.source ELSE g.run.handoff)
      /\ ~g.ok => IsRevision(g.revision, g.run.source)
  BY <1>2 DEF LocalSound, DecideSound, Resolving, Stage, Detours, Seeking, Starting, Locals
<1>4. PICK row : row = Resolved(g.run, g)
  OBVIOUS
<1>5. row \in RunRow
  <2>1. PICK status \in {"completed", "active"} :
          status = IF g.ok /\ g.target = "finalize" THEN "completed" ELSE "active"
    OBVIOUS
  <2>2. PICK verdict \in {"approved", "rejected"} : verdict = IF g.ok THEN "approved" ELSE "rejected"
    OBVIOUS
  <2>3. g.target \in MaybePhase /\ "none" \in MaybePhase /\ g.artifact \in Nat /\ g.revision \in Nat
    BY <1>2 DEF Locals, MaybePhase
  <2>4. row = [g.run EXCEPT !.status = status, !.phase = g.target, !.pending = "none",
                 !.gateStatus = verdict, !.decision = g.artifact, !.revision = g.revision]
    BY <1>4, <2>1, <2>2 DEF Resolved
  <2>. QED BY <1>3, <2>3, <2>4 DEF RunRow
<1>6. /\ row.gateStatus = IF g.ok THEN "approved" ELSE "rejected"
      /\ row.decision = g.artifact /\ row.revision = g.revision
      /\ row.gate = g.run.gate /\ row.source = g.run.source /\ row.handoff = g.run.handoff
      /\ row.review = g.run.review /\ row.approval = g.run.approval
  BY <1>3, <1>4 DEF Resolved, RunRow
<1>7. RowSound(row)
  BY <1>3, <1>6 DEF RowSound
<1>8. run' = row /\ h' = [h EXCEPT ![p] = Idle]
  BY <1>1, <1>4 DEF ResolveGate, UpdateRun, Return, Become
<1>9. session \in SessionRow /\ phases \in SUBSET PresetKeys /\ flags \in [DOMAIN Policies -> Flag]
  BY DEF Inv, RowsOK
<1>. QED BY <1>5, <1>7, <1>8, <1>9, IdleIs, MovesOn DEF ResolveGate, Listed

----------------------------------------------------------------------------
(* The steps of the server that add or change a row *)

LEMMA CreateReviewKeeps ==
  ASSUME Inv, NEW p \in Handlers, CreateReview(p)
  PROVE  Inv'
<1>1. PICK g : g = h[p]
  OBVIOUS
<1>2. g \in Locals /\ LocalSound(g) /\ g.pc = "create_review"
  BY <1>1 DEF Inv, CreateReview, At
<1>3. /\ g.job \in DOMAIN jobs /\ g.gate # "approval_required" /\ g.op # "judge"
  BY <1>2 DEF LocalSound, AskSound, Stage, Detours, Seeking, Starting, Asking
<1>4. PICK n : n = Len(reviews) + 1
  OBVIOUS
<1>5. RowsOK' /\ Grow /\ IsReview(n, g.job)' /\ n \in Nat
  BY <1>1, <1>3, <1>4, AddReview DEF Inv, CreateReview, InsertReview, Plain
<1>6. PICK row : row = NewReview(g.job)
  OBVIOUS
<1>7. row \in ReviewRow
  BY <1>2, <1>6 DEF NewReview, ReviewRow, Locals
<1>8. PICK l : l = [g EXCEPT !.pc = "publish_request", !.review = n, !.row = row]
  OBVIOUS
<1>9. l \in Locals
  <2>1. "publish_request" \in PCs
    BY DEF PCs, Asking
  <2>. QED BY <1>2, <1>5, <1>7, <1>8, <2>1 DEF Locals
<1>10. LocalSound(g)'
  BY <1>2, <1>5, LocalKept
<1>11. LocalSound(l)'
  BY <1>2, <1>3, <1>5, <1>6, <1>8, <1>10 DEF Locals, LocalSound, WaySound, AskSound, DecideSound,
      Route, Stage, Seeking, Starting, Detours, Asking, AtReview, AtApproval, Describing, Resolving,
      Judging, Deciding
<1>12. h' = [h EXCEPT ![p] = l]
  BY <1>1, <1>4, <1>6, <1>8 DEF CreateReview, Become
<1>. QED BY <1>5, <1>9, <1>11, <1>12, HandlerMoves, GhostsKept DEF CreateReview

LEMMA LinkRequestKeeps ==
  ASSUME Inv, NEW p \in Handlers, LinkRequest(p)
  PROVE  Inv'
<1>1. PICK g : g = h[p]
  OBVIOUS
<1>2. g \in Locals /\ LocalSound(g) /\ g.pc = "link_request"
  BY <1>1 DEF Inv, LinkRequest, At
<1>3. /\ IsReview(g.review, g.job) /\ g.row = NewReview(g.job)
      /\ g.op \in {"review_gate", "approval_gate", "request_review"}
      /\ g.gate # "approval_required"
      /\ g.op # "request_review" =>
           g.gate \in {"review_required", "approval_required"} /\ g.succ \in SuccessPhases
  BY <1>2 DEF LocalSound, AskSound, Stage, Detours, Seeking, Starting, Asking
<1>4. PICK row : row = [g.row EXCEPT !.message = TRUE]
  OBVIOUS
<1>5. row \in ReviewRow /\ row.job = g.job /\ row.status = "requested"
  <2>1. g.row \in ReviewRow
    BY <1>2 DEF Locals
  <2>2. g.row.job = g.job /\ g.row.status = "requested"
    BY <1>3 DEF NewReview
  <2>. QED BY <1>4, <2>1, <2>2 DEF ReviewRow
<1>6. ReviewSound(row)
  BY <1>5 DEF ReviewSound
<1>7. RowsOK' /\ Grow
  BY <1>1, <1>3, <1>4, <1>5, <1>6, ChangeReview DEF Inv, LinkRequest, UpdateReview, Plain, IsReview
<1>8. PICK l : l = IF g.op = "request_review" THEN Idle ELSE [g EXCEPT !.pc = "handoff"]
  OBVIOUS
<1>9. h' = [h EXCEPT ![p] = l]
  BY <1>1, <1>8 DEF LinkRequest, Return, Become, Goto
<1>10. l \in Locals /\ LocalSound(l)
  <2>1. CASE g.op = "request_review"
    BY <1>8, <2>1, IdleIs
  <2>2. CASE g.op # "request_review"
    <3>1. l = [g EXCEPT !.pc = "handoff"]
      BY <1>8, <2>2
    <3>2. l \in Locals
      BY <1>2, <3>1 DEF Locals, PCs, Asking
    <3>3. LocalSound(l)
      BY <1>2, <1>3, <2>2, <3>1 DEF Locals, LocalSound, WaySound, AskSound, DecideSound,
        Route, Stage, Seeking, Starting, Detours, Asking, AtReview, AtApproval, Describing, Resolving,
        Judging, Deciding
    <3>. QED BY <3>2, <3>3
  <2>. QED BY <2>1, <2>2
<1>11. LocalSound(l)'
  BY <1>7, <1>10, LocalKept
<1>. QED BY <1>7, <1>9, <1>10, <1>11, HandlerMoves, GhostsKept DEF LinkRequest

LEMMA CreateHandoffKeeps ==
  ASSUME Inv, NEW p \in Handlers, CreateHandoff(p)
  PROVE  Inv'
<1>1. PICK g : g = h[p]
  OBVIOUS
<1>2. g \in Locals /\ LocalSound(g) /\ g.pc = "handoff" /\ jobs \in Seq(JobRow)
  BY <1>1 DEF Inv, RowsOK, CreateHandoff, At
<1>3. /\ g.job \in DOMAIN jobs /\ g.op \in {"review_gate", "approval_gate"}
      /\ g.gate \in {"review_required", "approval_required"} /\ g.succ \in SuccessPhases
  BY <1>2 DEF LocalSound, AskSound, Stage, Detours, Seeking, Starting, Asking
<1>4. PICK n : n = Len(jobs) + 1
  OBVIOUS
<1>5. g.job \in 0 .. Len(jobs)
  BY <1>2, <1>3
<1>6. RowsOK' /\ Grow /\ n \in Nat /\ IsHandoff(n, g.job)'
  BY <1>1, <1>4, <1>5, AddJob DEF Inv, CreateHandoff, InsertJob, Plain
<1>7. PICK pc \in {"describe", "create_approval"} :
        pc = IF g.gate = "review_required" THEN "describe" ELSE "create_approval"
  OBVIOUS
<1>8. PICK l : l = [g EXCEPT !.handoff = n, !.pc = pc]
  OBVIOUS
<1>9. l \in Locals
  <2>1. pc \in PCs
    BY <1>7 DEF PCs, Asking
  <2>. QED BY <1>2, <1>6, <1>8, <2>1 DEF Locals
<1>10. LocalSound(g)'
  BY <1>2, <1>6, LocalKept
<1>11. LocalSound(l)'
  BY <1>2, <1>3, <1>6, <1>7, <1>8, <1>10 DEF Locals, LocalSound, WaySound, AskSound, DecideSound,
      Route, Stage, Seeking, Starting, Detours, Asking, AtReview, AtApproval, Describing, Resolving,
      Judging, Deciding
<1>12. h' = [h EXCEPT ![p] = l]
  BY <1>1, <1>4, <1>7, <1>8 DEF CreateHandoff, Become
<1>. QED BY <1>6, <1>9, <1>11, <1>12, HandlerMoves, GhostsKept DEF CreateHandoff

LEMMA CreateApprovalKeeps ==
  ASSUME Inv, NEW p \in Handlers, CreateApproval(p)
  PROVE  Inv'
<1>1. PICK g : g = h[p]
  OBVIOUS
<1>2. g \in Locals /\ LocalSound(g) /\ g.pc = "create_approval"
  BY <1>1 DEF Inv, CreateApproval, At
<1>3. /\ g.op \in {"review_gate", "approval_gate"} /\ IsHandoff(g.handoff, g.job)
      /\ g.gate = "approval_required" /\ g.succ \in SuccessPhases
  BY <1>2 DEF LocalSound, AskSound, Stage, Detours, Seeking, Starting, Asking
<1>4. PICK n : n = Len(approvals) + 1
  OBVIOUS
<1>5. RowsOK' /\ Grow /\ IsApproval(n, g.handoff)' /\ n \in Nat
  BY <1>1, <1>3, <1>4, AddApproval DEF Inv, CreateApproval, InsertApproval, Plain, IsHandoff
<1>6. PICK l : l = [g EXCEPT !.approval = n, !.pc = "describe"]
  OBVIOUS
<1>7. l \in Locals
  <2>1. "describe" \in PCs
    BY DEF PCs, Asking
  <2>. QED BY <1>2, <1>5, <1>6, <2>1 DEF Locals
<1>8. LocalSound(g)'
  BY <1>2, <1>5, LocalKept
<1>9. LocalSound(l)'
  BY <1>2, <1>3, <1>5, <1>6, <1>8 DEF Locals, LocalSound, WaySound, AskSound, DecideSound,
      Route, Stage, Seeking, Starting, Detours, Asking, AtReview, AtApproval, Describing, Resolving,
      Judging, Deciding
<1>10. h' = [h EXCEPT ![p] = l]
  BY <1>1, <1>4, <1>6 DEF CreateApproval, Become
<1>. QED BY <1>5, <1>7, <1>9, <1>10, HandlerMoves, GhostsKept DEF CreateApproval

LEMMA DescribeKeeps ==
  ASSUME Inv, NEW p \in Handlers, Describe(p)
  PROVE  Inv'
<1>1. PICK g : g = h[p]
  OBVIOUS
<1>2. g \in Locals /\ LocalSound(g) /\ g.pc = "describe"
  BY <1>1 DEF Inv, Describe, At
<1>3. /\ g.op \in {"review_gate", "approval_gate"} /\ g.job \in Nat
      /\ g.gate \in {"review_required", "approval_required"} /\ g.succ \in SuccessPhases
  BY <1>2 DEF Locals, LocalSound, AskSound, Stage, Detours, Seeking, Starting, Asking
<1>4. PICK n : n = Len(artifacts) + 1
  OBVIOUS
<1>5. PICK row : row = Artifact(g.gate, g.job, g.succ)
  OBVIOUS
<1>6. row \in ArtifactRow
  BY <1>3, <1>5 DEF Artifact, ArtifactRow, MaybePhase, PhaseKeys
<1>7. RowsOK' /\ Grow /\ n \in Nat /\ IsTransition(n, row)'
  BY <1>1, <1>4, <1>5, <1>6, AddArtifact DEF Inv, Describe, InsertArtifact, Plain
<1>8. PICK f : f = [[g EXCEPT !.artifact = n] EXCEPT !.cont = "record_gate"]
  OBVIOUS
<1>9. f \in Locals
  BY <1>2, <1>7, <1>8 DEF Locals, PCs, Asking
<1>10. PICK l : l = [f EXCEPT !.pc = "read_phase"]
  OBVIOUS
<1>11. PICK m : m = Seeded(f, "read_phase")
  OBVIOUS
<1>12. l \in Locals /\ m \in Locals /\ (m = l \/ Twin(l, m))
  BY <1>9, <1>10, <1>11, SeededIs
<1>13. LocalSound(g)'
  BY <1>2, <1>7, LocalKept
<1>14. LocalSound(l)'
  <2>1. /\ l.pc = "read_phase" /\ l.cont = "record_gate" /\ l.gate = g.gate /\ l.job = g.job
        /\ l.op = g.op /\ l.auto = g.auto /\ l.succ = g.succ /\ l.approval = g.approval
        /\ l.review = g.review /\ l.run = g.run /\ l.handoff = g.handoff /\ l.artifact = n
    BY <1>2, <1>8, <1>10 DEF Locals
  <2>2. RowSound(l.run)' /\ WaySound(l)'
    BY <1>13, <2>1 DEF LocalSound, WaySound, Route, Seeking, Starting
  <2>3. AskSound(l)'
    BY <1>2, <1>3, <1>5, <1>7, <1>13, <2>1 DEF LocalSound, AskSound, Stage, Detours, Seeking, Starting, Asking
  <2>4. DecideSound(l)'
    BY <2>1 DEF DecideSound, Stage, Detours, Starting, AtReview, AtApproval, Describing, Resolving,
                Judging, Deciding
  <2>. QED BY <2>2, <2>3, <2>4 DEF LocalSound
<1>15. LocalSound(m)'
  BY <1>12, <1>14, TwinSoundLater
<1>16. h' = [h EXCEPT ![p] = m]
  BY <1>1, <1>4, <1>8, <1>11 DEF Describe, Become, Started
<1>. QED BY <1>7, <1>12, <1>15, <1>16, HandlerMoves, GhostsKept DEF Describe

LEMMA SaveApprovalKeeps ==
  ASSUME Inv, NEW p \in Handlers, SaveApproval(p)
  PROVE  Inv'
<1>1. PICK g : g = h[p]
  OBVIOUS
<1>2. g \in Locals /\ LocalSound(g) /\ g.pc = "save_approval"
  BY <1>1 DEF Inv, SaveApproval, At
<1>3. g.op # "judge" /\ g.review = 0 /\ g.approval \in DOMAIN approvals
  BY <1>2 DEF LocalSound, DecideSound, AtApproval, Deciding
<1>4. PICK status \in {"pending", "accepted", "declined"} : status = Verdict(g.ok)
  BY DEF Verdict
<1>5. RowsOK' /\ Grow
  BY <1>1, <1>3, <1>4, ChangeApproval DEF Inv, SaveApproval, UpdateApproval, Plain
<1>6. PICK l : l = [g EXCEPT !.pc = "move_handoff"]
  OBVIOUS
<1>7. l \in Locals
  BY <1>2, <1>6 DEF Locals, PCs, Deciding
<1>8. LocalSound(l)
  BY <1>2, <1>3, <1>6 DEF Locals, LocalSound, WaySound, AskSound, DecideSound,
      Route, Stage, Seeking, Starting, Detours, Asking, AtReview, AtApproval, Describing, Resolving,
      Judging, Deciding
<1>9. LocalSound(l)'
  BY <1>5, <1>8, LocalKept
<1>10. h' = [h EXCEPT ![p] = l]
  BY <1>1, <1>6 DEF SaveApproval, Goto
<1>. QED BY <1>5, <1>7, <1>9, <1>10, HandlerMoves, GhostsKept DEF SaveApproval

LEMMA MoveHandoffKeeps ==
  ASSUME Inv, NEW p \in Handlers, MoveHandoff(p)
  PROVE  Inv'
<1>1. PICK g : g = h[p]
  OBVIOUS
<1>2. g \in Locals /\ LocalSound(g) /\ g.pc = "move_handoff"
  BY <1>1 DEF Inv, MoveHandoff, At
<1>3. g.op # "judge" /\ g.review = 0 /\ g.approval \in DOMAIN approvals
  BY <1>2 DEF LocalSound, DecideSound, AtApproval, Deciding
<1>4. PICK status \in {"running", "canceled"} : status = IF g.ok THEN "running" ELSE "canceled"
  OBVIOUS
<1>5. PICK j \in DOMAIN jobs : j = approvals[g.approval].job
  BY <1>3 DEF Inv, RowsOK
<1>6. jobs' = [jobs EXCEPT ![j].status = status]
  BY <1>1, <1>4, <1>5 DEF MoveHandoff, UpdateJob
<1>7. RowsOK' /\ Grow
  BY <1>6, ChangeJob DEF Inv, MoveHandoff, Plain
<1>8. PICK l : l = [g EXCEPT !.pc = "find_gate"]
  OBVIOUS
<1>9. l \in Locals
  BY <1>2, <1>8 DEF Locals, PCs
<1>10. LocalSound(l)
  BY <1>2, <1>3, <1>8 DEF Locals, LocalSound, WaySound, AskSound, DecideSound,
      Route, Stage, Seeking, Starting, Detours, Asking, AtReview, AtApproval, Describing, Resolving,
      Judging, Deciding
<1>11. LocalSound(l)'
  BY <1>7, <1>10, LocalKept
<1>12. h' = [h EXCEPT ![p] = l]
  BY <1>1, <1>8 DEF MoveHandoff, Goto
<1>. QED BY <1>7, <1>9, <1>11, <1>12, HandlerMoves, GhostsKept DEF MoveHandoff

\* The revision names the review, or the approval, it was made for.
Origin(l) == IF l.review # 0 THEN l.review ELSE l.approval

LEMMA CreateRevisionKeeps ==
  ASSUME Inv, NEW p \in Handlers, CreateRevision(p)
  PROVE  Inv'
<1>1. PICK g : g = h[p]
  OBVIOUS
<1>2. /\ g \in Locals /\ LocalSound(g) /\ g.pc = "revise" /\ jobs \in Seq(JobRow)
      /\ reviews \in Seq(ReviewRow)
  BY <1>1 DEF Inv, RowsOK, CreateRevision, At
<1>3. /\ ~g.ok
      /\ g.op = "judge" => IsReview(g.review, g.job) /\ g.row.job = g.job
      /\ g.op # "judge" => /\ g.review = 0 /\ g.job = g.run.source /\ g.run.gateStatus = "pending"
                           /\ g.run.gate = "approval_required" /\ g.run.approval = g.approval
                           /\ IsDecision(g.artifact, g.run.handoff)
  BY <1>2 DEF LocalSound, DecideSound, AtReview, Describing
<1>4. g.op = "judge" <=> g.review # 0
  BY <1>2, <1>3 DEF IsReview
<1>5. RowSound(g.run)
  BY <1>2 DEF LocalSound
<1>6. g.job \in 0 .. Len(jobs)
  <2>1. CASE g.op = "judge"
    <3>1. g.job \in DOMAIN jobs
      BY <1>3, <2>1 DEF IsReview, Inv, RowsOK
    <3>. QED BY <1>2, <3>1
  <2>2. CASE g.op # "judge"
    <3>1. PICK k \in DOMAIN jobs : jobs[k].parent = g.job
      BY <1>3, <1>5, <2>2 DEF RowSound, IsHandoff
    <3>2. jobs[k].parent < k /\ jobs[k].parent \in Nat
      <4>1. jobs[k] \in JobRow
        BY <1>2, <3>1
      <4>2. jobs[k].parent < k
        BY <3>1 DEF Inv, RowsOK
      <4>. QED BY <4>1, <4>2 DEF JobRow
    <3>. QED BY <1>2, <3>1, <3>2
  <2>. QED BY <2>1, <2>2
<1>7. PICK n : n = Len(jobs) + 1
  OBVIOUS
<1>8. PICK of \in Nat : of = Origin(g)
  BY <1>2 DEF Origin, Locals
<1>9. jobs' = Append(jobs, NewJob("revision", g.job, of))
  BY <1>1, <1>8 DEF CreateRevision, InsertJob, Origin
<1>10. RowsOK' /\ Grow /\ n \in Nat /\ IsRevision(n, g.job)' /\ jobs'[n].of = of
  BY <1>6, <1>7, <1>9, AddJob DEF Inv, CreateRevision, Plain
<1>11. PICK pc \in {"schedule", "resolve"} : pc = IF g.review # 0 THEN "schedule" ELSE "resolve"
  OBVIOUS
<1>12. PICK l : l = [g EXCEPT !.revision = n, !.pc = pc]
  OBVIOUS
<1>13. l \in Locals
  <2>1. pc \in PCs
    BY <1>11 DEF PCs, Judging
  <2>. QED BY <1>2, <1>10, <1>12, <2>1 DEF Locals
<1>14. LocalSound(g)'
  BY <1>2, <1>10, LocalKept
<1>15. LocalSound(l)'
  <2>1. /\ l.pc = pc /\ l.revision = n /\ l.op = g.op /\ l.review = g.review /\ l.approval = g.approval
        /\ l.job = g.job /\ l.row = g.row /\ l.ok = g.ok /\ l.run = g.run /\ l.artifact = g.artifact
        /\ l.gate = g.gate /\ l.auto = g.auto /\ l.cont = g.cont /\ l.next = g.next
    BY <1>2, <1>12 DEF Locals
  <2>2. RowSound(l.run)' /\ WaySound(l)'
    BY <1>11, <1>14, <2>1 DEF LocalSound, WaySound, Route, Seeking, Starting
  <2>3. AskSound(l)'
    BY <1>2, <1>11, <1>14, <2>1 DEF LocalSound, AskSound, Stage, Detours, Seeking, Starting, Asking
  <2>4. DecideSound(l)'
    <3>1. CASE g.op = "judge"
      <4>1. pc = "schedule" /\ of = g.review
        BY <1>4, <1>8, <1>11, <3>1 DEF Origin
      <4>2. IsReview(g.review, g.job)'
        BY <1>3, <1>10, <3>1, FactsKept
      <4>. QED BY <1>3, <1>10, <2>1, <3>1, <4>1, <4>2 DEF DecideSound, AtReview, AtApproval, Describing,
                  Resolving, Stage, Detours, Seeking, Starting, Judging, Deciding
    <3>2. CASE g.op # "judge"
      <4>1. pc = "resolve" /\ g.review = 0
        BY <1>4, <1>11, <3>2
      <4>2. g.run.approval \in DOMAIN approvals'
        BY <1>3, <1>5, <1>10, <3>2 DEF RowSound, IsApproval, Grow
      <4>3. IsDecision(g.artifact, g.run.handoff)'
        BY <1>3, <1>10, <3>2, FactsKept
      <4>. QED BY <1>3, <1>10, <2>1, <3>2, <4>1, <4>2, <4>3 DEF DecideSound, AtReview, AtApproval,
                  Describing, Resolving, Stage, Detours, Seeking, Starting, Judging, Deciding
    <3>. QED BY <3>1, <3>2
  <2>. QED BY <2>2, <2>3, <2>4 DEF LocalSound
<1>16. h' = [h EXCEPT ![p] = l]
  BY <1>1, <1>7, <1>11, <1>12 DEF CreateRevision, Become
<1>. QED BY <1>10, <1>13, <1>15, <1>16, HandlerMoves, GhostsKept DEF CreateRevision

LEMMA ScheduleRevisionKeeps ==
  ASSUME Inv, NEW p \in Handlers, ScheduleRevision(p)
  PROVE  Inv'
<1>1. PICK g : g = h[p]
  OBVIOUS
<1>2. g \in Locals /\ LocalSound(g) /\ g.pc = "schedule"
  BY <1>1 DEF Inv, ScheduleRevision, At
<1>3. g.revision \in DOMAIN jobs
  BY <1>2 DEF LocalSound, DecideSound, AtReview, Judging, IsRevision
<1>4. RowsOK' /\ Grow
  BY <1>1, <1>3, ChangeJob DEF Inv, ScheduleRevision, Plain
<1>5. PICK l : l = [g EXCEPT !.pc = "publish_decision"]
  OBVIOUS
<1>6. l \in Locals
  BY <1>2, <1>5 DEF Locals, PCs, Judging
<1>7. LocalSound(l)
  BY <1>2, <1>5 DEF Locals, LocalSound, WaySound, AskSound, DecideSound,
      Route, Stage, Seeking, Starting, Detours, Asking, AtReview, AtApproval, Describing, Resolving,
      Judging, Deciding
<1>8. LocalSound(l)'
  BY <1>4, <1>7, LocalKept
<1>9. h' = [h EXCEPT ![p] = l]
  BY <1>1, <1>5 DEF ScheduleRevision, Goto
<1>. QED BY <1>4, <1>6, <1>8, <1>9, HandlerMoves, GhostsKept DEF ScheduleRevision

LEMMA SummarizeKeeps ==
  ASSUME Inv, NEW p \in Handlers, Summarize(p)
  PROVE  Inv'
<1>1. PICK g : g = h[p]
  OBVIOUS
<1>2. g \in Locals /\ LocalSound(g) /\ g.pc = "summarize"
  BY <1>1 DEF Inv, Summarize, At
<1>3. PICK n : n = Len(artifacts) + 1
  OBVIOUS
<1>4. PICK row : row = Artifact("decision", g.job, "none")
  OBVIOUS
<1>5. row \in ArtifactRow /\ row.about = "decision" /\ row.job = g.job
  BY <1>2, <1>4 DEF Artifact, ArtifactRow, Locals, MaybePhase
<1>6. RowsOK' /\ Grow /\ n \in Nat /\ IsDecision(n, g.job)'
  BY <1>1, <1>3, <1>4, <1>5, AddArtifact DEF Inv, Summarize, InsertArtifact, Plain
<1>7. PICK l : l = [g EXCEPT !.artifact = n, !.pc = "save_review"]
  OBVIOUS
<1>8. l \in Locals
  BY <1>2, <1>6, <1>7 DEF Locals, PCs, Judging
<1>9. LocalSound(g)'
  BY <1>2, <1>6, LocalKept
<1>10. LocalSound(l)'
  BY <1>2, <1>6, <1>7, <1>9 DEF Locals, LocalSound, WaySound, AskSound, DecideSound,
      Route, Stage, Seeking, Starting, Detours, Asking, AtReview, AtApproval, Describing, Resolving,
      Judging, Deciding
<1>11. h' = [h EXCEPT ![p] = l]
  BY <1>1, <1>3, <1>7 DEF Summarize, Become
<1>. QED BY <1>6, <1>8, <1>10, <1>11, HandlerMoves, GhostsKept DEF Summarize

LEMMA SaveReviewKeeps ==
  ASSUME Inv, NEW p \in Handlers, SaveReview(p)
  PROVE  Inv'
<1>1. PICK g : g = h[p]
  OBVIOUS
<1>2. g \in Locals /\ LocalSound(g) /\ g.pc = "save_review"
  BY <1>1 DEF Inv, SaveReview, At
<1>3. /\ g.op = "judge" /\ IsReview(g.review, g.job) /\ g.row.job = g.job
      /\ ~g.ok => IsRevision(g.revision, g.job)
      /\ IsDecision(g.artifact, g.job)
  BY <1>2 DEF LocalSound, DecideSound, AtReview, Judging
<1>4. PICK row : row = [g.row EXCEPT !.status = ReviewVerdict(g.ok), !.summary = g.artifact,
                                     !.revision = g.revision]
  OBVIOUS
<1>5. PICK verdict \in {"approved", "changes_requested"} :
        verdict = ReviewVerdict(g.ok) /\ (verdict = "changes_requested" => ~g.ok)
  BY DEF ReviewVerdict
<1>6. row \in ReviewRow /\ row.job = g.job /\ row.status = verdict /\ row.summary = g.artifact /\ row.revision = g.revision
  <2>1. row = [g.row EXCEPT !.status = verdict, !.summary = g.artifact, !.revision = g.revision]
    BY <1>4, <1>5
  <2>. QED BY <1>2, <1>3, <2>1 DEF ReviewRow, Locals
<1>7. ReviewSound(row)
  BY <1>3, <1>5, <1>6 DEF ReviewSound
<1>8. RowsOK' /\ Grow
  BY <1>1, <1>3, <1>4, <1>6, <1>7, ChangeReview DEF Inv, SaveReview, UpdateReview, Plain, IsReview
<1>9. PICK l : l = [g EXCEPT !.pc = "find_gate"]
  OBVIOUS
<1>10. l \in Locals
  BY <1>2, <1>9 DEF Locals, PCs
<1>11. LocalSound(l)
  BY <1>2, <1>3, <1>9 DEF Locals, LocalSound, WaySound, AskSound, DecideSound,
      Route, Stage, Seeking, Starting, Detours, Asking, AtReview, AtApproval, Describing, Resolving,
      Judging, Deciding
<1>12. LocalSound(l)'
  BY <1>8, <1>11, LocalKept
<1>13. h' = [h EXCEPT ![p] = l]
  BY <1>1, <1>9 DEF SaveReview, Goto
<1>. QED BY <1>8, <1>10, <1>12, <1>13, HandlerMoves, GhostsKept DEF SaveReview

LEMMA DescribeDecisionKeeps ==
  ASSUME Inv, NEW p \in Handlers, DescribeDecision(p)
  PROVE  Inv'
<1>1. PICK g : g = h[p]
  OBVIOUS
<1>2. /\ g \in Locals /\ LocalSound(g) /\ g.pc = "decide" /\ approvals \in Seq(ApprovalRow)
  BY <1>1 DEF Inv, RowsOK, DescribeDecision, At
<1>3. /\ g.op # "judge" /\ g.review = 0 /\ g.job = g.run.source /\ g.run.gateStatus = "pending"
      /\ g.run.gate = "approval_required" /\ g.run.approval = g.approval /\ RowSound(g.run)
  BY <1>2 DEF LocalSound, DecideSound, Describing, Stage, Detours, Seeking, Starting
<1>4. IsApproval(g.approval, g.run.handoff) /\ g.run.handoff \in Nat /\ g.target \in MaybePhase
  BY <1>2, <1>3 DEF RowSound, Locals, RunRow
<1>5. PICK n : n = Len(artifacts) + 1
  OBVIOUS
<1>6. PICK row : row = Artifact("decision", g.run.handoff, g.target)
  OBVIOUS
<1>7. row \in ArtifactRow /\ row.about = "decision" /\ row.job = g.run.handoff
  BY <1>4, <1>6 DEF Artifact, ArtifactRow
<1>8. artifacts' = Append(artifacts, row)
  BY <1>1, <1>4, <1>6 DEF DescribeDecision, InsertArtifact, IsApproval
<1>9. RowsOK' /\ Grow /\ n \in Nat /\ IsDecision(n, g.run.handoff)'
  BY <1>5, <1>7, <1>8, AddArtifact DEF Inv, DescribeDecision, Plain
<1>10. PICK pc \in {"resolve", "revise"} : pc = IF g.ok THEN "resolve" ELSE "revise"
  OBVIOUS
<1>11. PICK l : l = [g EXCEPT !.artifact = n, !.pc = pc]
  OBVIOUS
<1>12. l \in Locals
  <2>1. pc \in PCs
    BY <1>10 DEF PCs
  <2>. QED BY <1>2, <1>9, <1>11, <2>1 DEF Locals
<1>13. LocalSound(g)'
  BY <1>2, <1>9, LocalKept
<1>14. LocalSound(l)'
  <2>1. /\ l.pc = pc /\ l.revision = g.revision /\ l.op = g.op /\ l.review = g.review
        /\ l.approval = g.approval
        /\ l.job = g.job /\ l.row = g.row /\ l.ok = g.ok /\ l.run = g.run /\ l.artifact = n
        /\ l.gate = g.gate /\ l.auto = g.auto /\ l.cont = g.cont /\ l.next = g.next
    BY <1>2, <1>11 DEF Locals
  <2>2. RowSound(l.run)' /\ WaySound(l)'
    BY <1>10, <1>13, <2>1 DEF LocalSound, WaySound, Route, Seeking, Starting
  <2>3. AskSound(l)'
    BY <1>2, <1>10, <1>13, <2>1 DEF LocalSound, AskSound, Stage, Detours, Seeking, Starting, Asking
  <2>4. g.approval \in DOMAIN approvals'
    BY <1>4, <1>9 DEF IsApproval, Grow
  <2>5. DecideSound(l)'
    BY <1>3, <1>9, <1>10, <2>1, <2>4 DEF DecideSound, AtReview, AtApproval,
       Describing, Resolving, Stage, Detours, Seeking, Starting, Judging, Deciding
  <2>. QED BY <2>2, <2>3, <2>5 DEF LocalSound
<1>15. h' = [h EXCEPT ![p] = l]
  BY <1>1, <1>5, <1>10, <1>11 DEF DescribeDecision, Become
<1>. QED BY <1>9, <1>12, <1>14, <1>15, HandlerMoves, GhostsKept DEF DescribeDecision

----------------------------------------------------------------------------
(* The requests of the clients, a crash, and the invariant *)

LEMMA BeginCounts ==
  ASSUME Inv, NEW p \in Handlers, NEW op, NEW l, Begin(p, op, l)
  PROVE  CountsOK' /\ op \in AllOps
<1>1. /\ requests \in Nat /\ requests <= MaxRequests /\ crashes \in 0 .. MaxCrashes
      /\ overlapped \in BOOLEAN
  BY BoundsAssumption DEF Inv, CountsOK
<1>2. overlapped' \in BOOLEAN /\ crashes' \in 0 .. MaxCrashes /\ op \in AllOps
  BY <1>1, OpsAssumption DEF Begin
<1>3. requests' \in 0 .. MaxRequests
  <2>1. CASE op = "create"
    BY <1>1, <2>1, BoundsAssumption DEF Begin
  <2>2. CASE op # "create"
    <3>1. PICK bound \in {MaxOverlapped, MaxRequests} : requests < bound
      BY <2>2 DEF Begin
    <3>2. bound \in Nat /\ bound <= MaxRequests
      BY <3>1, BoundsAssumption
    <3>3. requests' = requests + 1
      BY <2>2 DEF Begin
    <3>. QED BY <1>1, <3>1, <3>2, <3>3, BoundsAssumption
  <2>. QED BY <2>1, <2>2
<1>. QED BY <1>2, <1>3 DEF CountsOK

\* A request begins at locals that are sound, and changes no row but the session's.
LEMMA BeginKeeps ==
  ASSUME Inv, UNCHANGED Listed, NEW p \in Handlers, NEW op, NEW f, Begin(p, op, f),
         NEW l \in Locals, l = [f EXCEPT !.op = op], LocalSound(l),
         NEW s \in SessionRow, session' = s, UNCHANGED <<phases, run, flags>>
  PROVE  Inv'
<1>1. RowsOK' /\ Grow
  <2>1. PICK keys \in SUBSET PresetKeys, row \in RunRow : keys = phases /\ row = run
    BY DEF Inv, RowsOK
  <2>2. RowSound(row) /\ flags \in [DOMAIN Policies -> Flag]
    BY <2>1 DEF Inv, RowsOK
  <2>. QED BY <2>1, <2>2, NoneAdded DEF Inv
<1>2. LocalSound(l)'
  BY <1>1, LocalKept
<1>3. h' = [h EXCEPT ![p] = l]
  BY DEF Begin, Become
<1>. QED BY <1>1, <1>2, <1>3, BeginCounts, HandlerMoves

\* The locals a request begins with, once it has a name.
LEMMA FreshIs ==
  ASSUME NEW op \in AllOps, NEW l, l = [Idle EXCEPT !.op = op]
  PROVE  l \in Locals /\ LocalSound(l)
<1>1. l \in Locals
  BY IdleIs DEF Locals
<1>2. /\ l.pc = "idle" /\ l.gate = "none" /\ ~l.auto /\ l.run = NoRun
  BY IdleIs DEF Idle
<1>3. WaySound(l) /\ AskSound(l) /\ DecideSound(l)
  BY <1>2 DEF WaySound, AskSound, DecideSound, Route, Stage, Seeking, Starting, Detours, Asking,
              AtReview, AtApproval, Describing, Resolving, Judging, Deciding
<1>. QED BY <1>1, <1>2, <1>3, NoRunIs DEF LocalSound

LEMMA CreateSessionKeeps ==
  ASSUME Inv, NEW p \in Handlers, CreateSession(p) \/ \E key \in Activations : ActivateByHand(p, key)
  PROVE  Inv'
<1>1. PICK op \in {"create", "activate"}, key \in PresetKeys :
        /\ Begin(p, op, Activated(Idle, key, "done"))
        /\ UNCHANGED <<phases, run, reviews, approvals, jobs, artifacts, flags>>
  BY PresetsAre, OpsAssumption DEF CreateSession, ActivateByHand
<1>2. PICK s \in SessionRow : session' = s
  BY DEF CreateSession, ActivateByHand, NoSession, SessionRow, Inv, RowsOK
<1>3. op \in AllOps
  BY <1>1 DEF AllOps
<1>4. PICK f : f = [Idle EXCEPT !.target = key, !.cont = "done"]
  OBVIOUS
<1>5. f \in Locals
  BY <1>4, IdleIs DEF Locals, MaybePhase, PhaseKeys, PCs
<1>6. PICK l : l = [f EXCEPT !.pc = "find_phase"]
  OBVIOUS
<1>7. PICK m : m = Seeded(f, "find_phase")
  OBVIOUS
<1>8. l \in Locals /\ m \in Locals /\ (m = l \/ Twin(l, m))
  BY <1>5, <1>6, <1>7, SeededIs
<1>9. PICK k : k = [l EXCEPT !.op = op]
  OBVIOUS
<1>10. PICK n : n = [m EXCEPT !.op = op]
  OBVIOUS
<1>11. k \in Locals /\ n \in Locals /\ (n = k \/ Twin(k, n))
  <2>1. k \in Locals /\ n \in Locals
    BY <1>3, <1>8, <1>9, <1>10 DEF Locals
  <2>2. Twin(l, m) => Twin(k, n)
    BY <1>8, <1>9, <1>10 DEF Twin, Locals
  <2>. QED BY <1>8, <1>9, <1>10, <2>1, <2>2
<1>12. LocalSound(k)
  <2>1. /\ k.pc = "find_phase" /\ k.cont = "done" /\ k.gate = "none" /\ ~k.auto /\ k.run = NoRun
    BY <1>4, <1>6, <1>9, IdleIs DEF Idle
  <2>2. WaySound(k) /\ AskSound(k) /\ DecideSound(k)
    BY <2>1 DEF WaySound, AskSound, DecideSound, Route, Stage, Seeking, Starting, Detours, Asking,
                AtReview, AtApproval, Describing, Resolving, Judging, Deciding
  <2>. QED BY <2>1, <2>2, NoRunIs DEF LocalSound
<1>13. LocalSound(n)
  BY <1>11, <1>12, TwinSound
<1>14. Begin(p, op, m)
  BY <1>1, <1>4, <1>7 DEF Activated
<1>. QED BY <1>1, <1>2, <1>10, <1>11, <1>13, <1>14, BeginKeeps DEF Listed

\* start, and the two gate requests: they all begin by starting the run.
LEMMA StartsKeep ==
  ASSUME Inv, NEW p \in Handlers,
         StartRun(p) \/ \E key \in SuccessPhases : RequestGate(p, 1, key)
  PROVE  Inv'
<1>1. PICK s \in SessionRow : s = session
  BY DEF Inv, RowsOK
<1>2. PICK op \in {"start", "review_gate", "approval_gate"}, e \in Locals,
              cont \in {"done", "check_review", "evaluate"} :
        /\ Begin(p, op, Started(e, cont)) /\ ~e.auto /\ e.run = NoRun /\ e.review = 0 /\ e.approval = 0
        /\ \/ op = "start" /\ cont = "done" /\ e.gate = "none"
           \/ /\ op # "start" /\ e.job = 1 /\ e.succ \in SuccessPhases
              /\ \/ e.gate = "review_required" /\ cont = "check_review"
                 \/ e.gate = "approval_required" /\ cont = "evaluate"
        /\ UNCHANGED <<session, phases, run, reviews, approvals, jobs, artifacts, flags>>
  <2>1. /\ ~Idle.auto /\ Idle.run = NoRun /\ Idle.review = 0 /\ Idle.approval = 0
        /\ Idle.gate = "none" /\ Idle \in Locals
    BY IdleIs DEF Idle
  <2>2. CASE StartRun(p)
    BY <2>1, <2>2 DEF StartRun
  <2>3. ASSUME NEW key \in SuccessPhases, RequestGate(p, 1, key)
        PROVE  \E gate \in {"review_required", "approval_required"} :
                 /\ Begin(p, IF gate = "review_required" THEN "review_gate" ELSE "approval_gate",
                          Started([Idle EXCEPT !.gate = gate, !.job = 1, !.succ = key],
                            IF gate = "review_required" THEN "check_review" ELSE "evaluate"))
                 /\ UNCHANGED <<session, phases, run, reviews, approvals, jobs, artifacts, flags>>
    <3>1. CASE RequestReviewGate(p, 1, key)
      BY <2>3, <3>1 DEF RequestGate, RequestReviewGate
    <3>2. CASE RequestApprovalGate(p, 1, key)
      BY <2>3, <3>2 DEF RequestGate, RequestApprovalGate
    <3>. QED BY <2>3, <3>1, <3>2 DEF RequestGate
  <2>4. CASE \E key \in SuccessPhases : RequestGate(p, 1, key)
    <3>1. PICK key \in SuccessPhases : RequestGate(p, 1, key)
      BY <2>4
    <3>2. PICK gate \in {"review_required", "approval_required"} :
                 /\ Begin(p, IF gate = "review_required" THEN "review_gate" ELSE "approval_gate",
                          Started([Idle EXCEPT !.gate = gate, !.job = 1, !.succ = key],
                            IF gate = "review_required" THEN "check_review" ELSE "evaluate"))
                 /\ UNCHANGED <<session, phases, run, reviews, approvals, jobs, artifacts, flags>>
      BY <2>3, <3>1
    <3>3. PICK e : e = [Idle EXCEPT !.gate = gate, !.job = 1, !.succ = key]
      OBVIOUS
    <3>4. /\ e \in Locals /\ ~e.auto /\ e.run = NoRun /\ e.review = 0 /\ e.approval = 0
          /\ e.gate = gate /\ e.job = 1 /\ e.succ = key
      <4>1. key \in SuccessPhases \union {"none"} /\ 1 \in Nat
            /\ gate \in {"none", "review_required", "approval_required"}
        OBVIOUS
      <4>2. e \in Locals
        BY <2>1, <3>3, <4>1 DEF Locals
      <4>3. /\ e.run = NoRun /\ e.review = 0 /\ e.approval = 0 /\ e.gate = gate /\ e.job = 1 /\ e.succ = key
        BY <2>1, <3>3 DEF Locals
      <4>4. ~e.auto
        BY <3>3, IdleIs DEF Idle
      <4>. QED BY <4>2, <4>3, <4>4
    <3>. QED BY <3>2, <3>3, <3>4
  <2>. QED BY <2>2, <2>4
<1>3. op \in AllOps /\ 1 \in DOMAIN jobs
  BY <1>2 DEF AllOps, Inv, RowsOK
<1>4. PICK f : f = [e EXCEPT !.cont = cont]
  OBVIOUS
<1>5. f \in Locals
  <2>1. cont \in PCs
    BY <1>2 DEF PCs, Asking
  <2>. QED BY <1>2, <1>4, <2>1 DEF Locals
<1>6. PICK l : l = [f EXCEPT !.pc = "read_phase"]
  OBVIOUS
<1>7. PICK m : m = Seeded(f, "read_phase")
  OBVIOUS
<1>8. l \in Locals /\ m \in Locals /\ (m = l \/ Twin(l, m))
  BY <1>5, <1>6, <1>7, SeededIs
<1>9. PICK k : k = [l EXCEPT !.op = op]
  OBVIOUS
<1>10. PICK n : n = [m EXCEPT !.op = op]
  OBVIOUS
<1>11. k \in Locals /\ n \in Locals /\ (n = k \/ Twin(k, n))
  <2>1. k \in Locals /\ n \in Locals
    BY <1>3, <1>8, <1>9, <1>10 DEF Locals
  <2>2. Twin(l, m) => Twin(k, n)
    BY <1>8, <1>9, <1>10 DEF Twin, Locals
  <2>. QED BY <1>8, <1>9, <1>10, <2>1, <2>2
<1>12. LocalSound(k)
  <2>1. /\ k.pc = "read_phase" /\ k.cont = cont /\ k.gate = e.gate /\ ~k.auto /\ k.run = NoRun
        /\ k.op = op /\ k.job = e.job /\ k.succ = e.succ /\ k.approval = 0 /\ k.review = 0
    BY <1>2, <1>4, <1>6, <1>9 DEF Locals
  <2>2. WaySound(k)
    BY <1>2, <2>1 DEF WaySound, Route, Seeking, Starting
  <2>3. AskSound(k)
    BY <1>2, <1>3, <2>1 DEF AskSound, Stage, Detours, Seeking, Starting, Asking
  <2>4. DecideSound(k)
    BY <1>2, <2>1 DEF DecideSound, Stage, Detours, Seeking, Starting,
                AtReview, AtApproval, Describing, Resolving, Judging, Deciding
  <2>. QED BY <2>1, <2>2, <2>3, <2>4, NoRunIs DEF LocalSound
<1>13. LocalSound(n)
  BY <1>11, <1>12, TwinSound
<1>14. Begin(p, op, m)
  BY <1>2, <1>4, <1>7 DEF Started
<1>. QED BY <1>1, <1>2, <1>10, <1>11, <1>13, <1>14, BeginKeeps DEF Listed

LEMMA ReadSessionKeeps ==
  ASSUME Inv, NEW p \in Handlers, ReadSession(p, "edit") \/ ReadSession(p, "pause")
  PROVE  Inv'
<1>1. PICK s \in SessionRow : s = session
  BY DEF Inv, RowsOK
<1>2. PICK op \in {"edit", "pause"} : ReadSession(p, op)
  OBVIOUS
<1>3. PICK f : f = [Idle EXCEPT !.pc = op, !.sess = s]
  OBVIOUS
<1>4. PICK l : l = [f EXCEPT !.op = op]
  OBVIOUS
<1>5. l \in Locals
  <2>1. op \in PCs /\ op \in AllOps
    BY <1>2 DEF PCs, AllOps
  <2>. QED BY <1>3, <1>4, <2>1, IdleIs DEF Locals
<1>6. LocalSound(l)
  <2>1. /\ l.pc = op /\ l.op = op /\ l.gate = "none" /\ ~l.auto /\ l.run = NoRun
    BY <1>3, <1>4, IdleIs DEF Idle
  <2>2. WaySound(l) /\ AskSound(l) /\ DecideSound(l)
    BY <1>2, <2>1 DEF WaySound, AskSound, DecideSound, Route, Stage, Seeking, Starting, Detours, Asking,
                AtReview, AtApproval, Describing, Resolving, Judging, Deciding
  <2>. QED BY <2>1, <2>2, NoRunIs DEF LocalSound
<1>7. Begin(p, op, f)
  BY <1>1, <1>2, <1>3 DEF ReadSession
<1>. QED BY <1>1, <1>2, <1>4, <1>5, <1>6, <1>7, BeginKeeps DEF ReadSession, Listed

LEMMA RequestReviewKeeps ==
  ASSUME Inv, NEW p \in Handlers, RequestReview(p, 1)
  PROVE  Inv'
<1>1. PICK s \in SessionRow : s = session
  BY DEF Inv, RowsOK
<1>2. PICK f : f = [Idle EXCEPT !.pc = "check_review", !.job = 1]
  OBVIOUS
<1>3. PICK l : l = [f EXCEPT !.op = "request_review"]
  OBVIOUS
<1>4. l \in Locals
  <2>1. "check_review" \in PCs /\ "request_review" \in AllOps
    BY DEF PCs, Asking, AllOps
  <2>. QED BY <1>2, <1>3, <2>1, IdleIs DEF Locals
<1>5. LocalSound(l)
  <2>1. /\ l.pc = "check_review" /\ l.op = "request_review" /\ l.gate = "none" /\ ~l.auto
        /\ l.run = NoRun /\ l.job = 1
    BY <1>2, <1>3, IdleIs DEF Idle
  <2>2. 1 \in DOMAIN jobs
    BY DEF Inv, RowsOK
  <2>3. WaySound(l) /\ AskSound(l) /\ DecideSound(l)
    BY <2>1, <2>2 DEF WaySound, AskSound, DecideSound, Route, Stage, Seeking, Starting, Detours, Asking,
                AtReview, AtApproval, Describing, Resolving, Judging, Deciding
  <2>. QED BY <2>1, <2>3, NoRunIs DEF LocalSound
<1>. QED BY <1>1, <1>2, <1>3, <1>4, <1>5, BeginKeeps DEF RequestReview, Listed

LEMMA DecideApprovalKeeps ==
  ASSUME Inv, NEW p \in Handlers, NEW a \in DOMAIN approvals, NEW ok \in BOOLEAN,
         DecideApproval(p, a, ok)
  PROVE  Inv'
<1>1. PICK s \in SessionRow : s = session
  BY DEF Inv, RowsOK
<1>2. PICK f : f = [Idle EXCEPT !.pc = "save_approval", !.approval = a, !.ok = ok]
  OBVIOUS
<1>3. PICK l : l = [f EXCEPT !.op = "decide"]
  OBVIOUS
<1>4. l \in Locals
  <2>1. a \in Nat
    BY DEF Inv, RowsOK
  <2>2. "save_approval" \in PCs /\ "decide" \in AllOps
    BY DEF PCs, Deciding, AllOps
  <2>. QED BY <1>2, <1>3, <2>1, <2>2, IdleIs DEF Locals
<1>5. LocalSound(l)
  <2>1. /\ l.pc = "save_approval" /\ l.op = "decide" /\ l.gate = "none" /\ ~l.auto
        /\ l.run = NoRun /\ l.approval = a /\ l.review = 0
    BY <1>2, <1>3, IdleIs DEF Idle
  <2>2. WaySound(l) /\ AskSound(l) /\ DecideSound(l)
    BY <2>1 DEF WaySound, AskSound, DecideSound, Route, Stage, Seeking, Starting, Detours, Asking,
                AtReview, AtApproval, Describing, Resolving, Judging, Deciding
  <2>. QED BY <2>1, <2>2, NoRunIs DEF LocalSound
<1>. QED BY <1>1, <1>2, <1>3, <1>4, <1>5, BeginKeeps DEF DecideApproval, Listed

LEMMA JudgeReviewKeeps ==
  ASSUME Inv, NEW p \in Handlers, NEW r \in DOMAIN reviews, NEW ok \in BOOLEAN,
         JudgeReview(p, r, ok)
  PROVE  Inv'
<1>1. PICK s \in SessionRow, row \in ReviewRow : s = session /\ row = reviews[r]
  BY DEF Inv, RowsOK
<1>2. /\ ReviewSound(row) /\ r \in Nat /\ IsReview(r, row.job)
      /\ row.job \in Nat /\ row.summary \in Nat /\ row.revision \in Nat
  BY <1>1 DEF Inv, RowsOK, IsReview, ReviewRow
<1>3. PICK f : f = [Idle EXCEPT !.review = r, !.ok = ok, !.row = row, !.job = row.job]
  OBVIOUS
<1>4. CASE Begin(p, "judge", [f EXCEPT !.sess = session, !.pc = IF ok THEN "publish_decision" ELSE "revise"])
  <2>1. PICK pc \in PCs : /\ pc = IF ok THEN "publish_decision" ELSE "revise"
                          /\ pc \in {"publish_decision", "revise"}
    <3>1. {"publish_decision", "revise"} \subseteq PCs
      BY DEF PCs, Judging
    <3>. QED BY <3>1
  <2>2. PICK g : g = [f EXCEPT !.sess = s, !.pc = pc]
    OBVIOUS
  <2>3. PICK l : l = [g EXCEPT !.op = "judge"]
    OBVIOUS
  <2>4. l \in Locals
    <3>1. "judge" \in AllOps
      BY DEF AllOps
    <3>2. f \in Locals
      BY <1>1, <1>2, <1>3, IdleIs DEF Locals
    <3>3. g \in Locals
      BY <2>2, <3>2 DEF Locals
    <3>. QED BY <2>3, <3>1, <3>3 DEF Locals
  <2>5. LocalSound(l)
    <3>1. /\ l.pc = pc /\ l.op = "judge" /\ l.gate = "none" /\ ~l.auto /\ l.run = NoRun
          /\ l.review = r /\ l.job = row.job /\ l.row = row /\ l.ok = ok
      BY <1>3, <2>2, <2>3, IdleIs DEF Idle
    <3>2. WaySound(l) /\ AskSound(l) /\ DecideSound(l)
      BY <1>2, <2>1, <3>1 DEF WaySound, AskSound, DecideSound, Route, Stage, Seeking, Starting, Detours, Asking,
                AtReview, AtApproval, Describing, Resolving, Judging, Deciding
    <3>. QED BY <3>1, <3>2, NoRunIs DEF LocalSound
  <2>. QED BY <1>1, <1>4, <2>1, <2>2, <2>3, <2>4, <2>5, BeginKeeps DEF JudgeReview, Listed
<1>5. CASE /\ row.status = ReviewVerdict(ok)
           /\ Begin(p, "judge", [f EXCEPT !.pc = "find_gate", !.artifact = row.summary, !.revision = row.revision])
  <2>1. PICK g : g = [f EXCEPT !.pc = "find_gate", !.artifact = row.summary, !.revision = row.revision]
    OBVIOUS
  <2>2. PICK l : l = [g EXCEPT !.op = "judge"]
    OBVIOUS
  <2>3. l \in Locals
    <3>1. "find_gate" \in PCs /\ "judge" \in AllOps
      BY DEF PCs, AllOps
    <3>2. f \in Locals
      BY <1>1, <1>2, <1>3, IdleIs DEF Locals
    <3>3. g \in Locals
      BY <1>2, <2>1, <3>1, <3>2 DEF Locals
    <3>. QED BY <2>2, <3>1, <3>3 DEF Locals
  <2>4. LocalSound(l)
    <3>1. /\ l.pc = "find_gate" /\ l.op = "judge" /\ l.gate = "none" /\ ~l.auto /\ l.run = NoRun
          /\ l.review = r /\ l.job = row.job /\ l.row = row /\ l.ok = ok
          /\ l.artifact = row.summary /\ l.revision = row.revision
      BY <1>3, <2>1, <2>2, IdleIs DEF Idle
    <3>2. IsDecision(row.summary, row.job) /\ (~ok => IsRevision(row.revision, row.job))
      BY <1>2, <1>5 DEF ReviewSound, ReviewVerdict
    <3>3. WaySound(l) /\ AskSound(l) /\ DecideSound(l)
      BY <1>2, <3>1, <3>2 DEF WaySound, AskSound, DecideSound, Route, Stage, Seeking, Starting, Detours, Asking,
                AtReview, AtApproval, Describing, Resolving, Judging, Deciding
    <3>. QED BY <3>1, <3>3, NoRunIs DEF LocalSound
  <2>. QED BY <1>1, <1>5, <2>1, <2>2, <2>3, <2>4, BeginKeeps DEF JudgeReview, Listed
<1>. QED BY <1>1, <1>3, <1>4, <1>5 DEF JudgeReview

LEMMA ReadPolicyKeeps ==
  ASSUME Inv, NEW p \in Handlers, NEW i \in DOMAIN Policies,
         NEW flag \in {PauseAutomation(i), ResumeAutomation(i), ActivatePolicy(i), DeactivatePolicy(i)},
         ReadPolicy(p, i, flag)
  PROVE  Inv'
<1>1. PICK s \in SessionRow : s = session
  BY DEF Inv, RowsOK
<1>2. flags[i] \in Flag
  BY DEF Inv, RowsOK
<1>3. flag \in Flag /\ i \in Nat
  <2>1. i \in Nat
    BY PoliciesAssumption
  <2>2. PICK row \in Flag : row = flags[i]
    BY <1>2
  <2>3. /\ [row EXCEPT !.paused = TRUE] \in Flag /\ [row EXCEPT !.paused = FALSE] \in Flag
        /\ [row EXCEPT !.active = TRUE] \in Flag /\ [row EXCEPT !.active = FALSE] \in Flag
    BY DEF Flag
  <2>. QED BY <2>1, <2>2, <2>3 DEF PauseAutomation, ResumeAutomation, ActivatePolicy, DeactivatePolicy
<1>4. PICK f : f = [Idle EXCEPT !.pc = "control", !.policy = i, !.flag = flag]
  OBVIOUS
<1>5. PICK l : l = [f EXCEPT !.op = "control"]
  OBVIOUS
<1>6. l \in Locals
  <2>1. "control" \in PCs /\ "control" \in AllOps
    BY DEF PCs, AllOps
  <2>. QED BY <1>3, <1>4, <1>5, <2>1, IdleIs DEF Locals
<1>7. LocalSound(l)
  <2>1. /\ l.pc = "control" /\ l.gate = "none" /\ ~l.auto /\ l.run = NoRun
    BY <1>4, <1>5, IdleIs DEF Idle
  <2>2. WaySound(l) /\ AskSound(l) /\ DecideSound(l)
    BY <2>1 DEF WaySound, AskSound, DecideSound, Route, Stage, Seeking, Starting, Detours, Asking,
                AtReview, AtApproval, Describing, Resolving, Judging, Deciding
  <2>. QED BY <2>1, <2>2, NoRunIs DEF LocalSound
<1>. QED BY <1>1, <1>4, <1>5, <1>6, <1>7, BeginKeeps DEF ReadPolicy, Listed

LEMMA CrashKeeps ==
  ASSUME Inv, Crash
  PROVE  Inv'
<1>1. h' = [p \in Handlers |-> Idle] /\ UNCHANGED Listed /\ UNCHANGED Plain
  BY DEF Crash, Listed, Plain
<1>2. PICK s \in SessionRow, keys \in SUBSET PresetKeys, row \in RunRow :
         s = session /\ keys = phases /\ row = run
  BY DEF Inv, RowsOK
<1>3. RowSound(row) /\ flags \in [DOMAIN Policies -> Flag]
  BY <1>2 DEF Inv, RowsOK
<1>4. RowsOK' /\ Grow
  BY <1>1, <1>2, <1>3, NoneAdded DEF Inv, Plain
<1>5. CountsOK'
  BY BoundsAssumption DEF Inv, CountsOK, Crash
<1>6. ASSUME NEW q \in Handlers PROVE LocalSound(h[q])'
  <2>1. PICK m : m = Idle
    OBVIOUS
  <2>2. LocalSound(m)'
    BY <1>4, <2>1, IdleIs, LocalKept
  <2>. QED BY <1>1, <2>1, <2>2, HeldAfter
<1>7. h' \in [Handlers -> Locals]
  BY <1>1, IdleIs
<1>8. \A q \in Handlers : LocalSound(h[q])'
  BY <1>6
<1>. QED BY <1>4, <1>5, <1>7, <1>8 DEF Inv

LEMMA InitHolds == Init => Inv
<1>. SUFFICES ASSUME Init PROVE Inv
  OBVIOUS
<1>1. PICK source : source = [NewJob("source", 0, 0) EXCEPT !.status = "completed"]
  OBVIOUS
<1>2. source \in JobRow /\ source.parent = 0
  BY <1>1 DEF NewJob, JobRow
<1>3. jobs = <<source>>
  BY <1>1 DEF Init
<1>4. jobs \in Seq(JobRow) /\ DOMAIN jobs = {1} /\ jobs[1] = source
  BY <1>2, <1>3
<1>5. session \in SessionRow /\ phases \subseteq PresetKeys /\ run \in RunRow /\ RowSound(run)
  BY NoRunIs DEF Init, NoSession, SessionRow
<1>6. reviews = <<>> /\ approvals = <<>> /\ artifacts = <<>>
  BY DEF Init
<1>7. flags \in [DOMAIN Policies -> Flag]
  BY DEF Init, Flag
<1>8. RowsOK
  BY <1>2, <1>4, <1>5, <1>6, <1>7 DEF RowsOK
<1>9. CountsOK
  <2>1. requests \in 0 .. MaxRequests /\ crashes \in 0 .. MaxCrashes
    BY BoundsAssumption DEF Init
  <2>2. overlapped \in BOOLEAN
    BY DEF Init
  <2>. QED BY <2>1, <2>2 DEF CountsOK
<1>. QED BY <1>8, <1>9, IdleIs DEF Init, Inv

LEMMA NextKeeps == Inv /\ [Next]_vars => Inv'
<1>. SUFFICES ASSUME Inv, [Next]_vars PROVE Inv'
  OBVIOUS
<1>1. CASE UNCHANGED vars
  <2>1. /\ UNCHANGED Listed /\ UNCHANGED Plain /\ UNCHANGED ghosts /\ h' = h
    BY <1>1 DEF vars, Listed, Plain, ghosts
  <2>2. PICK s \in SessionRow, keys \in SUBSET PresetKeys, row \in RunRow :
           s = session /\ keys = phases /\ row = run
    BY DEF Inv, RowsOK
  <2>3. RowSound(row) /\ flags \in [DOMAIN Policies -> Flag]
    BY <2>2 DEF Inv, RowsOK
  <2>4. RowsOK' /\ Grow
    BY <2>1, <2>2, <2>3, NoneAdded DEF Inv, Plain
  <2>5. ASSUME NEW q \in Handlers PROVE LocalSound(h[q])'
    <3>1. PICK m : m = h[q]
      OBVIOUS
    <3>2. LocalSound(m)'
      BY <2>4, <3>1, LocalKept DEF Inv
    <3>. QED BY <2>1, <3>1, <3>2, HeldAfter
  <2>6. \A q \in Handlers : LocalSound(h[q])'
    BY <2>5
  <2>. QED BY <2>1, <2>4, <2>6, GhostsKept DEF Inv
<1>2. CASE Crash
  BY <1>2, CrashKeeps
<1>3. ASSUME NEW p \in Handlers, Client(p) PROVE Inv'
  BY <1>3, CreateSessionKeeps, StartsKeep, ReadSessionKeeps, RequestReviewKeeps, DecideApprovalKeeps,
     JudgeReviewKeeps, ReadPolicyKeeps DEF Client
<1>4. ASSUME NEW p \in Handlers, Server(p) PROVE Inv'
  BY <1>4, SeedOneKeeps, FindPhaseKeeps, SetPhaseKeeps, LastWriteKeeps, ReadPhaseKeeps, ReadRunKeeps,
     SaveRunKeeps, EvaluateGateKeeps, CheckReviewKeeps, CreateReviewKeeps, PublishKeeps,
     LinkRequestKeeps, CreateHandoffKeeps, CreateApprovalKeeps, DescribeKeeps, RecordGateKeeps,
     ReadApprovalKeeps, SaveApprovalKeeps, MoveHandoffKeeps, CreateRevisionKeeps, ScheduleRevisionKeeps,
     SummarizeKeeps, SaveReviewKeeps, FindGateKeeps, DescribeDecisionKeeps, ResolveGateKeeps DEF Server
<1>. QED BY <1>1, <1>2, <1>3, <1>4 DEF Next

LEMMA Invariance == Spec => []Inv
BY InitHolds, NextKeeps, PTL DEF Spec

\* Every row always has the type its table gives it and ids name existing rows,
\* however many requests run at once and whenever the process crashes.
THEOREM TypesHold == Spec => []TypeOK
<1>1. Inv => TypeOK
  BY DEF Inv, RowsOK, CountsOK, TypeOK, Flag
<1>. QED BY <1>1, Invariance, PTL

\* A run that waits at a gate can always be decided, and a settled run names
\* its decision and its revision: record_gate_request and
\* record_gate_resolution write the run after everything it names.
THEOREM GatesAreBacked == Spec => []GateBacked
<1>1. Inv => GateBacked
  <2>. SUFFICES ASSUME Inv PROVE GateBacked
    OBVIOUS
  <2>1. RowSound(run) /\ run \in RunRow
    BY DEF Inv, RowsOK
  <2>2. run.gateStatus # "idle" => run.gate \in {"review_required", "approval_required"}
    BY <2>1 DEF RowSound, RunRow
  <2>3. CASE Pending
    BY <2>1, <2>2, <2>3 DEF GateBacked, Pending, Settled, RowSound, IsReview, IsApproval, IsHandoff,
       IsTransition
  <2>4. CASE Settled
    BY <2>1, <2>2, <2>4 DEF GateBacked, Pending, Settled, RowSound, IsDecision, IsRevision
  <2>. QED BY <2>3, <2>4 DEF GateBacked
<1>. QED BY <1>1, Invariance, PTL

----------------------------------------------------------------------------
(* Automation *)

LEMMA SeededAuto ==
  ASSUME NEW l, NEW pc, "auto" \in DOMAIN l
  PROVE  Seeded(l, pc).auto = l.auto /\ "auto" \in DOMAIN Seeded(l, pc)
BY DEF Seeded

LEMMA BegunAuto ==
  ASSUME Inv, NEW p \in Handlers, NEW q \in Handlers, NEW op, NEW l, Begin(q, op, l),
         "auto" \in DOMAIN l, ~l.auto, h'[p].auto
  PROVE  h[p].auto
<1>1. PICK m : m = [l EXCEPT !.op = op]
  OBVIOUS
<1>2. m.auto = l.auto
  BY <1>1
<1>3. h' = [h EXCEPT ![q] = m] /\ h \in [Handlers -> Locals]
  BY <1>1 DEF Begin, Become, Inv
<1>. QED BY <1>2, <1>3

\* A client's request is not automatic when it begins.
LEMMA ClientAuto ==
  ASSUME Inv, NEW p \in Handlers, NEW q \in Handlers, Client(q), h'[p].auto
  PROVE  h[p].auto
<1>1. "auto" \in DOMAIN Idle /\ ~Idle.auto
  BY IdleIs DEF Idle
<1>2. CASE CreateSession(q) \/ \E key \in Activations : ActivateByHand(q, key)
  <2>1. PICK op, key : Begin(q, op, Activated(Idle, key, "done"))
    BY <1>2 DEF CreateSession, ActivateByHand
  <2>2. PICK f : f = [Idle EXCEPT !.target = key, !.cont = "done"]
    OBVIOUS
  <2>3. "auto" \in DOMAIN f /\ ~f.auto
    BY <1>1, <2>2
  <2>4. PICK m : m = Seeded(f, "find_phase")
    OBVIOUS
  <2>5. "auto" \in DOMAIN m /\ ~m.auto
    BY <2>3, <2>4, SeededAuto
  <2>6. Begin(q, op, m)
    BY <2>1, <2>2, <2>4 DEF Activated
  <2>. QED BY <2>5, <2>6, BegunAuto
<1>3. CASE StartRun(q) \/ \E key \in SuccessPhases : RequestGate(q, 1, key)
  <2>1. PICK op, e, cont : Begin(q, op, Started(e, cont)) /\ "auto" \in DOMAIN e /\ ~e.auto
    <3>1. CASE StartRun(q)
      BY <1>1, <3>1 DEF StartRun
    <3>2. CASE \E key \in SuccessPhases : RequestGate(q, 1, key)
      <4>1. PICK key, gate, op, cont :
              Begin(q, op, Started([Idle EXCEPT !.gate = gate, !.job = 1, !.succ = key], cont))
        BY <3>2 DEF RequestGate, RequestReviewGate, RequestApprovalGate
      <4>2. PICK e : e = [Idle EXCEPT !.gate = gate, !.job = 1, !.succ = key]
        OBVIOUS
      <4>3. "auto" \in DOMAIN e /\ ~e.auto
        BY <1>1, <4>2
      <4>. QED BY <4>1, <4>2, <4>3
    <3>. QED BY <1>3, <3>1, <3>2
  <2>2. PICK f : f = [e EXCEPT !.cont = cont]
    OBVIOUS
  <2>3. "auto" \in DOMAIN f /\ ~f.auto
    BY <2>1, <2>2
  <2>4. PICK m : m = Seeded(f, "read_phase")
    OBVIOUS
  <2>5. "auto" \in DOMAIN m /\ ~m.auto
    BY <2>3, <2>4, SeededAuto
  <2>6. Begin(q, op, m)
    BY <2>1, <2>2, <2>4 DEF Started
  <2>. QED BY <2>5, <2>6, BegunAuto
<1>4. CASE ReadSession(q, "edit") \/ ReadSession(q, "pause")
  <2>1. PICK op, l : l = [Idle EXCEPT !.pc = op, !.sess = session] /\ Begin(q, op, l)
    BY <1>4 DEF ReadSession
  <2>2. "auto" \in DOMAIN l /\ ~l.auto
    BY <1>1, <2>1
  <2>. QED BY <2>1, <2>2, BegunAuto
<1>5. CASE RequestReview(q, 1)
  <2>1. PICK l : l = [Idle EXCEPT !.pc = "check_review", !.job = 1]
    OBVIOUS
  <2>2. "auto" \in DOMAIN l /\ ~l.auto
    BY <1>1, <2>1
  <2>. QED BY <1>5, <2>1, <2>2, BegunAuto DEF RequestReview
<1>6. CASE \E a \in DOMAIN approvals, ok \in BOOLEAN : DecideApproval(q, a, ok)
  <2>1. PICK a, ok, l : /\ l = [Idle EXCEPT !.pc = "save_approval", !.approval = a, !.ok = ok]
                        /\ Begin(q, "decide", l)
    BY <1>6 DEF DecideApproval
  <2>2. "auto" \in DOMAIN l /\ ~l.auto
    BY <1>1, <2>1
  <2>. QED BY <2>1, <2>2, BegunAuto
<1>7. CASE \E r \in DOMAIN reviews, ok \in BOOLEAN : JudgeReview(q, r, ok)
  <2>1. PICK r, ok : JudgeReview(q, r, ok)
    BY <1>7
  <2>2. PICK row : row = reviews[r]
    OBVIOUS
  <2>3. PICK f : f = [Idle EXCEPT !.review = r, !.ok = ok, !.row = row, !.job = row.job]
    OBVIOUS
  <2>4. "auto" \in DOMAIN f /\ ~f.auto
    BY <1>1, <2>3
  <2>5. PICK pc, sess, artifact, revision, l :
          /\ \/ l = [f EXCEPT !.sess = sess, !.pc = pc]
             \/ l = [f EXCEPT !.pc = "find_gate", !.artifact = artifact, !.revision = revision]
          /\ Begin(q, "judge", l)
    BY <2>1, <2>2, <2>3 DEF JudgeReview
  <2>6. "auto" \in DOMAIN l /\ ~l.auto
    BY <2>4, <2>5
  <2>. QED BY <2>5, <2>6, BegunAuto
<1>8. CASE \E i \in DOMAIN Policies :
             \E row \in {PauseAutomation(i), ResumeAutomation(i), ActivatePolicy(i), DeactivatePolicy(i)} :
               ReadPolicy(q, i, row)
  <2>1. PICK i, flag, l : /\ l = [Idle EXCEPT !.pc = "control", !.policy = i, !.flag = flag]
                          /\ Begin(q, "control", l)
    BY <1>8 DEF ReadPolicy
  <2>2. "auto" \in DOMAIN l /\ ~l.auto
    BY <1>1, <2>1
  <2>. QED BY <2>1, <2>2, BegunAuto
<1>. QED BY <1>2, <1>3, <1>4, <1>5, <1>6, <1>7, <1>8 DEF Client

\* Nothing but the evaluation of its policies makes a handler approve a gate itself.
LEMMA ServerAuto ==
  ASSUME Inv, NEW p \in Handlers, NEW q \in Handlers, Server(q), ~EvaluateGate(q), h'[p].auto
  PROVE  h[p].auto
<1>1. PICK g : g = h[q]
  OBVIOUS
<1>2. g \in Locals /\ h \in [Handlers -> Locals] /\ "auto" \in DOMAIN g /\ ~Idle.auto
  BY <1>1, IdleIs DEF Inv, Locals
<1>3. ASSUME NEW l, h' = [h EXCEPT ![q] = l], l.auto = g.auto \/ ~l.auto
      PROVE  h[p].auto
  BY <1>1, <1>2, <1>3
<1>4. CASE Return(q)
  BY <1>2, <1>3, <1>4 DEF Return, Become
<1>5. CASE SeedOne(q)
  <2>1. PICK rest, pc : \/ Return(q)
                        \/ h' = [h EXCEPT ![q] = [g EXCEPT !.todo = rest, !.pc = pc]]
    BY <1>1, <1>5 DEF SeedOne, Become
  <2>. QED BY <1>2, <1>3, <1>4, <2>1
<1>6. CASE FindPhase(q)
  <2>1. PICK pc : \/ Return(q)
                  \/ h' = [h EXCEPT ![q] = [g EXCEPT !.pc = pc, !.sess = session]]
    BY <1>1, <1>6 DEF FindPhase, Become
  <2>. QED BY <1>2, <1>3, <1>4, <2>1
<1>7. CASE \E pc : Goto(q, pc)
  <2>1. PICK pc : h' = [h EXCEPT ![q] = [g EXCEPT !.pc = pc]]
    BY <1>1, <1>7 DEF Goto
  <2>. QED BY <1>2, <1>3, <2>1
<1>8. CASE ReadPhase(q)
  <2>1. h' = [h EXCEPT ![q] = [g EXCEPT !.target = ActivePhase, !.pc = "read_run"]]
    BY <1>1, <1>8 DEF ReadPhase, Become
  <2>. QED BY <1>2, <1>3, <2>1
<1>9. CASE ReadRun(q) \/ SaveRun(q)
  <2>1. PICK row, pc : Return(q) \/ h' = [h EXCEPT ![q] = [g EXCEPT !.run = row, !.pc = pc]]
    BY <1>1, <1>9 DEF ReadRun, SaveRun, Become
  <2>. QED BY <1>2, <1>3, <1>4, <2>1
<1>10. CASE CheckReview(q)
  <2>1. Return(q) \/ h' = [h EXCEPT ![q] = [g EXCEPT !.pc = "create_review", !.sess = session]]
    BY <1>1, <1>10 DEF CheckReview, Become
  <2>. QED BY <1>2, <1>3, <1>4, <2>1
<1>11. CASE CreateReview(q)
  <2>1. PICK n, row : h' = [h EXCEPT ![q] = [g EXCEPT !.pc = "publish_request", !.review = n, !.row = row]]
    BY <1>1, <1>11 DEF CreateReview, Become
  <2>. QED BY <1>2, <1>3, <2>1
<1>12. CASE CreateHandoff(q)
  <2>1. PICK n, pc : h' = [h EXCEPT ![q] = [g EXCEPT !.handoff = n, !.pc = pc]]
    BY <1>1, <1>12 DEF CreateHandoff, Become
  <2>. QED BY <1>2, <1>3, <2>1
<1>13. CASE CreateApproval(q)
  <2>1. PICK n : h' = [h EXCEPT ![q] = [g EXCEPT !.approval = n, !.pc = "describe"]]
    BY <1>1, <1>13 DEF CreateApproval, Become
  <2>. QED BY <1>2, <1>3, <2>1
<1>14. CASE Describe(q)
  <2>1. PICK n : h' = [h EXCEPT ![q] = Started([g EXCEPT !.artifact = n], "record_gate")]
    BY <1>1, <1>14 DEF Describe, Become
  <2>2. PICK f : f = [[g EXCEPT !.artifact = n] EXCEPT !.cont = "record_gate"]
    OBVIOUS
  <2>3. "auto" \in DOMAIN f /\ f.auto = g.auto
    BY <1>2, <2>2
  <2>4. Seeded(f, "read_phase").auto = g.auto
    BY <2>3, SeededAuto
  <2>. QED BY <1>3, <2>1, <2>2, <2>4 DEF Started
<1>15. CASE RecordGate(q)
  <2>1. Return(q) \/ h' = [h EXCEPT ![q] = [g EXCEPT !.pc = "read_approval", !.ok = TRUE]]
    BY <1>1, <1>15 DEF RecordGate, Become
  <2>. QED BY <1>2, <1>3, <1>4, <2>1
<1>16. CASE CreateRevision(q)
  <2>1. PICK n, pc : h' = [h EXCEPT ![q] = [g EXCEPT !.revision = n, !.pc = pc]]
    BY <1>1, <1>16 DEF CreateRevision, Become
  <2>. QED BY <1>2, <1>3, <2>1
<1>17. CASE Summarize(q) \/ DescribeDecision(q)
  <2>1. PICK n, pc : h' = [h EXCEPT ![q] = [g EXCEPT !.artifact = n, !.pc = pc]]
    BY <1>1, <1>17 DEF Summarize, DescribeDecision, Become
  <2>. QED BY <1>2, <1>3, <2>1
<1>18. CASE FindGate(q)
  <2>1. PICK row, job, key, cont :
          Return(q) \/ h' = [h EXCEPT ![q] = Activated([g EXCEPT !.run = row, !.job = job], key, cont)]
    BY <1>1, <1>18 DEF FindGate, Become
  <2>2. PICK f : f = [[g EXCEPT !.run = row, !.job = job] EXCEPT !.target = key, !.cont = cont]
    OBVIOUS
  <2>3. "auto" \in DOMAIN f /\ f.auto = g.auto
    BY <1>2, <2>2
  <2>4. Seeded(f, "find_phase").auto = g.auto
    BY <2>3, SeededAuto
  <2>. QED BY <1>3, <1>4, <2>1, <2>2, <2>4 DEF Activated
<1>19. CASE \/ SetPhase(q) \/ Publish(q, "publish_request", "link_request")
            \/ Publish(q, "publish_decision", "summarize")
            \/ LinkRequest(q) \/ ReadApproval(q) \/ SaveApproval(q) \/ MoveHandoff(q)
            \/ ScheduleRevision(q) \/ SaveReview(q)
  BY <1>4, <1>7, <1>19 DEF SetPhase, Publish, LinkRequest, ReadApproval, SaveApproval, MoveHandoff,
     ScheduleRevision, SaveReview
<1>20. CASE Done(q) \/ EditSession(q) \/ PauseSession(q) \/ SavePolicy(q) \/ ResolveGate(q)
  BY <1>4, <1>20 DEF Done, EditSession, PauseSession, SavePolicy, ResolveGate
<1>. QED
  BY <1>5, <1>6, <1>8, <1>9, <1>10, <1>11, <1>12, <1>13, <1>14, <1>15, <1>16, <1>17, <1>18, <1>19,
     <1>20 DEF Server

\* What _evaluate says of a gate that it approves.
LEMMA ApprovedByPolicy ==
  ASSUME NEW key, NEW current, Evaluate(key, current).decision = "auto_approve"
  PROVE  LET fits == {i \in DOMAIN Policies :
                        /\ flags[i].active
                        /\ Policies[i].session = "this" \/ Policies[i].phase = key
                        /\ Matches(i, key, current)}
         IN \E i \in fits : /\ ~flags[i].paused /\ Decision(i) = "auto_approve"
                            /\ \A k \in fits : k >= i
<1>1. PICK fits \in SUBSET Nat :
        fits = {i \in DOMAIN Policies :
                        /\ flags[i].active
                        /\ Policies[i].session = "this" \/ Policies[i].phase = key
                        /\ Matches(i, key, current)}
  <2>1. DOMAIN Policies \subseteq Nat
    BY PoliciesAssumption
  <2>. QED BY <2>1
<1>2. fits = {i \in Candidates(key) : flags[i].active /\ Matches(i, key, current)}
  BY <1>1 DEF Candidates
<1>3. fits # {}
  BY <1>2 DEF Evaluate
<1>4. PICK first : first = Min(fits)
  OBVIOUS
<1>5. first \in fits /\ \A k \in fits : k >= first
  <2>1. first \in fits /\ \A k \in fits : first <= k
    BY <1>3, <1>4, MinIs
  <2>. QED BY <2>1
<1>6. Evaluate(key, current).decision = IF flags[first].paused THEN "allow" ELSE Decision(first)
  BY <1>2, <1>3, <1>4 DEF Evaluate
<1>7. ~flags[first].paused /\ Decision(first) = "auto_approve"
  BY <1>6
<1>. QED BY <1>1, <1>5, <1>7

LEMMA EvaluatedAuto ==
  ASSUME Inv, NEW p \in Handlers, NEW q \in Handlers, EvaluateGate(q), h'[p].auto, ~h[p].auto
  PROVE  p = q /\ Evaluate(h[p].succ, ActivePhase).decision = "auto_approve"
<1>1. PICK g : g = h[q]
  OBVIOUS
<1>2. g \in Locals /\ h \in [Handlers -> Locals] /\ "auto" \in DOMAIN g /\ ~Idle.auto
  BY <1>1, IdleIs DEF Inv, Locals
<1>3. PICK e : e = Evaluate(g.succ, ActivePhase)
  OBVIOUS
<1>4. PICK l : /\ h' = [h EXCEPT ![q] = l]
               /\ l.auto => g.auto \/ e.decision = "auto_approve"
  <2>1. CASE Return(q)
    BY <1>2, <2>1 DEF Return, Become
  <2>2. CASE Become(q, Started([g EXCEPT !.gate = "review_required"], "check_review"))
    <3>1. PICK f : f = [[g EXCEPT !.gate = "review_required"] EXCEPT !.cont = "check_review"]
      OBVIOUS
    <3>2. "auto" \in DOMAIN f /\ f.auto = g.auto
      BY <1>2, <3>1
    <3>3. Seeded(f, "read_phase").auto = g.auto
      BY <3>2, SeededAuto
    <3>. QED BY <2>2, <3>1, <3>3 DEF Started, Become
  <2>3. CASE Become(q, [g EXCEPT !.pc = "handoff", !.policy = e.policy, !.auto = (e.decision = "auto_approve")])
    <3>1. PICK l : l = [g EXCEPT !.pc = "handoff", !.policy = e.policy, !.auto = (e.decision = "auto_approve")]
      OBVIOUS
    <3>2. l.auto = (e.decision = "auto_approve")
      BY <1>2, <3>1
    <3>. QED BY <2>3, <3>1, <3>2 DEF Become
  <2>. QED BY <1>1, <1>3, <2>1, <2>2, <2>3 DEF EvaluateGate
<1>. QED BY <1>1, <1>2, <1>3, <1>4

\* A gate is approved without a person only when the first active policy that
\* matches it, in the order of the table, approves and is not paused, whatever
\* the policies are and whoever changes them meanwhile (PolicyEngine._evaluate).
THEOREM AutomationIsAllowed == Spec => AutomationObeysPolicies
<1>1. Inv /\ [Next]_vars =>
        [\A p \in Handlers : h'[p].auto /\ ~h[p].auto =>
           LET fits == {i \in DOMAIN Policies :
                          /\ flags[i].active
                          /\ Policies[i].session = "this" \/ Policies[i].phase = h[p].succ
                          /\ Matches(i, h[p].succ, ActivePhase)}
           IN \E i \in fits : /\ ~flags[i].paused /\ Decision(i) = "auto_approve"
                              /\ \A k \in fits : k >= i]_vars
  <2>1. ASSUME Inv, Next, NEW p \in Handlers, h'[p].auto, ~h[p].auto
        PROVE  Evaluate(h[p].succ, ActivePhase).decision = "auto_approve"
    <3>1. CASE Crash
      BY <2>1, <3>1, IdleIs DEF Crash
    <3>2. CASE \E q \in Handlers : Client(q) \/ Server(q)
      BY <2>1, <3>2, ClientAuto, ServerAuto, EvaluatedAuto
    <3>. QED BY <2>1, <3>1, <3>2 DEF Next
  <2>. QED BY <2>1, ApprovedByPolicy
<1>. QED BY <1>1, Invariance, PTL DEF Spec, AutomationObeysPolicies

----------------------------------------------------------------------------
(* Requests served one at a time *)

\* What the review or the approval of the run says, when it says it.
RunAgrees == Settled => run.gateStatus = GateVerdict

LEMMA IdleAlone ==
  ASSUME NEW l, l.pc = "idle"
  PROVE  Alone(l) /\ Alone(l)'
BY DEF Alone, Stage, Describing, Resolving, Asking, Detours, Seeking, Starting, Judging

LEMMA AloneAfter ==
  ASSUME NEW q, NEW m, h'[q] = m, Alone(m)'
  PROVE  Alone(h[q])'
BY DEF Alone, Stage, Describing, Resolving, Pending

LEMMA AloneKept ==
  ASSUME NEW l, Alone(l), UNCHANGED <<session, run, reviews, approvals>>
  PROVE  Alone(l)'
BY DEF Alone, Pending

LEMMA AgreesKept ==
  ASSUME RunAgrees, UNCHANGED <<run, reviews, approvals>>
  PROVE  RunAgrees'
BY DEF RunAgrees, Settled, GateVerdict

LEMMA AloneMoves ==
  ASSUME Inv, NEW p \in Handlers, \A q \in Handlers \ {p} : At(q, "idle"),
         NEW l, h' = [h EXCEPT ![p] = l], Alone(l)', RunAgrees'
  PROVE  OneByOne'
<1>1. h \in [Handlers -> Locals]
  BY DEF Inv
<1>2. \A q \in Handlers \ {p} : h'[q] = h[q] /\ h[q].pc = "idle"
  BY <1>1 DEF At
<1>3. ASSUME NEW q \in Handlers PROVE Alone(h[q])'
  <2>1. PICK m : m = IF q = p THEN l ELSE h[q]
    OBVIOUS
  <2>2. h'[q] = m
    BY <1>1, <2>1
  <2>3. Alone(m)'
    <3>1. CASE q = p
      BY <2>1, <3>1
    <3>2. CASE q # p
      <4>1. m.pc = "idle"
        BY <1>2, <2>1, <3>2
      <4>. QED BY <4>1, IdleAlone
    <3>. QED BY <3>1, <3>2
  <2>. QED BY <2>2, <2>3, AloneAfter
<1>4. \A q \in Handlers : Alone(h[q])'
  BY <1>3
<1>5. (\A q, r \in Handlers : q # r => At(q, "idle") \/ At(r, "idle"))'
  BY <1>2 DEF At
<1>. QED BY <1>4, <1>5 DEF OneByOne, RunAgrees

\* What a handler that serves knows when it is alone.
LEMMA Serves ==
  ASSUME OneByOne, ~overlapped, NEW p \in Handlers, h[p].pc # "idle"
  PROVE  /\ \A q \in Handlers \ {p} : At(q, "idle")
         /\ Alone(h[p]) /\ RunAgrees
BY DEF OneByOne, At, RunAgrees

\* A handler goes on that wrote none of the rows it depends on.
LEMMA AloneReads ==
  ASSUME Inv, OneByOne, ~overlapped, NEW p \in Handlers, h[p].pc # "idle",
         NEW l, h' = [h EXCEPT ![p] = l], Alone(l), UNCHANGED <<session, run, reviews, approvals>>
  PROVE  OneByOne'
BY Serves, AloneKept, AgreesKept, AloneMoves

LEMMA AloneReturns ==
  ASSUME Inv, OneByOne, ~overlapped, NEW p \in Handlers, h[p].pc # "idle",
         Return(p), UNCHANGED <<run, reviews, approvals>>
  PROVE  OneByOne'
<1>1. PICK l : l = Idle
  OBVIOUS
<1>2. Alone(l)'
  BY <1>1, IdleIs, IdleAlone
<1>. QED BY <1>1, <1>2, Serves, AgreesKept, AloneMoves DEF Return, Become

LEMMA AloneBegins ==
  ASSUME Inv, OneByOne, ~overlapped', NEW p \in Handlers, NEW op, NEW f, Begin(p, op, f),
         NEW l, l = [f EXCEPT !.op = op], Alone(l)', UNCHANGED <<run, reviews, approvals>>
  PROVE  OneByOne'
<1>1. ~overlapped /\ \A q \in Handlers \ {p} : At(q, "idle")
  BY DEF Begin
<1>2. RunAgrees'
  BY <1>1, AgreesKept DEF OneByOne, RunAgrees
<1>. QED BY <1>1, <1>2, AloneMoves DEF Begin, Become

LEMMA TwinAlone ==
  ASSUME NEW l, NEW m, Twin(l, m), Alone(l)
  PROVE  Alone(m)
BY DEF Twin, Alone, Stage, Describing, Resolving, Asking, Detours, Seeking, Starting, Judging

\* The steps on the way to a phase or to a run.
LEMMA SeedOneAlone ==
  ASSUME Inv, OneByOne, ~overlapped, NEW p \in Handlers, SeedOne(p)
  PROVE  OneByOne'
<1>1. PICK g : g = h[p]
  OBVIOUS
<1>2. g \in Locals /\ LocalSound(g) /\ g.pc = "seed" /\ Alone(g)
  BY <1>1, Serves DEF Inv, SeedOne, At
<1>3. g.next \in {"find_phase", "read_phase"}
  BY <1>2 DEF LocalSound, WaySound
<1>4. PICK rest, pc : /\ pc \in {g.pc, g.next}
                      /\ \/ Return(p)
                         \/ h' = [h EXCEPT ![p] = [g EXCEPT !.todo = rest, !.pc = pc]]
  BY <1>1 DEF SeedOne, Become
<1>5. CASE Return(p)
  BY <1>1, <1>2, <1>5, AloneReturns DEF SeedOne
<1>6. CASE h' = [h EXCEPT ![p] = [g EXCEPT !.todo = rest, !.pc = pc]]
  <2>1. PICK l : l = [g EXCEPT !.todo = rest, !.pc = pc]
    OBVIOUS
  <2>2. Alone(l)
    BY <1>2, <1>3, <1>4, <2>1 DEF Locals, Alone, Stage, Describing, Resolving, Asking, Detours, Seeking,
       Starting, Judging
  <2>. QED BY <1>1, <1>2, <1>6, <2>1, <2>2, AloneReads DEF SeedOne
<1>. QED BY <1>4, <1>5, <1>6

LEMMA FindPhaseAlone ==
  ASSUME Inv, OneByOne, ~overlapped, NEW p \in Handlers, FindPhase(p)
  PROVE  OneByOne'
<1>1. PICK g : g = h[p]
  OBVIOUS
<1>2. g \in Locals /\ LocalSound(g) /\ g.pc = "find_phase" /\ Alone(g)
  BY <1>1, Serves DEF Inv, FindPhase, At
<1>3. g.cont \in {"done", "resolve", "decide"}
  BY <1>2 DEF LocalSound, WaySound, Route, Seeking
<1>4. CASE Return(p)
  BY <1>1, <1>2, <1>4, AloneReturns DEF FindPhase
<1>5. CASE Become(p, [g EXCEPT !.pc = IF session.active = g.target THEN g.cont ELSE "set_phase", !.sess = session])
  <2>1. PICK pc \in {g.cont, "set_phase"} :
          pc = IF session.active = g.target THEN g.cont ELSE "set_phase"
    OBVIOUS
  <2>2. PICK l : l = [g EXCEPT !.pc = pc, !.sess = session]
    OBVIOUS
  <2>3. Alone(l)
    BY <1>2, <1>3, <2>1, <2>2 DEF Locals, Alone, Stage, Describing, Resolving, Asking, Detours, Seeking,
       Starting, Judging
  <2>. QED BY <1>1, <1>2, <1>5, <2>1, <2>2, <2>3, AloneReads DEF FindPhase, Become
<1>. QED BY <1>1, <1>4, <1>5 DEF FindPhase

LEMMA SetPhaseAlone ==
  ASSUME Inv, OneByOne, ~overlapped, NEW p \in Handlers, SetPhase(p)
  PROVE  OneByOne'
<1>1. PICK g : g = h[p]
  OBVIOUS
<1>2. /\ g \in Locals /\ LocalSound(g) /\ g.pc = "set_phase" /\ Alone(g)
      /\ \A q \in Handlers \ {p} : At(q, "idle")
  BY <1>1, Serves DEF Inv, SetPhase, At
<1>3. g.cont \in {"done", "resolve", "decide"}
  BY <1>2 DEF LocalSound, WaySound, Route, Seeking
<1>4. PICK l : l = [g EXCEPT !.pc = g.cont]
  OBVIOUS
<1>5. session'.active = g.target
  BY <1>1, <1>2 DEF SetPhase, UpdateSession, Locals, SessionRow
<1>6. Alone(l)'
  BY <1>2, <1>3, <1>4, <1>5 DEF SetPhase, Locals, Alone, Pending, Stage, Describing, Resolving, Asking,
     Detours, Seeking, Starting, Judging
<1>7. RunAgrees'
  BY <1>1, <1>2, Serves, AgreesKept DEF SetPhase
<1>. QED BY <1>1, <1>2, <1>4, <1>6, <1>7, AloneMoves DEF SetPhase, Goto

LEMMA LastWriteAlone ==
  ASSUME Inv, OneByOne, ~overlapped, NEW p \in Handlers,
         Done(p) \/ EditSession(p) \/ PauseSession(p) \/ SavePolicy(p)
  PROVE  OneByOne'
BY AloneReturns DEF Done, EditSession, PauseSession, SavePolicy, At

LEMMA ReadPhaseAlone ==
  ASSUME Inv, OneByOne, ~overlapped, NEW p \in Handlers, ReadPhase(p)
  PROVE  OneByOne'
<1>1. PICK g : g = h[p]
  OBVIOUS
<1>2. g \in Locals /\ LocalSound(g) /\ g.pc = "read_phase" /\ Alone(g)
  BY <1>1, Serves DEF Inv, ReadPhase, At
<1>3. g.cont \in {"done", "check_review", "evaluate", "record_gate"}
  BY <1>2 DEF LocalSound, WaySound, Route, Starting
<1>4. PICK l : l = [g EXCEPT !.target = ActivePhase, !.pc = "read_run"]
  OBVIOUS
<1>5. Alone(l)
  BY <1>2, <1>3, <1>4 DEF Locals, Alone, Stage, Describing, Resolving, Asking, Detours, Seeking,
     Starting, Judging
<1>. QED BY <1>1, <1>2, <1>4, <1>5, AloneReads DEF ReadPhase, Become

LEMMA ReadRunAlone ==
  ASSUME Inv, OneByOne, ~overlapped, NEW p \in Handlers, ReadRun(p)
  PROVE  OneByOne'
<1>1. PICK g : g = h[p]
  OBVIOUS
<1>2. g \in Locals /\ LocalSound(g) /\ g.pc = "read_run" /\ Alone(g)
  BY <1>1, Serves DEF Inv, ReadRun, At
<1>3. g.cont \in {"done", "check_review", "evaluate", "record_gate"}
  BY <1>2 DEF LocalSound, WaySound, Route, Starting
<1>4. g.cont \in Asking => g.op \in {"review_gate", "approval_gate", "request_review"}
  BY <1>2 DEF LocalSound, AskSound, Stage, Detours, Seeking, Starting
<1>5. g.cont \in Asking /\ g.op = "request_review" => g.cont = "check_review"
  BY <1>2, <1>3 DEF LocalSound, AskSound, Stage, Detours, Seeking, Starting
<1>6. PICK pc \in {g.cont, "save_run"} :
        /\ pc = "save_run" => ~Pending
        /\ h' = [h EXCEPT ![p] = [g EXCEPT !.run = run, !.pc = pc]]
  <2>1. PICK pc \in {g.cont, "save_run"} :
          pc = IF run.gateStatus = "pending" THEN g.cont ELSE "save_run"
    OBVIOUS
  <2>2. h' = [h EXCEPT ![p] = [g EXCEPT !.run = run, !.pc = pc]]
    BY <1>1, <2>1 DEF ReadRun, Become
  <2>3. pc = "save_run" => ~Pending
    <3>1. g.cont # "save_run"
      BY <1>3
    <3>. QED BY <2>1, <3>1 DEF Pending
  <2>. QED BY <2>2, <2>3
<1>7. PICK l : l = [g EXCEPT !.run = run, !.pc = pc]
  OBVIOUS
<1>8. Alone(l)
  BY <1>2, <1>3, <1>6, <1>7 DEF Locals, Alone, Stage, Describing, Resolving, Asking, Detours, Seeking,
     Starting, Judging
<1>. QED BY <1>1, <1>2, <1>6, <1>7, <1>8, AloneReads DEF ReadRun

LEMMA SaveRunAlone ==
  ASSUME Inv, OneByOne, ~overlapped, NEW p \in Handlers, SaveRun(p)
  PROVE  OneByOne'
<1>1. PICK g : g = h[p]
  OBVIOUS
<1>2. /\ g \in Locals /\ LocalSound(g) /\ g.pc = "save_run" /\ Alone(g)
      /\ \A q \in Handlers \ {p} : At(q, "idle")
  BY <1>1, Serves DEF Inv, SaveRun, At
<1>3. g.cont \in {"done", "check_review", "evaluate", "record_gate"}
  BY <1>2 DEF LocalSound, WaySound, Route, Starting
<1>4. CASE Return(p) /\ UNCHANGED run
  BY <1>1, <1>2, <1>4, AloneReturns DEF SaveRun
<1>5. CASE run' = AtPhase(g.run, g.target) /\ Become(p, [g EXCEPT !.run = run', !.pc = g.cont])
  <2>1. PICK l : l = [g EXCEPT !.run = run', !.pc = g.cont]
    OBVIOUS
  <2>2. run'.gateStatus = "idle"
    BY <1>5, NoRunIs DEF AtPhase, NoRun
  <2>3. Alone(l)'
    BY <1>2, <1>3, <2>1, <2>2 DEF SaveRun, Locals, Alone, Pending, Stage, Describing, Resolving, Asking,
       Detours, Seeking, Starting, Judging
  <2>4. RunAgrees'
    BY <2>2 DEF RunAgrees, Settled
  <2>. QED BY <1>2, <1>5, <2>1, <2>3, <2>4, AloneMoves DEF Become
<1>. QED BY <1>1, <1>4, <1>5 DEF SaveRun, InsertRun, UpdateRun

\* The steps of a request for a gate or a review.
LEMMA EvaluateGateAlone ==
  ASSUME Inv, OneByOne, ~overlapped, NEW p \in Handlers, EvaluateGate(p)
  PROVE  OneByOne'
<1>1. PICK g : g = h[p]
  OBVIOUS
<1>2. g \in Locals /\ LocalSound(g) /\ g.pc = "evaluate" /\ Alone(g)
  BY <1>1, Serves DEF Inv, EvaluateGate, At
<1>3. g.op \in {"review_gate", "approval_gate"}
  BY <1>2 DEF LocalSound, AskSound, Stage, Detours, Seeking, Starting, Asking
<1>4. ~Pending
  BY <1>2, <1>3 DEF Alone, Stage, Detours, Seeking, Starting, Asking
<1>5. PICK e : e = Evaluate(g.succ, ActivePhase)
  OBVIOUS
<1>6. CASE Return(p)
  BY <1>1, <1>2, <1>6, AloneReturns DEF EvaluateGate
<1>7. CASE Become(p, Started([g EXCEPT !.gate = "review_required"], "check_review"))
  <2>1. PICK f : f = [[g EXCEPT !.gate = "review_required"] EXCEPT !.cont = "check_review"]
    OBVIOUS
  <2>2. f \in Locals
    BY <1>2, <2>1 DEF Locals, PCs, Asking
  <2>3. PICK l : l = [f EXCEPT !.pc = "read_phase"]
    OBVIOUS
  <2>4. PICK m : m = Seeded(f, "read_phase")
    OBVIOUS
  <2>5. m = l \/ Twin(l, m)
    BY <2>2, <2>3, <2>4, SeededIs
  <2>6. Alone(l)
    BY <1>2, <1>4, <2>1, <2>3 DEF Locals, Alone, Stage, Describing, Resolving, Asking, Detours, Seeking,
       Starting, Judging
  <2>7. Alone(m)
    BY <2>5, <2>6, TwinAlone
  <2>. QED BY <1>1, <1>2, <1>7, <2>1, <2>4, <2>7, AloneReads DEF EvaluateGate, Become, Started
<1>8. CASE Become(p, [g EXCEPT !.pc = "handoff", !.policy = e.policy, !.auto = (e.decision = "auto_approve")])
  <2>1. PICK l : l = [g EXCEPT !.pc = "handoff", !.policy = e.policy, !.auto = (e.decision = "auto_approve")]
    OBVIOUS
  <2>2. l.pc = "handoff"
    BY <1>2, <2>1 DEF Locals
  <2>3. Alone(l)
    BY <1>4, <2>2 DEF Alone, Stage, Describing, Resolving, Asking, Detours, Seeking, Starting, Judging
  <2>. QED BY <1>1, <1>2, <1>8, <2>1, <2>3, AloneReads DEF EvaluateGate, Become
<1>. QED BY <1>1, <1>5, <1>6, <1>7, <1>8 DEF EvaluateGate

LEMMA CheckReviewAlone ==
  ASSUME Inv, OneByOne, ~overlapped, NEW p \in Handlers, CheckReview(p)
  PROVE  OneByOne'
<1>1. PICK g : g = h[p]
  OBVIOUS
<1>2. g \in Locals /\ LocalSound(g) /\ g.pc = "check_review" /\ Alone(g)
  BY <1>1, Serves DEF Inv, CheckReview, At
<1>3. CASE Return(p)
  BY <1>1, <1>2, <1>3, AloneReturns DEF CheckReview
<1>4. CASE Become(p, [g EXCEPT !.pc = "create_review", !.sess = session])
  <2>1. PICK l : l = [g EXCEPT !.pc = "create_review", !.sess = session]
    OBVIOUS
  <2>2. Alone(l)
    BY <1>2, <2>1 DEF Locals, Alone, Stage, Describing, Resolving, Asking, Detours, Seeking, Starting, Judging
  <2>. QED BY <1>1, <1>2, <1>4, <2>1, <2>2, AloneReads DEF CheckReview, Become
<1>. QED BY <1>1, <1>3, <1>4 DEF CheckReview

\* What the run says does not change with rows that are not its own.
LEMMA ReviewElsewhere ==
  ASSUME Inv, RunAgrees, UNCHANGED <<run, approvals>>,
         \A r \in DOMAIN reviews : Settled /\ run.gate = "review_required" /\ r = run.review
                                     => reviews'[r].status = reviews[r].status
  PROVE  RunAgrees'
<1>1. run.gate = "review_required" => run.review \in DOMAIN reviews
  BY DEF Inv, RowsOK, RowSound, IsReview
<1>. QED BY <1>1 DEF RunAgrees, Settled, GateVerdict

LEMMA ApprovalElsewhere ==
  ASSUME Inv, RunAgrees, UNCHANGED <<run, reviews>>,
         \A a \in DOMAIN approvals : Settled /\ run.gate = "approval_required" /\ a = run.approval
                                       => approvals'[a].status = approvals[a].status
  PROVE  RunAgrees'
<1>1. run.gate = "approval_required" => run.approval \in DOMAIN approvals
  BY DEF Inv, RowsOK, RowSound, IsApproval
<1>. QED BY <1>1 DEF RunAgrees, Settled, GateVerdict

\* A settled run names no review that is still open, and no open approval.
LEMMA OpenIsNotSettled ==
  ASSUME Inv, RunAgrees, Settled
  PROVE  /\ run.gate = "review_required" => reviews[run.review].status # "requested"
         /\ run.gate = "approval_required" => approvals[run.approval].status # "pending"
BY DEF RunAgrees, Settled, GateVerdict, Verdicts

LEMMA CreateReviewAlone ==
  ASSUME Inv, OneByOne, ~overlapped, NEW p \in Handlers, CreateReview(p)
  PROVE  OneByOne'
<1>1. PICK g : g = h[p]
  OBVIOUS
<1>2. /\ g \in Locals /\ g.pc = "create_review" /\ Alone(g)
      /\ (\A q \in Handlers \ {p} : At(q, "idle")) /\ RunAgrees
  BY <1>1, Serves DEF Inv, CreateReview, At
<1>3. reviews \in Seq(ReviewRow) /\ Len(reviews) \in Nat /\ DOMAIN reviews = 1 .. Len(reviews)
  BY DEF Inv, RowsOK
<1>4. PICK n, row : n = Len(reviews) + 1 /\ row = NewReview(g.job)
  OBVIOUS
<1>5. row \in ReviewRow /\ row.status = "requested"
  BY <1>2, <1>4 DEF NewReview, ReviewRow, Locals
<1>6. reviews' = Append(reviews, row)
  BY <1>1, <1>4 DEF CreateReview, InsertReview
<1>7. reviews'[n].status = "requested" /\ n \notin DOMAIN reviews /\ n # 0
      /\ \A r \in DOMAIN reviews : reviews'[r] = reviews[r]
  BY <1>3, <1>4, <1>5, <1>6
<1>8. run.review # n
  BY <1>7 DEF Inv, RowsOK, RunRow, RowSound, IsReview
<1>9. PICK l : l = [g EXCEPT !.pc = "publish_request", !.review = n, !.row = row]
  OBVIOUS
<1>10. Alone(l)'
  BY <1>2, <1>7, <1>8, <1>9 DEF CreateReview, Locals, Alone, Pending, Stage, Describing, Resolving, Asking,
     Detours, Seeking, Starting, Judging
<1>11. RunAgrees'
  BY <1>2, <1>7, ReviewElsewhere DEF CreateReview
<1>12. h' = [h EXCEPT ![p] = l]
  BY <1>1, <1>4, <1>9 DEF CreateReview, Become
<1>. QED BY <1>2, <1>10, <1>11, <1>12, AloneMoves

LEMMA PublishAlone ==
  ASSUME Inv, OneByOne, ~overlapped, NEW p \in Handlers,
         \/ Publish(p, "publish_request", "link_request")
         \/ Publish(p, "publish_decision", "summarize")
  PROVE  OneByOne' /\ session' = session
<1>1. PICK g : g = h[p]
  OBVIOUS
<1>2. PICK next :
        /\ \/ g.pc = "publish_request" /\ next = "link_request"
           \/ g.pc = "publish_decision" /\ next = "summarize"
        /\ Publish(p, g.pc, next)
  BY <1>1 DEF Publish, At
<1>3. g \in Locals /\ g.pc # "idle" /\ Alone(g)
  BY <1>1, <1>2, Serves DEF Inv
<1>4. session' = session
  BY <1>1, <1>2, <1>3 DEF Alone, Publish, UpdateSession
<1>5. PICK l : l = [g EXCEPT !.pc = next]
  OBVIOUS
<1>6. Alone(l)
  BY <1>2, <1>3, <1>5 DEF Locals, Alone, Stage, Describing, Resolving, Asking, Detours, Seeking, Starting, Judging
<1>. QED BY <1>1, <1>2, <1>3, <1>4, <1>5, <1>6, AloneReads DEF Publish, Goto

LEMMA LinkRequestAlone ==
  ASSUME Inv, OneByOne, ~overlapped, NEW p \in Handlers, LinkRequest(p)
  PROVE  OneByOne'
<1>1. PICK g : g = h[p]
  OBVIOUS
<1>2. /\ g \in Locals /\ LocalSound(g) /\ g.pc = "link_request" /\ Alone(g)
      /\ (\A q \in Handlers \ {p} : At(q, "idle")) /\ RunAgrees
  BY <1>1, Serves DEF Inv, LinkRequest, At
<1>3. g.review \in DOMAIN reviews /\ run.review # g.review
  BY <1>2 DEF LocalSound, AskSound, Alone, Stage, Detours, Seeking, Starting, Asking, IsReview
<1>4. \A r \in DOMAIN reviews : r # g.review => reviews'[r] = reviews[r]
  BY <1>1 DEF LinkRequest, UpdateReview, Inv, RowsOK
<1>5. RunAgrees'
  BY <1>2, <1>3, <1>4, ReviewElsewhere DEF LinkRequest
<1>6. PICK l : l = IF g.op = "request_review" THEN Idle ELSE [g EXCEPT !.pc = "handoff"]
  OBVIOUS
<1>7. h' = [h EXCEPT ![p] = l]
  BY <1>1, <1>6 DEF LinkRequest, Return, Become, Goto
<1>8. Alone(l)'
  <2>1. CASE g.op = "request_review"
    BY <1>6, <2>1, IdleIs, IdleAlone
  <2>2. CASE g.op # "request_review"
    BY <1>2, <1>6, <2>2 DEF LinkRequest, Locals, Alone, Pending, Stage, Describing, Resolving, Asking,
       Detours, Seeking, Starting, Judging
  <2>. QED BY <2>1, <2>2
<1>. QED BY <1>2, <1>5, <1>7, <1>8, AloneMoves

LEMMA CreateHandoffAlone ==
  ASSUME Inv, OneByOne, ~overlapped, NEW p \in Handlers, CreateHandoff(p)
  PROVE  OneByOne'
<1>1. PICK g : g = h[p]
  OBVIOUS
<1>2. g \in Locals /\ g.pc = "handoff" /\ Alone(g)
  BY <1>1, Serves DEF Inv, CreateHandoff, At
<1>3. PICK pc \in {"describe", "create_approval"} :
        h' = [h EXCEPT ![p] = [g EXCEPT !.handoff = Len(jobs) + 1, !.pc = pc]]
  <2>1. PICK pc \in {"describe", "create_approval"} :
          pc = IF g.gate = "review_required" THEN "describe" ELSE "create_approval"
    OBVIOUS
  <2>. QED BY <1>1, <2>1 DEF CreateHandoff, Become
<1>4. PICK l : l = [g EXCEPT !.handoff = Len(jobs) + 1, !.pc = pc]
  OBVIOUS
<1>5. Alone(l)
  BY <1>2, <1>3, <1>4 DEF Locals, Alone, Stage, Describing, Resolving, Asking, Detours, Seeking, Starting, Judging
<1>. QED BY <1>1, <1>2, <1>3, <1>4, <1>5, AloneReads DEF CreateHandoff

LEMMA CreateApprovalAlone ==
  ASSUME Inv, OneByOne, ~overlapped, NEW p \in Handlers, CreateApproval(p)
  PROVE  OneByOne'
<1>1. PICK g : g = h[p]
  OBVIOUS
<1>2. /\ g \in Locals /\ g.pc = "create_approval" /\ Alone(g)
      /\ (\A q \in Handlers \ {p} : At(q, "idle")) /\ RunAgrees
  BY <1>1, Serves DEF Inv, CreateApproval, At
<1>3. PICK n, row : /\ approvals' = Append(approvals, row)
                    /\ h' = [h EXCEPT ![p] = [g EXCEPT !.approval = n, !.pc = "describe"]]
  BY <1>1 DEF CreateApproval, InsertApproval, Become
<1>4. \A a \in DOMAIN approvals : approvals'[a] = approvals[a]
  <2>1. approvals \in Seq(ApprovalRow)
    BY DEF Inv, RowsOK
  <2>. QED BY <1>3, <2>1
<1>5. RunAgrees'
  BY <1>2, <1>4, ApprovalElsewhere DEF CreateApproval
<1>6. PICK l : l = [g EXCEPT !.approval = n, !.pc = "describe"]
  OBVIOUS
<1>7. Alone(l)'
  BY <1>2, <1>6 DEF CreateApproval, Locals, Alone, Pending, Stage, Describing, Resolving, Asking,
     Detours, Seeking, Starting, Judging
<1>. QED BY <1>2, <1>3, <1>5, <1>6, <1>7, AloneMoves

LEMMA DescribeAlone ==
  ASSUME Inv, OneByOne, ~overlapped, NEW p \in Handlers, Describe(p)
  PROVE  OneByOne'
<1>1. PICK g : g = h[p]
  OBVIOUS
<1>2. g \in Locals /\ LocalSound(g) /\ g.pc = "describe" /\ Alone(g)
  BY <1>1, Serves DEF Inv, Describe, At
<1>3. PICK n \in Nat : h' = [h EXCEPT ![p] = Started([g EXCEPT !.artifact = n], "record_gate")]
  <2>1. Len(artifacts) + 1 \in Nat
    BY DEF Inv, RowsOK
  <2>. QED BY <1>1, <2>1 DEF Describe, Become
<1>4. PICK f : f = [[g EXCEPT !.artifact = n] EXCEPT !.cont = "record_gate"]
  OBVIOUS
<1>5. f \in Locals
  BY <1>2, <1>3, <1>4 DEF Locals, PCs, Asking
<1>6. PICK l : l = [f EXCEPT !.pc = "read_phase"]
  OBVIOUS
<1>7. PICK m : m = Seeded(f, "read_phase")
  OBVIOUS
<1>8. m = l \/ Twin(l, m)
  BY <1>5, <1>6, <1>7, SeededIs
<1>9. Alone(l)
  BY <1>2, <1>4, <1>6 DEF Locals, Alone, Stage, Describing, Resolving, Asking, Detours, Seeking,
     Starting, Judging
<1>10. Alone(m)
  BY <1>8, <1>9, TwinAlone
<1>. QED BY <1>1, <1>2, <1>3, <1>4, <1>7, <1>10, AloneReads DEF Describe, Started

\* A gate is recorded while none is pending, so that the run then is not settled.
LEMMA RecordsFree ==
  ASSUME Inv, OneByOne, ~overlapped, NEW p \in Handlers, RecordGate(p)
  PROVE  ~Pending
<1>1. PICK g : g = h[p]
  OBVIOUS
<1>2. LocalSound(g) /\ g.pc = "record_gate" /\ Alone(g)
  BY <1>1, Serves DEF Inv, RecordGate, At
<1>. QED BY <1>2 DEF LocalSound, AskSound, Alone, Stage, Asking, Detours, Seeking, Starting

LEMMA RecordGateAlone ==
  ASSUME Inv, OneByOne, ~overlapped, NEW p \in Handlers, RecordGate(p)
  PROVE  OneByOne'
<1>1. PICK g : g = h[p]
  OBVIOUS
<1>2. /\ g \in Locals /\ g.pc = "record_gate" /\ Alone(g)
      /\ (\A q \in Handlers \ {p} : At(q, "idle")) /\ RunAgrees
  BY <1>1, Serves DEF Inv, RecordGate, At
<1>3. RunAgrees'
  <2>1. CASE UNCHANGED run
    BY <1>2, <2>1, AgreesKept DEF RecordGate
  <2>2. CASE run' = Gated(g.run, g)
    <3>1. run'.gateStatus = "pending"
      BY <1>2, <2>2 DEF Gated, Locals, RunRow
    <3>. QED BY <3>1 DEF RunAgrees, Settled
  <2>. QED BY <1>1, <2>1, <2>2 DEF RecordGate, UpdateRun
<1>4. PICK l : l = IF g.auto THEN [g EXCEPT !.pc = "read_approval", !.ok = TRUE] ELSE Idle
  OBVIOUS
<1>5. l.pc \in {"read_approval", "idle"}
  BY <1>2, <1>4, IdleIs DEF Locals
<1>6. Alone(l)'
  BY <1>5 DEF Alone, Stage, Describing, Resolving, Asking, Detours, Seeking, Starting, Judging
<1>7. h' = [h EXCEPT ![p] = l]
  BY <1>1, <1>4 DEF RecordGate, Return, Become
<1>. QED BY <1>2, <1>3, <1>6, <1>7, AloneMoves

\* The steps of a decision.
LEMMA ReadApprovalAlone ==
  ASSUME Inv, OneByOne, ~overlapped, NEW p \in Handlers, ReadApproval(p)
  PROVE  OneByOne'
<1>1. PICK g : g = h[p]
  OBVIOUS
<1>2. g \in Locals /\ LocalSound(g) /\ g.pc = "read_approval" /\ Alone(g)
  BY <1>1, Serves DEF Inv, ReadApproval, At
<1>3. CASE Return(p)
  BY <1>1, <1>2, <1>3, AloneReturns DEF ReadApproval
<1>4. CASE approvals[g.approval].status = "pending" /\ Goto(p, "save_approval")
  <2>1. PICK l : l = [g EXCEPT !.pc = "save_approval"]
    OBVIOUS
  <2>2. Alone(l)
    BY <1>2, <1>4, <2>1 DEF Locals, Alone, Stage, Describing, Resolving, Asking, Detours, Seeking,
       Starting, Judging
  <2>. QED BY <1>1, <1>2, <1>4, <2>1, <2>2, AloneReads DEF ReadApproval, Goto
<1>. QED BY <1>1, <1>3, <1>4 DEF ReadApproval

LEMMA SaveApprovalAlone ==
  ASSUME Inv, OneByOne, ~overlapped, NEW p \in Handlers, SaveApproval(p)
  PROVE  OneByOne'
<1>1. PICK g : g = h[p]
  OBVIOUS
<1>2. /\ g \in Locals /\ LocalSound(g) /\ g.pc = "save_approval" /\ Alone(g)
      /\ (\A q \in Handlers \ {p} : At(q, "idle")) /\ RunAgrees
  BY <1>1, Serves DEF Inv, SaveApproval, At
<1>3. g.approval \in DOMAIN approvals /\ g.op # "judge" /\ approvals[g.approval].status = "pending"
  BY <1>2 DEF LocalSound, DecideSound, AtApproval, Deciding, Alone
<1>4. /\ \A a \in DOMAIN approvals : a # g.approval => approvals'[a] = approvals[a]
      /\ approvals'[g.approval].status = Verdict(g.ok)
  <2>1. approvals \in Seq(ApprovalRow) /\ approvals[g.approval] \in ApprovalRow
    BY <1>3 DEF Inv, RowsOK
  <2>2. PICK row : row = [approvals[g.approval] EXCEPT !.status = Verdict(g.ok)]
    OBVIOUS
  <2>3. row.status = Verdict(g.ok)
    BY <2>1, <2>2 DEF ApprovalRow
  <2>4. approvals' = [approvals EXCEPT ![g.approval] = row]
    BY <1>1, <2>2 DEF SaveApproval, UpdateApproval
  <2>. QED BY <1>3, <2>1, <2>3, <2>4
<1>5. RunAgrees'
  BY <1>2, <1>3, <1>4, OpenIsNotSettled, ApprovalElsewhere DEF SaveApproval
<1>6. PICK l : l = [g EXCEPT !.pc = "move_handoff"]
  OBVIOUS
<1>7. Alone(l)'
  BY <1>2, <1>3, <1>4, <1>6 DEF SaveApproval, Locals, Alone, Pending, Stage, Describing, Resolving, Asking,
     Detours, Seeking, Starting, Judging, Verdict
<1>. QED BY <1>1, <1>2, <1>5, <1>6, <1>7, AloneMoves DEF SaveApproval, Goto

LEMMA HandoffMovedAlone ==
  ASSUME Inv, OneByOne, ~overlapped, NEW p \in Handlers, MoveHandoff(p)
  PROVE  OneByOne'
<1>1. PICK g : g = h[p]
  OBVIOUS
<1>2. g \in Locals /\ g.pc = "move_handoff" /\ Alone(g)
  BY <1>1, Serves DEF Inv, MoveHandoff, At
<1>3. PICK l : l = [g EXCEPT !.pc = "find_gate"]
  OBVIOUS
<1>4. Alone(l)
  BY <1>2, <1>3 DEF Locals, Alone, Stage, Describing, Resolving, Asking, Detours, Seeking,
     Starting, Judging
<1>. QED BY <1>1, <1>2, <1>3, <1>4, AloneReads DEF MoveHandoff, Goto

LEMMA CreateRevisionAlone ==
  ASSUME Inv, OneByOne, ~overlapped, NEW p \in Handlers, CreateRevision(p)
  PROVE  OneByOne'
<1>1. PICK g : g = h[p]
  OBVIOUS
<1>2. /\ g \in Locals /\ LocalSound(g) /\ g.pc = "revise" /\ reviews \in Seq(ReviewRow) /\ Alone(g)
  BY <1>1, Serves DEF Inv, RowsOK, CreateRevision, At
<1>3. g.op = "judge" <=> g.review # 0
  BY <1>2 DEF LocalSound, DecideSound, AtReview, Describing, IsReview
<1>4. PICK pc \in {"schedule", "resolve"} :
        /\ pc = "schedule" <=> g.op = "judge"
        /\ h' = [h EXCEPT ![p] = [g EXCEPT !.revision = Len(jobs) + 1, !.pc = pc]]
  <2>1. PICK pc \in {"schedule", "resolve"} : pc = IF g.review # 0 THEN "schedule" ELSE "resolve"
    OBVIOUS
  <2>. QED BY <1>1, <1>3, <2>1 DEF CreateRevision, Become
<1>5. PICK l : l = [g EXCEPT !.revision = Len(jobs) + 1, !.pc = pc]
  OBVIOUS
<1>6. Alone(l)
  BY <1>2, <1>4, <1>5 DEF Locals, Alone, Stage, Describing, Resolving, Asking, Detours, Seeking,
     Starting, Judging
<1>. QED BY <1>1, <1>2, <1>4, <1>5, <1>6, AloneReads DEF CreateRevision

LEMMA ScheduleRevisionAlone ==
  ASSUME Inv, OneByOne, ~overlapped, NEW p \in Handlers, ScheduleRevision(p)
  PROVE  OneByOne'
<1>1. PICK g : g = h[p]
  OBVIOUS
<1>2. g \in Locals /\ g.pc = "schedule" /\ Alone(g)
  BY <1>1, Serves DEF Inv, ScheduleRevision, At
<1>3. PICK l : l = [g EXCEPT !.pc = "publish_decision"]
  OBVIOUS
<1>4. Alone(l)
  BY <1>2, <1>3 DEF Locals, Alone, Stage, Describing, Resolving, Asking, Detours, Seeking,
     Starting, Judging
<1>. QED BY <1>1, <1>2, <1>3, <1>4, AloneReads DEF ScheduleRevision, Goto

LEMMA SummarizeAlone ==
  ASSUME Inv, OneByOne, ~overlapped, NEW p \in Handlers, Summarize(p)
  PROVE  OneByOne'
<1>1. PICK g : g = h[p]
  OBVIOUS
<1>2. g \in Locals /\ g.pc = "summarize" /\ Alone(g)
  BY <1>1, Serves DEF Inv, Summarize, At
<1>3. PICK l : l = [g EXCEPT !.artifact = Len(artifacts) + 1, !.pc = "save_review"]
  OBVIOUS
<1>4. Alone(l)
  BY <1>2, <1>3 DEF Locals, Alone, Stage, Describing, Resolving, Asking, Detours, Seeking,
     Starting, Judging
<1>. QED BY <1>1, <1>2, <1>3, <1>4, AloneReads DEF Summarize, Become

LEMMA SaveReviewAlone ==
  ASSUME Inv, OneByOne, ~overlapped, NEW p \in Handlers, SaveReview(p)
  PROVE  OneByOne'
<1>1. PICK g : g = h[p]
  OBVIOUS
<1>2. /\ g \in Locals /\ LocalSound(g) /\ g.pc = "save_review" /\ Alone(g)
      /\ (\A q \in Handlers \ {p} : At(q, "idle")) /\ RunAgrees
  BY <1>1, Serves DEF Inv, SaveReview, At
<1>3. g.review \in DOMAIN reviews /\ g.op = "judge" /\ reviews[g.review].status = "requested"
  BY <1>2 DEF LocalSound, DecideSound, AtReview, Judging, Alone, IsReview
<1>4. /\ \A r \in DOMAIN reviews : r # g.review => reviews'[r] = reviews[r]
      /\ reviews'[g.review].status = ReviewVerdict(g.ok)
  <2>1. reviews \in Seq(ReviewRow) /\ g.row \in ReviewRow
    BY <1>2 DEF Inv, RowsOK, Locals
  <2>2. PICK row : row = [g.row EXCEPT !.status = ReviewVerdict(g.ok), !.summary = g.artifact,
                                       !.revision = g.revision]
    OBVIOUS
  <2>3. row.status = ReviewVerdict(g.ok)
    BY <2>1, <2>2 DEF ReviewRow
  <2>4. reviews' = [reviews EXCEPT ![g.review] = row]
    BY <1>1, <2>2 DEF SaveReview, UpdateReview
  <2>. QED BY <1>3, <2>1, <2>3, <2>4
<1>5. RunAgrees'
  BY <1>2, <1>3, <1>4, OpenIsNotSettled, ReviewElsewhere DEF SaveReview
<1>6. PICK l : l = [g EXCEPT !.pc = "find_gate"]
  OBVIOUS
<1>7. Alone(l)'
  BY <1>2, <1>3, <1>4, <1>6 DEF SaveReview, Locals, Alone, Pending, Stage, Describing, Resolving, Asking,
     Detours, Seeking, Starting, Judging, ReviewVerdict
<1>. QED BY <1>1, <1>2, <1>5, <1>6, <1>7, AloneMoves DEF SaveReview, Goto

LEMMA FindGateAlone ==
  ASSUME Inv, OneByOne, ~overlapped, NEW p \in Handlers, FindGate(p)
  PROVE  OneByOne'
<1>1. PICK g : g = h[p]
  OBVIOUS
<1>2. g \in Locals /\ LocalSound(g) /\ g.pc = "find_gate" /\ Alone(g)
  BY <1>1, Serves DEF Inv, FindGate, At
<1>3. CASE Return(p)
  BY <1>1, <1>2, <1>3, AloneReturns DEF FindGate
<1>4. CASE /\ Found(g) /\ ~AlreadyResolved
           /\ Become(p, Activated([g EXCEPT !.run = run, !.job = run.source],
                                  Target(g.ok), IF g.op = "judge" THEN "resolve" ELSE "decide"))
  <2>1. run.gateStatus = "pending" /\ run.pending # "none" /\ run \in RunRow
    <3>1. IF g.op = "judge" THEN g.review \in DOMAIN reviews ELSE g.approval \in DOMAIN approvals
      BY <1>2 DEF LocalSound, DecideSound, AtReview, AtApproval, IsReview
    <3>. QED BY <1>2, <1>4, <3>1, FoundIsPending DEF Inv, RowsOK
  <2>2. PICK key \in MaybePhase : key = Target(g.ok)
    BY <2>1 DEF Target, RunRow, MaybePhase, PhaseKeys
  <2>3. key = IF g.ok THEN run.pending ELSE run.failure
    BY <2>1, <2>2 DEF Target
  <2>4. PICK cont \in {"resolve", "decide"} : cont = IF g.op = "judge" THEN "resolve" ELSE "decide"
    OBVIOUS
  <2>5. PICK f : f = [[g EXCEPT !.run = run, !.job = run.source] EXCEPT !.target = key, !.cont = cont]
    OBVIOUS
  <2>6. f \in Locals
    <3>1. cont \in PCs /\ run.source \in Nat
      BY <2>1, <2>4 DEF PCs, RunRow
    <3>. QED BY <1>2, <2>1, <2>5, <3>1 DEF Locals
  <2>7. PICK l : l = [f EXCEPT !.pc = "find_phase"]
    OBVIOUS
  <2>8. PICK m : m = Seeded(f, "find_phase")
    OBVIOUS
  <2>9. m = l \/ Twin(l, m)
    BY <2>6, <2>7, <2>8, SeededIs
  <2>10. /\ l.pc = "find_phase" /\ l.cont = cont /\ l.run = run /\ l.target = key
         /\ l.op = g.op /\ l.ok = g.ok /\ l.review = g.review /\ l.approval = g.approval
    BY <1>2, <2>5, <2>7 DEF Locals
  <2>11. Alone(l)
    BY <1>2, <2>3, <2>4, <2>10 DEF Alone, Stage, Describing, Resolving, Asking, Detours, Seeking,
       Starting, Judging
  <2>12. Alone(m)
    BY <2>9, <2>11, TwinAlone
  <2>13. h' = [h EXCEPT ![p] = m]
    BY <1>4, <2>2, <2>4, <2>5, <2>8 DEF Become, Activated
  <2>. QED BY <1>1, <1>2, <2>12, <2>13, AloneReads DEF FindGate
<1>. QED BY <1>1, <1>3, <1>4 DEF FindGate

LEMMA DescribeDecisionAlone ==
  ASSUME Inv, OneByOne, ~overlapped, NEW p \in Handlers, DescribeDecision(p)
  PROVE  OneByOne'
<1>1. PICK g : g = h[p]
  OBVIOUS
<1>2. g \in Locals /\ LocalSound(g) /\ g.pc = "decide" /\ Alone(g)
  BY <1>1, Serves DEF Inv, DescribeDecision, At
<1>3. g.op # "judge"
  BY <1>2 DEF LocalSound, DecideSound, Describing, Stage, Detours, Seeking, Starting
<1>4. PICK pc \in {"resolve", "revise"} :
        h' = [h EXCEPT ![p] = [g EXCEPT !.artifact = Len(artifacts) + 1, !.pc = pc]]
  <2>1. PICK pc \in {"resolve", "revise"} : pc = IF g.ok THEN "resolve" ELSE "revise"
    OBVIOUS
  <2>. QED BY <1>1, <2>1 DEF DescribeDecision, Become
<1>5. PICK l : l = [g EXCEPT !.artifact = Len(artifacts) + 1, !.pc = pc]
  OBVIOUS
<1>6. Alone(l)
  BY <1>2, <1>3, <1>4, <1>5 DEF Locals, Alone, Stage, Describing, Resolving, Asking, Detours, Seeking,
     Starting, Judging
<1>. QED BY <1>1, <1>2, <1>4, <1>5, <1>6, AloneReads DEF DescribeDecision

\* A gate is resolved by the decision of its own review or approval.
LEMMA ResolvesByDecision ==
  ASSUME Inv, OneByOne, ~overlapped, NEW p \in Handlers, ResolveGate(p)
  PROVE  /\ Pending /\ run' = Resolved(run, h[p])
         /\ GateVerdict = IF h[p].ok THEN "approved" ELSE "rejected"
         /\ h[p].target = IF h[p].ok THEN run.pending ELSE run.failure
         /\ session.active = h[p].target
<1>1. PICK g : g = h[p]
  OBVIOUS
<1>2. g \in Locals /\ LocalSound(g) /\ g.pc = "resolve" /\ Alone(g)
  BY <1>1, Serves DEF Inv, ResolveGate, At
<1>3. Resolving(g)
  BY <1>2 DEF Resolving, Stage, Detours, Seeking, Starting
<1>4. /\ g.run = run /\ g.target = IF g.ok THEN run.pending ELSE run.failure
      /\ session.active = g.target
      /\ IF g.op = "judge" THEN reviews[g.review].status = ReviewVerdict(g.ok)
                           ELSE approvals[g.approval].status = Verdict(g.ok)
  BY <1>2, <1>3 DEF Alone
<1>5. /\ run.gateStatus = "pending"
      /\ IF g.op = "judge" THEN run.gate = "review_required" /\ run.review = g.review
                           ELSE run.gate = "approval_required" /\ run.approval = g.approval
  BY <1>2, <1>3, <1>4 DEF LocalSound, DecideSound
<1>6. GateVerdict = IF g.ok THEN "approved" ELSE "rejected"
  BY <1>4, <1>5 DEF GateVerdict, Verdicts, ReviewVerdict, Verdict
<1>. QED BY <1>1, <1>4, <1>5, <1>6 DEF Pending, ResolveGate, UpdateRun

LEMMA ResolveGateAlone ==
  ASSUME Inv, OneByOne, ~overlapped, NEW p \in Handlers, ResolveGate(p)
  PROVE  OneByOne'
<1>1. PICK l : l = Idle
  OBVIOUS
<1>2. Alone(l)'
  BY <1>1, IdleIs, IdleAlone
<1>3. h' = [h EXCEPT ![p] = l]
  BY <1>1 DEF ResolveGate, Return, Become
<1>4. \A q \in Handlers \ {p} : At(q, "idle")
  BY Serves DEF ResolveGate, At
<1>5. run \in RunRow /\ run' = Resolved(run, h[p])
  BY ResolvesByDecision DEF Inv, RowsOK
<1>6. run'.gateStatus = GateVerdict
  BY <1>5, ResolvesByDecision DEF Resolved, RunRow
<1>7. run'.gate = run.gate /\ run'.review = run.review /\ run'.approval = run.approval
  BY <1>5 DEF Resolved, RunRow
<1>8. GateVerdict' = GateVerdict
  BY <1>7 DEF ResolveGate, GateVerdict
<1>. QED BY <1>2, <1>3, <1>4, <1>6, <1>8, AloneMoves DEF RunAgrees

\* The requests of the clients.
LEMMA ClientAlone ==
  ASSUME Inv, OneByOne, ~overlapped', NEW p \in Handlers, Client(p)
  PROVE  OneByOne'
<1>1. CASE CreateSession(p) \/ \E key \in Activations : ActivateByHand(p, key)
  <2>1. PICK op \in {"create", "activate"}, key \in PresetKeys :
          Begin(p, op, Activated(Idle, key, "done")) /\ UNCHANGED <<run, reviews, approvals>>
    <3>1. CASE CreateSession(p)
      BY <3>1, PresetsAre DEF CreateSession
    <3>2. CASE \E key \in Activations : ActivateByHand(p, key)
      BY <3>2, OpsAssumption DEF ActivateByHand
    <3>. QED BY <1>1, <3>1, <3>2
  <2>2. PICK f : f = [Idle EXCEPT !.target = key, !.cont = "done"]
    OBVIOUS
  <2>3. f \in Locals
    BY <2>2, IdleIs DEF Locals, MaybePhase, PhaseKeys, PCs
  <2>4. PICK l : l = [f EXCEPT !.pc = "find_phase"]
    OBVIOUS
  <2>5. PICK m : m = Seeded(f, "find_phase")
    OBVIOUS
  <2>6. l \in Locals /\ m \in Locals /\ (m = l \/ Twin(l, m))
    BY <2>3, <2>4, <2>5, SeededIs
  <2>7. PICK n : n = [m EXCEPT !.op = op]
    OBVIOUS
  <2>8. n.pc \in {"find_phase", "seed"} /\ n.cont = "done"
    <3>1. l.cont = "done" /\ l.pc = "find_phase"
      BY <2>2, <2>3, <2>4, IdleIs DEF Locals
    <3>. QED BY <2>6, <2>7, <3>1 DEF Twin, Locals
  <2>9. Alone(n)'
    BY <2>8 DEF Alone, Stage, Describing, Resolving, Asking, Detours, Seeking, Starting, Judging
  <2>. QED BY <2>1, <2>2, <2>5, <2>7, <2>9, AloneBegins DEF Activated
<1>2. CASE StartRun(p)
  <2>1. PICK f : f = [Idle EXCEPT !.cont = "done"]
    OBVIOUS
  <2>2. f \in Locals
    BY <2>1, IdleIs DEF Locals, PCs
  <2>3. PICK l : l = [f EXCEPT !.pc = "read_phase"]
    OBVIOUS
  <2>4. PICK m : m = Seeded(f, "read_phase")
    OBVIOUS
  <2>5. l \in Locals /\ m \in Locals /\ (m = l \/ Twin(l, m))
    BY <2>2, <2>3, <2>4, SeededIs
  <2>6. PICK n : n = [m EXCEPT !.op = "start"]
    OBVIOUS
  <2>7. n.pc \in {"read_phase", "seed"} /\ n.cont = "done"
    <3>1. l.cont = "done" /\ l.pc = "read_phase"
      BY <2>1, <2>2, <2>3, IdleIs DEF Locals
    <3>. QED BY <2>5, <2>6, <3>1 DEF Twin, Locals
  <2>8. Alone(n)'
    BY <2>7 DEF Alone, Stage, Describing, Resolving, Asking, Detours, Seeking, Starting, Judging
  <2>. QED BY <1>2, <2>1, <2>4, <2>6, <2>8, AloneBegins DEF StartRun, Started
<1>3. CASE \E key \in SuccessPhases : RequestGate(p, 1, key)
  <2>1. PICK key \in SuccessPhases, gate \in {"review_required", "approval_required"},
             cont \in {"check_review", "evaluate"}, op \in {"review_gate", "approval_gate"} :
          /\ ~Pending /\ UNCHANGED <<session, run, reviews, approvals>>
          /\ Begin(p, op, Started([Idle EXCEPT !.gate = gate, !.job = 1, !.succ = key], cont))
    BY <1>3 DEF RequestGate, RequestReviewGate, RequestApprovalGate, GateAllowed, Pending
  <2>2. PICK e : e = [Idle EXCEPT !.gate = gate, !.job = 1, !.succ = key]
    OBVIOUS
  <2>3. PICK f : f = [e EXCEPT !.cont = cont]
    OBVIOUS
  <2>4. f \in Locals
    <3>1. e \in Locals
      <4>1. key \in SuccessPhases \union {"none"} /\ 1 \in Nat
            /\ gate \in {"none", "review_required", "approval_required"}
        OBVIOUS
      <4>. QED BY <2>2, <4>1, IdleIs DEF Locals
    <3>2. cont \in PCs
      BY DEF PCs, Asking
    <3>. QED BY <2>3, <3>1, <3>2 DEF Locals
  <2>5. PICK l : l = [f EXCEPT !.pc = "read_phase"]
    OBVIOUS
  <2>6. PICK m : m = Seeded(f, "read_phase")
    OBVIOUS
  <2>7. l \in Locals /\ m \in Locals /\ (m = l \/ Twin(l, m))
    BY <2>4, <2>5, <2>6, SeededIs
  <2>8. PICK n : n = [m EXCEPT !.op = op]
    OBVIOUS
  <2>9. n.pc \in {"read_phase", "seed"} /\ n.cont \in {"check_review", "evaluate"}
    <3>1. l.cont = cont /\ l.pc = "read_phase"
      BY <2>3, <2>4, <2>5 DEF Locals
    <3>. QED BY <2>7, <2>8, <3>1 DEF Twin, Locals
  <2>10. Alone(n)
    BY <2>1, <2>9 DEF Alone, Stage, Describing, Resolving, Asking, Detours, Seeking, Starting, Judging
  <2>11. Alone(n)'
    BY <2>1, <2>10, AloneKept
  <2>. QED BY <2>1, <2>2, <2>3, <2>6, <2>8, <2>11, AloneBegins DEF Started
<1>4. CASE ReadSession(p, "edit") \/ ReadSession(p, "pause")
  <2>1. PICK op \in {"edit", "pause"} : ReadSession(p, op)
    BY <1>4
  <2>2. PICK f : f = [Idle EXCEPT !.pc = op, !.sess = session]
    OBVIOUS
  <2>3. PICK l : l = [f EXCEPT !.op = op]
    OBVIOUS
  <2>4. l.pc = op /\ l.sess = session
    BY <2>2, <2>3 DEF Idle
  <2>5. Alone(l)
    BY <2>4 DEF Alone, Stage, Describing, Resolving, Asking, Detours, Seeking, Starting, Judging
  <2>6. Alone(l)'
    BY <2>1, <2>5, AloneKept DEF ReadSession
  <2>. QED BY <2>1, <2>2, <2>3, <2>6, AloneBegins DEF ReadSession
<1>5. CASE RequestReview(p, 1)
  <2>1. PICK f : f = [Idle EXCEPT !.pc = "check_review", !.job = 1]
    OBVIOUS
  <2>2. PICK l : l = [f EXCEPT !.op = "request_review"]
    OBVIOUS
  <2>3. l.pc = "check_review" /\ l.op = "request_review"
    BY <2>1, <2>2 DEF Idle
  <2>4. Alone(l)'
    BY <2>3 DEF Alone, Stage, Describing, Resolving, Asking, Detours, Seeking, Starting, Judging
  <2>. QED BY <1>5, <2>1, <2>2, <2>4, AloneBegins DEF RequestReview
<1>6. CASE \E a \in DOMAIN approvals, ok \in BOOLEAN : DecideApproval(p, a, ok)
  <2>1. PICK a \in DOMAIN approvals, ok \in BOOLEAN : DecideApproval(p, a, ok)
    BY <1>6
  <2>2. PICK f : f = [Idle EXCEPT !.pc = "save_approval", !.approval = a, !.ok = ok]
    OBVIOUS
  <2>3. PICK l : l = [f EXCEPT !.op = "decide"]
    OBVIOUS
  <2>4. l.pc = "save_approval" /\ l.approval = a
    BY <2>2, <2>3 DEF Idle
  <2>5. Alone(l)
    BY <2>1, <2>4 DEF DecideApproval, Alone, Stage, Describing, Resolving, Asking, Detours, Seeking,
       Starting, Judging
  <2>6. Alone(l)'
    BY <2>1, <2>5, AloneKept DEF DecideApproval
  <2>. QED BY <2>1, <2>2, <2>3, <2>6, AloneBegins DEF DecideApproval
<1>7. CASE \E r \in DOMAIN reviews, ok \in BOOLEAN : JudgeReview(p, r, ok)
  <2>1. PICK r \in DOMAIN reviews, ok \in BOOLEAN : JudgeReview(p, r, ok)
    BY <1>7
  <2>2. PICK row : row = reviews[r]
    OBVIOUS
  <2>3. PICK f : f = [Idle EXCEPT !.review = r, !.ok = ok, !.row = row, !.job = row.job]
    OBVIOUS
  <2>4. CASE /\ row.status = "requested"
             /\ Begin(p, "judge", [f EXCEPT !.sess = session, !.pc = IF ok THEN "publish_decision" ELSE "revise"])
    <3>1. PICK pc \in {"publish_decision", "revise"} : pc = IF ok THEN "publish_decision" ELSE "revise"
      OBVIOUS
    <3>2. PICK g : g = [f EXCEPT !.sess = session, !.pc = pc]
      OBVIOUS
    <3>3. PICK l : l = [g EXCEPT !.op = "judge"]
      OBVIOUS
    <3>4. l.pc = pc /\ l.op = "judge" /\ l.sess = session /\ l.review = r
      BY <2>3, <3>2, <3>3 DEF Idle
    <3>5. Alone(l)
      BY <2>2, <2>4, <3>4 DEF Alone, Stage, Describing, Resolving, Asking, Detours, Seeking,
         Starting, Judging
    <3>6. Alone(l)'
      BY <2>1, <3>5, AloneKept DEF JudgeReview
    <3>. QED BY <2>1, <2>4, <3>1, <3>2, <3>3, <3>6, AloneBegins DEF JudgeReview
  <2>5. CASE /\ row.status = ReviewVerdict(ok)
             /\ Begin(p, "judge", [f EXCEPT !.pc = "find_gate", !.artifact = row.summary, !.revision = row.revision])
    <3>1. PICK g : g = [f EXCEPT !.pc = "find_gate", !.artifact = row.summary, !.revision = row.revision]
      OBVIOUS
    <3>2. PICK l : l = [g EXCEPT !.op = "judge"]
      OBVIOUS
    <3>3. l.pc = "find_gate" /\ l.op = "judge" /\ l.review = r /\ l.ok = ok
      BY <2>3, <3>1, <3>2 DEF Idle
    <3>4. Alone(l)
      BY <2>2, <2>5, <3>3 DEF Alone, Stage, Describing, Resolving, Asking, Detours, Seeking,
         Starting, Judging
    <3>5. Alone(l)'
      BY <2>1, <3>4, AloneKept DEF JudgeReview
    <3>. QED BY <2>1, <2>5, <3>1, <3>2, <3>5, AloneBegins DEF JudgeReview
  <2>. QED BY <2>1, <2>2, <2>3, <2>4, <2>5 DEF JudgeReview
<1>8. CASE \E i \in DOMAIN Policies :
             \E row \in {PauseAutomation(i), ResumeAutomation(i), ActivatePolicy(i), DeactivatePolicy(i)} :
               ReadPolicy(p, i, row)
  <2>1. PICK i, flag : ReadPolicy(p, i, flag)
    BY <1>8
  <2>2. PICK f : f = [Idle EXCEPT !.pc = "control", !.policy = i, !.flag = flag]
    OBVIOUS
  <2>3. PICK l : l = [f EXCEPT !.op = "control"]
    OBVIOUS
  <2>4. l.pc = "control"
    BY <2>2, <2>3 DEF Idle
  <2>5. Alone(l)'
    BY <2>4 DEF Alone, Stage, Describing, Resolving, Asking, Detours, Seeking, Starting, Judging
  <2>. QED BY <2>1, <2>2, <2>3, <2>5, AloneBegins DEF ReadPolicy
<1>. QED BY <1>1, <1>2, <1>3, <1>4, <1>5, <1>6, <1>7, <1>8 DEF Client

LEMMA ServerAlone ==
  ASSUME Inv, OneByOne, ~overlapped, NEW p \in Handlers, Server(p)
  PROVE  OneByOne'
<1>1. CASE \/ SeedOne(p) \/ FindPhase(p) \/ SetPhase(p) \/ Done(p)
           \/ EditSession(p) \/ PauseSession(p) \/ SavePolicy(p)
           \/ ReadPhase(p) \/ ReadRun(p) \/ SaveRun(p)
  BY <1>1, SeedOneAlone, FindPhaseAlone, SetPhaseAlone, LastWriteAlone, ReadPhaseAlone, ReadRunAlone,
     SaveRunAlone
<1>2. CASE \/ EvaluateGate(p) \/ CheckReview(p) \/ CreateReview(p)
           \/ Publish(p, "publish_request", "link_request") \/ LinkRequest(p)
           \/ CreateHandoff(p) \/ CreateApproval(p) \/ Describe(p) \/ RecordGate(p)
  BY <1>2, EvaluateGateAlone, CheckReviewAlone, CreateReviewAlone, PublishAlone, LinkRequestAlone,
     CreateHandoffAlone, CreateApprovalAlone, DescribeAlone, RecordGateAlone
<1>3. CASE \/ ReadApproval(p) \/ SaveApproval(p) \/ MoveHandoff(p)
           \/ CreateRevision(p) \/ ScheduleRevision(p)
           \/ Publish(p, "publish_decision", "summarize") \/ Summarize(p) \/ SaveReview(p)
           \/ FindGate(p) \/ DescribeDecision(p) \/ ResolveGate(p)
  BY <1>3, ReadApprovalAlone, SaveApprovalAlone, HandoffMovedAlone, CreateRevisionAlone,
     ScheduleRevisionAlone, PublishAlone, SummarizeAlone, SaveReviewAlone, FindGateAlone,
     DescribeDecisionAlone, ResolveGateAlone
<1>. QED BY <1>1, <1>2, <1>3 DEF Server

\* No step of the server, and no crash, begins a request.
LEMMA OverlapBegins ==
  ASSUME Next, NEW p, p \in Handlers
  PROVE  /\ Server(p) \/ Crash => overlapped' = overlapped
         /\ Client(p) => (overlapped => overlapped')
<1>1. Crash => overlapped' = overlapped
  BY DEF Crash
<1>2. Server(p) => overlapped' = overlapped
  BY DEF Server, SeedOne, FindPhase, SetPhase, Done, EditSession, PauseSession, SavePolicy, ReadPhase,
     ReadRun, SaveRun, EvaluateGate, CheckReview, CreateReview, Publish, LinkRequest, CreateHandoff,
     CreateApproval, Describe, RecordGate, ReadApproval, SaveApproval, MoveHandoff, CreateRevision,
     ScheduleRevision, Summarize, SaveReview, FindGate, DescribeDecision, ResolveGate, ghosts
<1>3. Client(p) => (overlapped => overlapped')
  BY DEF Client, CreateSession, StartRun, ActivateByHand, ReadSession, RequestGate, RequestReviewGate,
     RequestApprovalGate, RequestReview, DecideApproval, JudgeReview, ReadPolicy, Begin
<1>. QED BY <1>1, <1>2, <1>3

LEMMA CrashAlone ==
  ASSUME Inv, OneByOne, ~overlapped, Crash
  PROVE  OneByOne'
<1>1. \A q \in Handlers : h'[q] = Idle /\ Idle.pc = "idle"
  BY IdleIs DEF Crash
<1>2. ASSUME NEW q \in Handlers PROVE Alone(h[q])'
  <2>1. PICK m : m = Idle
    OBVIOUS
  <2>2. h'[q] = m /\ m.pc = "idle"
    BY <1>1, <2>1
  <2>. QED BY <2>2, IdleAlone, AloneAfter
<1>3. RunAgrees'
  BY AgreesKept DEF OneByOne, RunAgrees, Crash
<1>4. \A q \in Handlers : Alone(h[q])'
  BY <1>2
<1>5. \A q, r \in Handlers : q # r => At(q, "idle")' \/ At(r, "idle")'
  BY <1>1 DEF At
<1>. QED BY <1>3, <1>4, <1>5 DEF OneByOne, RunAgrees

LEMMA InitAlone == Init => OneByOne
<1>1. ASSUME Init, NEW q \in Handlers PROVE Alone(h[q]) /\ At(q, "idle")
  BY <1>1, IdleIs, IdleAlone DEF Init, At
<1>2. Init => ~Settled
  BY DEF Init, NoRun, Settled
<1>. QED BY <1>1, <1>2 DEF OneByOne

LEMMA StutterAlone ==
  ASSUME Inv, OneByOne, UNCHANGED vars
  PROVE  OneByOne'
BY DEF vars, OneByOne, Alone, At, Settled, Pending, GateVerdict, Stage, Describing, Resolving

LEMMA NextAlone == Inv /\ OneByOne /\ [Next]_vars => OneByOne'
<1>. SUFFICES ASSUME Inv, OneByOne, [Next]_vars PROVE OneByOne'
  OBVIOUS
<1>1. CASE overlapped'
  BY <1>1 DEF OneByOne
<1>2. CASE UNCHANGED vars
  BY <1>2, StutterAlone
<1>3. CASE ~overlapped' /\ Crash
  BY <1>3, CrashAlone DEF Crash
<1>4. ASSUME ~overlapped', NEW p \in Handlers, Next, Client(p) PROVE OneByOne'
  BY <1>4, ClientAlone
<1>5. ASSUME ~overlapped', NEW p \in Handlers, Next, Server(p) PROVE OneByOne'
  BY <1>5, ServerAlone, OverlapBegins
<1>. QED BY <1>1, <1>2, <1>3, <1>4, <1>5 DEF Next

LEMMA AloneInvariance == Spec => [](Inv /\ OneByOne)
BY InitHolds, NextKeeps, InitAlone, NextAlone, PTL DEF Spec

\* Requests served one at a time, whatever they are and wherever the process
\* crashes: a settled run says what its reviewer or its approver said.
THEOREM DecisionsAgree == Spec => []DecisionAgrees
<1>1. OneByOne => DecisionAgrees
  BY DEF OneByOne, DecisionAgrees
<1>. QED BY <1>1, AloneInvariance, PTL

\* Which steps write the run, and which the session row.
LEMMA RunWriters ==
  ASSUME Next, run' # run
  PROVE  \E p \in Handlers : SaveRun(p) \/ RecordGate(p) \/ ResolveGate(p)
<1>1. ~Crash
  BY DEF Crash
<1>2. ASSUME NEW p \in Handlers PROVE ~Client(p)
  BY DEF Client, CreateSession, StartRun, ActivateByHand, ReadSession, RequestGate, RequestReview,
     DecideApproval, JudgeReview, ReadPolicy
<1>3. ASSUME NEW p \in Handlers, Server(p) PROVE SaveRun(p) \/ RecordGate(p) \/ ResolveGate(p)
  BY <1>3 DEF Server, SeedOne, FindPhase, SetPhase, Done, EditSession, PauseSession, SavePolicy, ReadPhase,
     ReadRun, EvaluateGate, CheckReview, CreateReview, Publish, LinkRequest, CreateHandoff,
     CreateApproval, Describe, ReadApproval, SaveApproval, MoveHandoff, CreateRevision,
     ScheduleRevision, Summarize, SaveReview, FindGate, DescribeDecision
<1>. QED BY <1>1, <1>2, <1>3 DEF Next

LEMMA SessionWriters ==
  ASSUME Next, session' # session
  PROVE  \E p \in Handlers :
           \/ CreateSession(p) \/ SetPhase(p) \/ EditSession(p) \/ PauseSession(p)
           \/ Publish(p, "publish_request", "link_request") \/ Publish(p, "publish_decision", "summarize")
<1>1. ~Crash
  BY DEF Crash
<1>2. ASSUME NEW p \in Handlers, Client(p) PROVE CreateSession(p)
  BY <1>2 DEF Client, StartRun, ActivateByHand, ReadSession, RequestGate, RequestReview,
     DecideApproval, JudgeReview, ReadPolicy
<1>3. ASSUME NEW p \in Handlers, Server(p)
      PROVE  \/ SetPhase(p) \/ EditSession(p) \/ PauseSession(p)
             \/ Publish(p, "publish_request", "link_request") \/ Publish(p, "publish_decision", "summarize")
  BY <1>3 DEF Server, SeedOne, FindPhase, Done, SavePolicy, ReadPhase, SaveRun, RecordGate, ResolveGate,
     ReadRun, EvaluateGate, CheckReview, CreateReview, LinkRequest, CreateHandoff,
     CreateApproval, Describe, ReadApproval, SaveApproval, MoveHandoff, CreateRevision,
     ScheduleRevision, Summarize, SaveReview, FindGate, DescribeDecision
<1>. QED BY <1>1, <1>2, <1>3 DEF Next

\* Requests served one at a time: a run that waits at a gate changes only by its
\* own decision, into the phase that decision leads to, and the session is in it.
THEOREM GatesReleasedByDecision == Spec => GateReleasedByDecision
<1>1. Inv /\ OneByOne /\ [Next]_vars =>
        [Pending /\ run' # run /\ ~overlapped =>
           /\ run'.gateStatus = GateVerdict
           /\ run'.phase = IF GateVerdict = "approved" THEN run.pending ELSE run.failure
           /\ session.active = run'.phase]_vars
  <2>1. ASSUME Inv, OneByOne, Next, Pending, run' # run, ~overlapped
        PROVE  /\ run'.gateStatus = GateVerdict
               /\ run'.phase = IF GateVerdict = "approved" THEN run.pending ELSE run.failure
               /\ session.active = run'.phase
    <3>1. PICK p \in Handlers : SaveRun(p) \/ RecordGate(p) \/ ResolveGate(p)
      BY <2>1, RunWriters
    <3>2. ~SaveRun(p)
      <4>1. SaveRun(p) => h[p].pc = "save_run" /\ Alone(h[p])
        BY <2>1, Serves DEF SaveRun, At
      <4>. QED BY <2>1, <4>1 DEF Alone
    <3>3. ~RecordGate(p)
      BY <2>1, RecordsFree
    <3>4. /\ run' = Resolved(run, h[p]) /\ GateVerdict = (IF h[p].ok THEN "approved" ELSE "rejected")
          /\ h[p].target = IF h[p].ok THEN run.pending ELSE run.failure
          /\ session.active = h[p].target
      BY <2>1, <3>1, <3>2, <3>3, ResolvesByDecision
    <3>5. run'.phase = h[p].target /\ run'.gateStatus = IF h[p].ok THEN "approved" ELSE "rejected"
      BY <2>1, <3>4 DEF Resolved, RunRow, Inv, RowsOK
    <3>. QED BY <3>4, <3>5
  <2>. QED BY <2>1
<1>. QED BY <1>1, AloneInvariance, PTL DEF Spec, GateReleasedByDecision

\* Requests served one at a time: the phase, the guard and the title of the
\* session change by a phase change, a pause and an edit only, although every
\* review message writes the whole row back.
THEOREM SessionFieldsStay == Spec => SessionFieldsKept
<1>1. Inv /\ OneByOne /\ [Next]_vars =>
        [session.exists /\ ~overlapped /\ session' # session =>
           \E p \in Handlers :
             /\ session'.active # session.active => h[p].pc = "set_phase"
             /\ session'.guard # session.guard => h[p].op = "pause"
             /\ session'.title # session.title => h[p].op = "edit"]_vars
  <2>1. ASSUME Inv, OneByOne, Next, session.exists, ~overlapped, session' # session
        PROVE  \E p \in Handlers :
                 /\ session'.active # session.active => h[p].pc = "set_phase"
                 /\ session'.guard # session.guard => h[p].op = "pause"
                 /\ session'.title # session.title => h[p].op = "edit"
    <3>1. PICK p \in Handlers :
           \/ CreateSession(p) \/ SetPhase(p) \/ EditSession(p) \/ PauseSession(p)
           \/ Publish(p, "publish_request", "link_request") \/ Publish(p, "publish_decision", "summarize")
      BY <2>1, SessionWriters
    <3>2. session \in SessionRow /\ LocalSound(h[p])
      BY <2>1 DEF Inv, RowsOK
    <3>3. CASE CreateSession(p)
      BY <2>1, <3>3 DEF CreateSession
    <3>4. CASE Publish(p, "publish_request", "link_request") \/ Publish(p, "publish_decision", "summarize")
      BY <2>1, <3>4, PublishAlone
    <3>5. CASE SetPhase(p)
      <4>1. h[p].pc = "set_phase" /\ h[p].sess = session
        BY <2>1, <3>5, Serves DEF SetPhase, At, Alone
      <4>. QED BY <3>2, <3>5, <4>1 DEF SetPhase, UpdateSession, SessionRow
    <3>6. CASE EditSession(p)
      <4>1. h[p].op = "edit" /\ h[p].sess = session
        BY <2>1, <3>2, <3>6, Serves DEF EditSession, At, Alone, LocalSound, WaySound
      <4>. QED BY <3>2, <3>6, <4>1 DEF EditSession, UpdateSession, SessionRow
    <3>7. CASE PauseSession(p)
      <4>1. h[p].op = "pause" /\ h[p].sess = session
        BY <2>1, <3>2, <3>7, Serves DEF PauseSession, At, Alone, LocalSound, WaySound
      <4>. QED BY <3>2, <3>7, <4>1 DEF PauseSession, UpdateSession, SessionRow
    <3>. QED BY <3>1, <3>3, <3>4, <3>5, <3>6, <3>7
  <2>. QED BY <2>1
<1>. QED BY <1>1, AloneInvariance, PTL DEF Spec, SessionFieldsKept

----------------------------------------------------------------------------
(* The revision of a review *)

\* A review whose revision is scheduled asks for changes, or is about to.
Kept(r) == r \in DOMAIN reviews /\ (reviews[r].status = "changes_requested" \/ \E p \in Handlers : Making(h[p], r))

LEMMA RevisedKept ==
  ASSUME Revised, ~overlapped, crashes = 0,
         \A j, r : Scheduled(j, r)' => Scheduled(j, r), \A r \in Nat : Kept(r) => Kept(r)'
  PROVE  Revised'
<1>1. ASSUME NEW r \in Nat, NEW j, NEW k, Scheduled(j, r)', Scheduled(k, r)'
      PROVE  j = k /\ Kept(r)'
  <2>1. Scheduled(j, r) /\ Scheduled(k, r) /\ j \in DOMAIN jobs /\ k \in DOMAIN jobs
    BY <1>1 DEF Scheduled
  <2>2. j = k /\ Kept(r)
    BY <2>1 DEF Revised, Kept
  <2>. QED BY <2>2
<1>. QED BY <1>1 DEF Revised, Kept

LEMMA NothingScheduled ==
  ASSUME Inv,
         \/ UNCHANGED jobs
         \/ \E kind, parent, of : jobs' = Append(jobs, NewJob(kind, parent, of))
         \/ \E i, status : jobs' = [jobs EXCEPT ![i].status = status]
  PROVE  \A j, r : Scheduled(j, r)' => Scheduled(j, r)
<1>1. jobs \in Seq(JobRow)
  BY DEF Inv, RowsOK
<1>2. CASE UNCHANGED jobs
  BY <1>2 DEF Scheduled
<1>3. CASE \E kind, parent, of : jobs' = Append(jobs, NewJob(kind, parent, of))
  <2>1. PICK row : jobs' = Append(jobs, row) /\ ~row.scheduled
    BY <1>3 DEF NewJob
  <2>2. PICK n \in Nat : n = Len(jobs)
    BY <1>1
  <2>3. /\ DOMAIN jobs' = 1 .. n + 1 /\ DOMAIN jobs = 1 .. n
        /\ jobs'[n + 1] = row /\ \A j \in DOMAIN jobs : jobs'[j] = jobs[j]
    BY <1>1, <2>1, <2>2
  <2>4. \A j \in 1 .. n + 1 : j \in 1 .. n \/ j = n + 1
    OBVIOUS
  <2>. QED BY <2>1, <2>3, <2>4 DEF Scheduled
<1>4. CASE \E i, status : jobs' = [jobs EXCEPT ![i].status = status]
  <2>1. PICK i, status : jobs' = [jobs EXCEPT ![i].status = status]
    BY <1>4
  <2>2. PICK row : row = [jobs[i] EXCEPT !.status = status]
    OBVIOUS
  <2>3. jobs' = [jobs EXCEPT ![i] = row]
    BY <2>1, <2>2
  <2>4. i \in DOMAIN jobs => /\ row.kind = jobs[i].kind /\ row.of = jobs[i].of
                             /\ row.scheduled = jobs[i].scheduled
    <3>1. i \in DOMAIN jobs => jobs[i] \in JobRow
      BY <1>1
    <3>. QED BY <2>2, <3>1 DEF JobRow
  <2>. QED BY <1>1, <2>3, <2>4 DEF Scheduled
<1>. QED BY <1>2, <1>3, <1>4

\* A handler that is not between the schedule and the decision makes none.
LEMMA KeptOtherwise ==
  ASSUME NEW p \in Handlers, \A q \in Handlers \ {p} : At(q, "idle"),
         h[p].pc \notin {"publish_decision", "summarize", "save_review"},
         \A r \in DOMAIN reviews : /\ r \in DOMAIN reviews'
                                   /\ reviews[r].status = "changes_requested" => reviews'[r].status = reviews[r].status
  PROVE  \A r : Kept(r) => Kept(r)'
<1>1. \A q \in Handlers : h[q].pc \notin Judging \ {"schedule"}
  BY DEF At, Judging
<1>2. \A r : Kept(r) => r \in DOMAIN reviews /\ reviews[r].status = "changes_requested"
  BY <1>1 DEF Kept, Making
<1>. QED BY <1>2 DEF Kept

\* The handler that makes one goes on to make it.
LEMMA KeptMaking ==
  ASSUME Inv, NEW p \in Handlers, NEW l, h' = [h EXCEPT ![p] = l], UNCHANGED reviews,
         \A r : Making(h[p], r) => Making(l, r)
  PROVE  \A r : Kept(r) => Kept(r)'
<1>1. h \in [Handlers -> Locals]
  BY DEF Inv
<1>2. ASSUME NEW r, NEW q \in Handlers, Making(h[q], r) PROVE Making(h'[q], r)
  BY <1>1, <1>2
<1>3. ASSUME NEW r, Kept(r) PROVE Kept(r)'
  <2>1. CASE reviews[r].status = "changes_requested"
    BY <1>3, <2>1 DEF Kept
  <2>2. CASE \E q \in Handlers : Making(h[q], r)
    <3>1. PICK q \in Handlers : Making(h'[q], r)
      BY <1>2, <2>2
    <3>2. Making(h[q], r)'
      BY <3>1 DEF Making
    <3>. QED BY <1>3, <3>2 DEF Kept
  <2>. QED BY <1>3, <2>1, <2>2 DEF Kept
<1>. QED BY <1>3

LEMMA ScheduleRevised ==
  ASSUME Inv, OneByOne, Revised, ~overlapped, crashes = 0, NEW p \in Handlers, ScheduleRevision(p)
  PROVE  Revised'
<1>1. PICK g : g = h[p]
  OBVIOUS
<1>2. /\ g \in Locals /\ LocalSound(g) /\ g.pc = "schedule" /\ Alone(g) /\ jobs \in Seq(JobRow)
      /\ \A q \in Handlers \ {p} : At(q, "idle")
  BY <1>1, Serves DEF Inv, RowsOK, ScheduleRevision, At
<1>3. /\ g.review \in DOMAIN reviews /\ reviews[g.review].status = "requested" /\ ~g.ok
      /\ g.revision \in DOMAIN jobs /\ jobs[g.revision].of = g.review
  BY <1>2 DEF LocalSound, DecideSound, AtReview, Judging, Alone, IsReview, IsRevision
<1>4. \A q \in Handlers : \A r : ~Making(h[q], r)
  BY <1>1, <1>2 DEF At, Making, Judging
<1>5. \A j : ~Scheduled(j, g.review)
  <2>1. g.review \in Nat
    BY <1>2 DEF Locals
  <2>. QED BY <1>3, <1>4, <2>1 DEF Revised, Scheduled
<1>6. PICK row : row = [jobs[g.revision] EXCEPT !.scheduled = TRUE]
  OBVIOUS
<1>7. jobs' = [jobs EXCEPT ![g.revision] = row] /\ row.of = g.review
  BY <1>1, <1>2, <1>3, <1>6 DEF ScheduleRevision, JobRow
<1>8. /\ \A j \in DOMAIN jobs : j # g.revision => jobs'[j] = jobs[j]
      /\ DOMAIN jobs' = DOMAIN jobs /\ jobs'[g.revision].of = g.review
  BY <1>2, <1>3, <1>7
<1>9. ASSUME NEW j, NEW r, Scheduled(j, r)'
      PROVE  (r = g.review /\ j = g.revision) \/ (r # g.review /\ Scheduled(j, r))
  <2>1. CASE j = g.revision
    BY <1>8, <1>9, <2>1 DEF Scheduled
  <2>2. CASE j # g.revision
    BY <1>5, <1>8, <1>9, <2>2 DEF Scheduled
  <2>. QED BY <2>1, <2>2
<1>10. Making(h[p], g.review)'
  <2>1. PICK l : l = [g EXCEPT !.pc = "publish_decision"]
    OBVIOUS
  <2>2. l.pc = "publish_decision" /\ l.review = g.review /\ ~l.ok
    BY <1>2, <1>3, <2>1 DEF Locals
  <2>3. h'[p] = l
    BY <1>1, <2>1 DEF ScheduleRevision, Goto, Inv
  <2>. QED BY <2>2, <2>3 DEF Making, Judging
<1>11. UNCHANGED reviews
  BY DEF ScheduleRevision
<1>12. ASSUME NEW r \in Nat, NEW j, NEW k, Scheduled(j, r)', Scheduled(k, r)'
       PROVE  j = k /\ Kept(r)'
  <2>1. CASE r = g.review
    BY <1>3, <1>9, <1>10, <1>11, <1>12, <2>1 DEF Kept
  <2>2. CASE r # g.review
    <3>1. Scheduled(j, r) /\ Scheduled(k, r) /\ j \in DOMAIN jobs /\ k \in DOMAIN jobs
      BY <1>9, <1>12, <2>2 DEF Scheduled
    <3>2. j = k /\ r \in DOMAIN reviews /\ reviews[r].status = "changes_requested"
      BY <1>4, <3>1 DEF Revised
    <3>. QED BY <1>11, <3>2 DEF Kept
  <2>. QED BY <2>1, <2>2
<1>. QED BY <1>12 DEF Revised, Kept

LEMMA SaveRevised ==
  ASSUME Inv, OneByOne, Revised, ~overlapped, crashes = 0, NEW p \in Handlers, SaveReview(p)
  PROVE  Revised'
<1>1. PICK g : g = h[p]
  OBVIOUS
<1>2. /\ g \in Locals /\ LocalSound(g) /\ g.pc = "save_review" /\ Alone(g)
      /\ \A q \in Handlers \ {p} : At(q, "idle")
  BY <1>1, Serves DEF Inv, SaveReview, At
<1>3. g.review \in DOMAIN reviews /\ reviews[g.review].status = "requested"
  BY <1>2 DEF LocalSound, DecideSound, AtReview, Judging, Alone, IsReview
<1>4. /\ \A r \in DOMAIN reviews : r # g.review => reviews'[r] = reviews[r]
      /\ reviews'[g.review].status = ReviewVerdict(g.ok) /\ DOMAIN reviews' = DOMAIN reviews
  <2>1. reviews \in Seq(ReviewRow) /\ g.row \in ReviewRow
    BY <1>2 DEF Inv, RowsOK, Locals
  <2>2. PICK row : row = [g.row EXCEPT !.status = ReviewVerdict(g.ok), !.summary = g.artifact,
                                       !.revision = g.revision]
    OBVIOUS
  <2>3. row.status = ReviewVerdict(g.ok)
    BY <2>1, <2>2 DEF ReviewRow
  <2>4. reviews' = [reviews EXCEPT ![g.review] = row]
    BY <1>1, <2>2 DEF SaveReview, UpdateReview
  <2>. QED BY <1>3, <2>1, <2>3, <2>4
<1>5. \A q \in Handlers : \A r : Making(h[q], r) => r = g.review /\ ~g.ok
  BY <1>1, <1>2 DEF At, Making, Judging
<1>6. \A r : Kept(r) => Kept(r)'
  BY <1>3, <1>4, <1>5 DEF Kept, ReviewVerdict
<1>7. \A j, r : Scheduled(j, r)' => Scheduled(j, r)
  BY NothingScheduled DEF SaveReview
<1>. QED BY <1>6, <1>7, RevisedKept

LEMMA ServerRevised ==
  ASSUME Inv, OneByOne, Revised, ~overlapped, crashes = 0, NEW p \in Handlers, Server(p)
  PROVE  Revised'
<1>1. PICK g : g = h[p]
  OBVIOUS
<1>2. g \in Locals /\ LocalSound(g)
  BY <1>1 DEF Inv
<1>3. ASSUME g.pc # "idle" PROVE \A q \in Handlers \ {p} : At(q, "idle")
  BY <1>1, <1>3, Serves
<1>4. CASE \/ SeedOne(p) \/ FindPhase(p) \/ SetPhase(p) \/ Done(p)
           \/ EditSession(p) \/ PauseSession(p) \/ SavePolicy(p)
           \/ ReadPhase(p) \/ ReadRun(p) \/ SaveRun(p)
           \/ EvaluateGate(p) \/ CheckReview(p) \/ Publish(p, "publish_request", "link_request")
           \/ CreateApproval(p) \/ Describe(p) \/ RecordGate(p)
           \/ ReadApproval(p) \/ SaveApproval(p)
           \/ FindGate(p) \/ DescribeDecision(p) \/ ResolveGate(p)
  <2>1. /\ g.pc \notin {"idle", "publish_decision", "summarize", "save_review"}
        /\ UNCHANGED <<reviews, jobs>>
    BY <1>1, <1>4 DEF SeedOne, FindPhase, SetPhase, Done, EditSession, PauseSession, SavePolicy, ReadPhase,
       ReadRun, SaveRun, EvaluateGate, CheckReview, Publish, CreateApproval, Describe, RecordGate,
       ReadApproval, SaveApproval, FindGate, DescribeDecision, ResolveGate, At
  <2>. QED BY <1>1, <1>3, <2>1, NothingScheduled, KeptOtherwise, RevisedKept
<1>5. CASE CreateHandoff(p) \/ CreateRevision(p) \/ MoveHandoff(p)
  <2>1. g.pc \in {"handoff", "revise", "move_handoff"} /\ UNCHANGED reviews
    BY <1>1, <1>5 DEF CreateHandoff, CreateRevision, MoveHandoff, At
  <2>2. \A j, r : Scheduled(j, r)' => Scheduled(j, r)
    BY <1>5, NothingScheduled DEF CreateHandoff, CreateRevision, MoveHandoff, InsertJob, UpdateJob
  <2>3. \A r : Kept(r) => Kept(r)'
    BY <1>1, <1>3, <2>1, KeptOtherwise
  <2>. QED BY <2>2, <2>3, RevisedKept
<1>6. CASE CreateReview(p)
  <2>1. g.pc = "create_review" /\ UNCHANGED jobs
    BY <1>1, <1>6 DEF CreateReview, At
  <2>2. \A r \in DOMAIN reviews : r \in DOMAIN reviews' /\ reviews'[r] = reviews[r]
    <3>1. reviews \in Seq(ReviewRow)
      BY DEF Inv, RowsOK
    <3>2. PICK row : reviews' = Append(reviews, row)
      BY <1>6 DEF CreateReview, InsertReview
    <3>. QED BY <3>1, <3>2
  <2>3. \A r : Kept(r) => Kept(r)'
    BY <1>1, <1>3, <2>1, <2>2, KeptOtherwise
  <2>. QED BY <2>1, <2>3, NothingScheduled, RevisedKept
<1>7. CASE LinkRequest(p)
  <2>1. g.pc = "link_request" /\ UNCHANGED jobs /\ Alone(g)
    BY <1>1, <1>7, Serves DEF LinkRequest, At
  <2>2. reviews[g.review].status = "requested"
    BY <2>1 DEF Alone
  <2>3. /\ DOMAIN reviews' = DOMAIN reviews
        /\ \A r \in DOMAIN reviews : r # g.review => reviews'[r] = reviews[r]
    BY <1>1, <1>7 DEF LinkRequest, UpdateReview, Inv, RowsOK
  <2>4. \A r : Kept(r) => Kept(r)'
    BY <1>1, <1>3, <2>1, <2>2, <2>3, KeptOtherwise
  <2>. QED BY <2>1, <2>4, NothingScheduled, RevisedKept
<1>8. CASE Publish(p, "publish_decision", "summarize") \/ Summarize(p)
  <2>1. PICK l :
          /\ \/ l = [g EXCEPT !.pc = "summarize"]
             \/ l = [g EXCEPT !.artifact = Len(artifacts) + 1, !.pc = "save_review"]
          /\ h' = [h EXCEPT ![p] = l]
    BY <1>1, <1>8 DEF Publish, Summarize, Goto, Become
  <2>2. l.review = g.review /\ l.ok = g.ok /\ l.pc \in {"summarize", "save_review"}
    BY <1>2, <2>1 DEF Locals
  <2>3. \A r : Making(h[p], r) => Making(l, r)
    BY <1>1, <2>2 DEF Making, Judging
  <2>4. \A r : Kept(r) => Kept(r)'
    BY <1>8, <2>1, <2>3, KeptMaking DEF Publish, Summarize
  <2>. QED BY <1>8, <2>4, NothingScheduled, RevisedKept DEF Publish, Summarize
<1>9. CASE ScheduleRevision(p)
  BY <1>9, ScheduleRevised
<1>10. CASE SaveReview(p)
  BY <1>10, SaveRevised
<1>. QED BY <1>4, <1>5, <1>6, <1>7, <1>8, <1>9, <1>10 DEF Server

LEMMA ClientRevised ==
  ASSUME Inv, Revised, ~overlapped, ~overlapped', crashes = 0, NEW p \in Handlers, Client(p)
  PROVE  Revised'
<1>1. UNCHANGED <<reviews, jobs>> /\ At(p, "idle") /\ \A q \in Handlers \ {p} : At(q, "idle")
  BY DEF Client, CreateSession, StartRun, ActivateByHand, ReadSession, RequestGate, RequestReviewGate,
     RequestApprovalGate, RequestReview, DecideApproval, JudgeReview, ReadPolicy, Begin
<1>2. \A r : Kept(r) => Kept(r)'
  BY <1>1, KeptOtherwise DEF At
<1>. QED BY <1>1, <1>2, NothingScheduled, RevisedKept

LEMMA NextRevised == Inv /\ Inv' /\ OneByOne /\ Revised /\ [Next]_vars => Revised'
<1>. SUFFICES ASSUME Inv, Inv', OneByOne, Revised, [Next]_vars PROVE Revised'
  OBVIOUS
<1>1. CASE overlapped' \/ crashes' # 0
  BY <1>1 DEF Revised
<1>2. CASE UNCHANGED vars
  BY <1>2 DEF vars, Revised, Scheduled, Making
<1>3. CASE Crash
  <2>1. crashes' # 0
    BY <1>3 DEF Crash, Inv, CountsOK
  <2>. QED BY <1>1, <2>1
<1>4. ASSUME ~overlapped', crashes' = 0, NEW p \in Handlers, Next, Client(p) PROVE Revised'
  <2>1. ~overlapped /\ crashes = 0
    <3>1. crashes' = crashes
      BY <1>4 DEF Client, CreateSession, StartRun, ActivateByHand, ReadSession, RequestGate,
         RequestReviewGate, RequestApprovalGate, RequestReview, DecideApproval, JudgeReview, ReadPolicy, Begin
    <3>. QED BY <1>4, <3>1, OverlapBegins
  <2>. QED BY <1>4, <2>1, ClientRevised
<1>5. ASSUME ~overlapped', crashes' = 0, NEW p \in Handlers, Next, Server(p) PROVE Revised'
  <2>1. ~overlapped /\ crashes = 0
    <3>1. crashes' = crashes
      BY <1>5 DEF Server, SeedOne, FindPhase, SetPhase, Done, EditSession, PauseSession, SavePolicy, ReadPhase,
         ReadRun, SaveRun, EvaluateGate, CheckReview, CreateReview, Publish, LinkRequest, CreateHandoff,
         CreateApproval, Describe, RecordGate, ReadApproval, SaveApproval, MoveHandoff, CreateRevision,
         ScheduleRevision, Summarize, SaveReview, FindGate, DescribeDecision, ResolveGate, ghosts
    <3>. QED BY <1>5, <3>1, OverlapBegins
  <2>. QED BY <1>5, <2>1, ServerRevised
<1>. QED BY <1>1, <1>2, <1>3, <1>4, <1>5 DEF Next

\* Requests served one at a time, without a crash: a review that asks for
\* changes has one revision, however often its decision is submitted.
THEOREM RevisedOnce == Spec => []RevisionOnce
<1>1. Init => Revised
  BY DEF Init, NewJob, Revised, Scheduled
<1>2. Inv /\ Revised => RevisionOnce
  <2>. SUFFICES ASSUME Inv, Revised, ~overlapped, crashes = 0, NEW r \in DOMAIN reviews
                PROVE  Cardinality({j \in DOMAIN jobs : /\ jobs[j].kind = "revision" /\ jobs[j].of = r
                                                        /\ jobs[j].scheduled}) <= 1
    BY DEF RevisionOnce
  <2>1. PICK made : made = {j \in DOMAIN jobs : /\ jobs[j].kind = "revision" /\ jobs[j].of = r
                                                /\ jobs[j].scheduled}
    OBVIOUS
  <2>2. r \in Nat
    BY DEF Inv, RowsOK
  <2>3. \A j, k \in made : j = k
    BY <2>1, <2>2 DEF Revised, Scheduled
  <2>4. CASE made = {}
    BY <2>1, <2>4, FS_EmptySet
  <2>5. CASE made # {}
    <3>1. PICK j : made = {j}
      BY <2>3, <2>5
    <3>. QED BY <2>1, <3>1, FS_Singleton
  <2>. QED BY <2>4, <2>5
<1>3. Spec => []Revised
  BY <1>1, InitHolds, NextKeeps, InitAlone, NextAlone, NextRevised, PTL DEF Spec
<1>. QED BY <1>2, <1>3, Invariance, PTL
=============================================================================
