---------------------------- MODULE JobLifecycle ----------------------------
(***************************************************************************)
(* The life of the jobs of one session: HTTP requests (create, retry,      *)
(* resume, cancel, input, approval decisions, heartbeats) and the durable  *)
(* runtime supervisor read and write the same SQLite rows.                 *)
(*                                                                         *)
(* Every repository call of the program opens its own connection, commits, *)
(* and is awaited, so a request is a sequence of steps between which other *)
(* requests run.  A request works on the row it read at its start (`snap`) *)
(* and writes a WHOLE row back, whatever has been written in between.      *)
(* One step of this module is one repository call, or one call of the      *)
(* Codex bridge; consecutive reads are one step where no other step can    *)
(* tell the difference.                                                    *)
(***************************************************************************)
EXTENDS Integers, Sequences, FiniteSets

CONSTANTS
  Jobs,            \* the jobs clients may create in the session
  Agents,          \* the agents of the session
  AgentOf,         \* AgentOf[j] is the assigned_agent_id of job j
  Requesters,      \* the concurrent HTTP requests the server is running
  Sweepers,        \* the tasks that run supervisor sweeps
  None,            \* "no job"
  MaxRelayEdges,   \* max_relay_edges_per_agent
  RecoveryEnabled, \* runtime_recovery_enabled
  Ops,             \* what clients and the environment do, a subset of AllOps
  Answers,         \* the turn statuses Codex answers with
  MaxTurns,        \* bound: turns Codex accepts before it refuses
  MaxThreads,      \* bound: threads Codex accepts before it refuses
  MaxCrashes       \* bound: process crashes

Procs == Requesters \union Sweepers

Asked == {"input_required", "auth_required"}
TurnStatuses == {"running", "completed"} \union Asked

AllOps == {"create", "retry", "resume", "interrupt", "compact", "cancel",
           "input", "answer", "decide", "heartbeat", "offline", "stale",
           "hold", "reroute", "abort", "crash"}

ASSUME AgentsAssumption == AgentOf \in [Jobs -> Agents] /\ None \notin Jobs
ASSUME ProcsAssumption == IsFiniteSet(Procs) /\ Procs # {}
ASSUME LimitAssumption == MaxRelayEdges \in Nat \ {0}
ASSUME BoundsAssumption ==
  /\ {MaxTurns, MaxThreads, MaxCrashes} \subseteq Nat
  /\ RecoveryEnabled \in BOOLEAN
  /\ Ops \subseteq AllOps
  /\ Answers \subseteq TurnStatuses

VARIABLES
  jobs,        \* the jobs table: a row per job
  paused,      \* sessions.loop_guard_status = "paused"
  edges,       \* relay_edges: the number of edges that target each agent
  approvals,   \* approval_requests, in the order they were created
  threads,     \* Codex: the agent each thread was started for
  turns,       \* Codex: the turns it accepted, with the status it answered
  mapping,     \* ThreadMappingStore (in memory): the agent's thread, or 0
  online,      \* the agent's runtime is in a dispatchable status
  serving,     \* the startup sweep is over and the server takes requests
  crashes,     \* how often the process crashed
  h            \* the requests and sweeps in progress: their local variables

vars == <<jobs, paused, edges, approvals, threads, turns, mapping, online,
          serving, crashes, h>>

----------------------------------------------------------------------------
(* Rows and local variables *)

JobStatuses == {"absent", "queued", "canceled", "paused_by_loop_guard"}
               \union TurnStatuses
RETRYABLE_JOB_STATUSES == {"failed", "canceled", "paused_by_loop_guard"}
\* Mutant: a canceled job may be resumed as well as retried.
ResumableWithCanceled == {"queued", "canceled", "paused_by_loop_guard"}
                         \union Asked
RESUMABLE_JOB_STATUSES == {"queued", "paused_by_loop_guard"} \union Asked
Terminal == {"canceled", "completed", "failed"}
CANCELABLE_JOB_STATUSES ==
  {"queued", "running", "paused_by_loop_guard"} \union Asked
\* Mutant: a running job is taken for one that needs no thread.
NotRehydratedRunning ==
  Terminal \union {"paused_by_loop_guard", "running"}
NotRehydrated == Terminal \union {"paused_by_loop_guard"}

\* last_known_turn_status, as far as a guard reads it
Markers == {"none", "retry_requested", "resumed", "interrupted", "other"}

Rows == [status : JobStatuses, marker : Markers, thread : Nat, turn : Nat]

NoRow == [status |-> "absent", marker |-> "none", thread |-> 0, turn |-> 0]

Mark(row, status, marker) ==
  [row EXCEPT !.status = status, !.marker = marker]

Idle == [pc |-> "idle", op |-> "none", job |-> None, snap |-> NoRow,
         saw |-> FALSE, thread |-> 0, turn |-> 0, approval |-> 0,
         accept |-> FALSE, route |-> None, found |-> {}, agents |-> {},
         todo |-> {}]

At(p, pc) == h[p].pc = pc

\* Sweeps execute one job after another; any other request ends.
Over(l) == IF l.op \in {"sweep", "heartbeat"}
             THEN [Idle EXCEPT !.pc = "next", !.op = l.op, !.todo = l.todo]
             ELSE Idle

Goto(p, pc) == h' = [h EXCEPT ![p].pc = pc]
Return(p) == h' = [h EXCEPT ![p] = Over(@)]

\* A client's request that read job j and goes on at pc with that row.
Begin(p, op, j, pc) ==
  /\ op \in Ops /\ serving /\ p \in Requesters /\ At(p, "idle")
  /\ h' = [h EXCEPT ![p] = [Idle EXCEPT !.pc = pc, !.op = op, !.job = j,
                                        !.snap = jobs[j]]]

\* The local row of handler p, written back whole, then on to pc.
Write(p, row) == jobs' = [jobs EXCEPT ![h[p].job] = row]

codex == <<threads, turns>>
session == <<paused, edges>>
process == <<mapping, serving, crashes>>

Init ==
  /\ jobs = [j \in Jobs |-> NoRow]
  /\ paused = FALSE
  /\ edges = [a \in Agents |-> 0]
  /\ approvals = <<>> /\ threads = <<>> /\ turns = <<>>
  /\ mapping = [a \in Agents |-> 0]
  /\ online \in [Agents -> BOOLEAN]
  /\ serving = TRUE
  /\ crashes = 0
  /\ h = [p \in Procs |-> Idle]
----------------------------------------------------------------------------
(* schedule_job: record the input, consult the rules, run if online *)

CreateJob(p, j) ==
  /\ jobs[j] = NoRow
  /\ Begin(p, "create", j, "schedule")
  /\ jobs' = [jobs EXCEPT ![j] = Mark(NoRow, "queued", "none")]
  /\ UNCHANGED <<session, approvals, codex, process, online>>

ScheduleRead(p) ==
  /\ At(p, "schedule")
  /\ h' = [h EXCEPT ![p].pc = "policy", ![p].snap = jobs[h[p].job]]
  /\ UNCHANGED <<jobs, session, approvals, codex, process, online>>

\* A rule moves the job to another channel: the whole row is written back.
Reroute(p) ==
  /\ At(p, "policy") /\ "reroute" \in Ops
  /\ Write(p, h[p].snap)
  /\ Goto(p, "routed")
  /\ UNCHANGED <<session, approvals, codex, process, online>>

\* A review_required or approval_escalation rule holds the job back.
Hold(p) ==
  /\ h[p].pc \in {"policy", "routed"} /\ "hold" \in Ops
  /\ Write(p, Mark(h[p].snap, "input_required", "other"))
  /\ Return(p)
  /\ UNCHANGED <<session, approvals, codex, process, online>>

CheckRuntime(p) ==
  /\ h[p].pc \in {"policy", "routed"}
  /\ IF online[AgentOf[h[p].job]] THEN Goto(p, "execute") ELSE Return(p)
  /\ UNCHANGED <<jobs, session, approvals, codex, process, online>>

----------------------------------------------------------------------------
(* execute_job: loop guard, thread, turn, commit, approval, relay *)

ExecuteRead(p) ==
  /\ At(p, "execute")
  /\ h' = [h EXCEPT ![p].pc = "evaluate", ![p].snap = jobs[h[p].job]]
  /\ UNCHANGED <<jobs, session, approvals, codex, process, online>>

\* Mutant: the relay about to start is not counted against the limit.
EvaluateLate(p) ==
  /\ At(p, "evaluate")
  /\ h' = [h EXCEPT ![p].saw = paused,
                    ![p].pc = IF edges[AgentOf[h[p].job]] >= MaxRelayEdges
                                THEN "pauseJob" ELSE "thread"]
  /\ UNCHANGED <<jobs, session, approvals, codex, process, online>>

\* The session row is read with the edges (edges only grow, so reading them
\* this early lets no relay through that the code would stop).
Evaluate(p) ==
  /\ At(p, "evaluate")
  /\ h' = [h EXCEPT ![p].saw = paused,
                    ![p].pc = IF edges[AgentOf[h[p].job]] + 1 >= MaxRelayEdges
                                THEN "pauseJob" ELSE "thread"]
  /\ UNCHANGED <<jobs, session, approvals, codex, process, online>>

PauseJob(p) ==
  /\ At(p, "pauseJob")
  /\ Write(p, Mark(h[p].snap, "paused_by_loop_guard", "other"))
  /\ Goto(p, "pauseSession")
  /\ UNCHANGED <<session, approvals, codex, process, online>>

PauseSession(p) ==
  /\ At(p, "pauseSession")
  /\ paused' = TRUE
  /\ Return(p)
  /\ UNCHANGED <<jobs, edges, approvals, codex, process, online>>

\* Mutant: the thread of any agent of the session will do.
LookupAnyThread(p) ==
  /\ At(p, "thread")
  /\ LET ts == {mapping[a] : a \in Agents} \ {0}
     IN h' = [h EXCEPT ![p].pc = IF ts # {} THEN "resumeThread"
                                            ELSE "startThread",
                      ![p].thread = IF ts # {} THEN CHOOSE t \in ts : TRUE
                                               ELSE 0]
  /\ UNCHANGED <<jobs, session, approvals, codex, process, online>>

LookupThread(p) ==
  /\ At(p, "thread")
  /\ LET t == mapping[AgentOf[h[p].job]]
     IN h' = [h EXCEPT ![p].pc = IF t # 0 THEN "resumeThread"
                                          ELSE "startThread",
                      ![p].thread = t]
  /\ UNCHANGED <<jobs, session, approvals, codex, process, online>>

ResumeThread(p) ==
  /\ At(p, "resumeThread")
  /\ mapping' = [mapping EXCEPT ![AgentOf[h[p].job]] = h[p].thread]
  /\ Goto(p, "turn")
  /\ UNCHANGED <<jobs, session, approvals, codex, online, serving, crashes>>

StartThread(p) ==
  /\ At(p, "startThread") /\ Len(threads) < MaxThreads
  /\ LET a == AgentOf[h[p].job]
         t == Len(threads) + 1
     IN /\ threads' = Append(threads, a)
        /\ mapping' = [mapping EXCEPT ![a] = t]
        /\ h' = [h EXCEPT ![p].pc = "turn", ![p].thread = t]
  /\ UNCHANGED <<jobs, session, approvals, turns, online, serving, crashes>>

\* Codex answers turn/start with the status the turn has reached.
StartTurn(p, status) ==
  /\ At(p, "turn") /\ Len(turns) < MaxTurns
  /\ turns' = Append(turns, [job |-> h[p].job, thread |-> h[p].thread,
                             status |-> status])
  /\ h' = [h EXCEPT ![p].pc = "commit", ![p].turn = Len(turns) + 1]
  /\ UNCHANGED <<jobs, session, approvals, threads, process, online>>

\* Mutant: the thread is taken from the store again once the turn is over.
TurnRowMappedThread(p) ==
  [h[p].snap EXCEPT !.status = turns[h[p].turn].status, !.marker = "other",
                    !.thread = mapping[AgentOf[h[p].job]], !.turn = h[p].turn]

\* Mutant: the row keeps the turn it has.
TurnRowOldTurn(p) ==
  [h[p].snap EXCEPT !.status = turns[h[p].turn].status, !.marker = "other",
                    !.thread = h[p].thread,
                    !.turn = IF @ = 0 THEN h[p].turn ELSE @]

\* The row after a turn: the row read before it, with what the turn changed.
TurnRow(p) ==
  [h[p].snap EXCEPT !.status = turns[h[p].turn].status, !.marker = "other",
                    !.thread = h[p].thread, !.turn = h[p].turn]

\* Mutant: only a turn that asks for authorisation gets an approval request.
CommitTurnAuthOnly(p) ==
  /\ At(p, "commit")
  /\ Write(p, TurnRow(p))
  /\ Goto(p, IF turns[h[p].turn].status = "auth_required" THEN "approval"
                                                          ELSE "publish")
  /\ UNCHANGED <<session, approvals, codex, process, online>>

CommitTurn(p) ==
  /\ At(p, "commit")
  /\ Write(p, TurnRow(p))
  /\ Goto(p, IF turns[h[p].turn].status \in Asked THEN "approval"
                                                  ELSE "publish")
  /\ UNCHANGED <<session, approvals, codex, process, online>>

RequestApproval(p) ==
  /\ At(p, "approval")
  /\ approvals' = Append(approvals, [job |-> h[p].job, turn |-> h[p].turn,
                                     status |-> "pending"])
  /\ Goto(p, "publish")
  /\ UNCHANGED <<jobs, session, codex, process, online>>

\* The output message updates the session row read before the turn.
Publish(p) ==
  /\ At(p, "publish")
  /\ paused' = h[p].saw
  /\ Goto(p, "edge")
  /\ UNCHANGED <<jobs, edges, approvals, codex, process, online>>

RecordEdge(p) ==
  /\ At(p, "edge")
  /\ edges' = [edges EXCEPT ![AgentOf[h[p].job]] = @ + 1]
  /\ Return(p)
  /\ UNCHANGED <<jobs, paused, approvals, codex, process, online>>

----------------------------------------------------------------------------
(* Requests about a job that exists *)

Retry(p, j) ==
  /\ jobs[j].status \in RETRYABLE_JOB_STATUSES
  /\ Begin(p, "retry", j, "requeue")
  /\ UNCHANGED <<jobs, session, approvals, codex, process, online>>

Resume(p, j) ==
  /\ jobs[j].status \in RESUMABLE_JOB_STATUSES
  /\ ~(jobs[j].status = "queued" /\ jobs[j].marker = "resumed")
  /\ Begin(p, "resume", j, "requeue")
  /\ UNCHANGED <<jobs, session, approvals, codex, process, online>>

Requeue(p) ==
  /\ At(p, "requeue")
  /\ Write(p, Mark(h[p].snap, "queued", IF h[p].op = "retry"
                                          THEN "retry_requested"
                                          ELSE "resumed"))
  /\ Goto(p, "schedule")
  /\ UNCHANGED <<session, approvals, codex, process, online>>

Interruptible(row) ==
  row.status \notin Terminal /\ row.marker # "interrupted"

Interrupt(p, j) ==
  /\ jobs[j] # NoRow /\ Interruptible(jobs[j])
  /\ Begin(p, "interrupt", j, "signal")
  /\ UNCHANGED <<jobs, session, approvals, codex, process, online>>

Compact(p, j) ==
  /\ jobs[j] # NoRow
  /\ Begin(p, "compact", j, "signal")
  /\ UNCHANGED <<jobs, session, approvals, codex, process, online>>

\* The operator's cancel interrupts a running job and writes any other one.
OperatorCancel(p, j) ==
  /\ jobs[j].status \in CANCELABLE_JOB_STATUSES
  /\ Begin(p, "cancel", j, IF jobs[j].status = "running"
                             THEN "reread" ELSE "cancel")
  /\ UNCHANGED <<jobs, session, approvals, codex, process, online>>

HasThread(row, a) == row.thread # 0 \/ mapping[a] # 0

\* interrupt_job reads the row again; without a thread it raises, and the
\* operator's cancel falls back on the row it read first.
Reread(p) ==
  LET row == jobs[h[p].job]
  IN /\ At(p, "reread")
     /\ \/ /\ ~Interruptible(row)
           /\ Return(p)
        \/ /\ Interruptible(row) /\ ~HasThread(row, AgentOf[h[p].job])
           /\ Goto(p, "cancel")
        \/ /\ Interruptible(row) /\ HasThread(row, AgentOf[h[p].job])
           /\ h' = [h EXCEPT ![p].pc = "signal", ![p].snap = row]
     /\ UNCHANGED <<jobs, session, approvals, codex, process, online>>

\* turn/interrupt or thread/compact/start on the job's or the agent's thread
Signal(p) ==
  /\ At(p, "signal")
  /\ IF HasThread(h[p].snap, AgentOf[h[p].job])
       THEN Goto(p, IF h[p].op = "compact" THEN "compacted" ELSE "interrupted")
       ELSE Return(p)
  /\ UNCHANGED <<jobs, session, approvals, codex, process, online>>

WriteInterrupted(p) ==
  /\ At(p, "interrupted")
  /\ Write(p, Mark(h[p].snap, "canceled", "interrupted"))
  /\ Return(p)
  /\ UNCHANGED <<session, approvals, codex, process, online>>

WriteCompacted(p) ==
  /\ At(p, "compacted")
  /\ Write(p, Mark(h[p].snap, h[p].snap.status, "other"))
  /\ Return(p)
  /\ UNCHANGED <<session, approvals, codex, process, online>>

CancelDirectly(p) ==
  /\ At(p, "cancel")
  /\ Write(p, Mark(h[p].snap, "canceled", "other"))
  /\ Return(p)
  /\ UNCHANGED <<session, approvals, codex, process, online>>

ProvideInput(p, j) ==
  /\ jobs[j] # NoRow
  /\ Begin(p, "input", j, "input")
  /\ UNCHANGED <<jobs, session, approvals, codex, process, online>>

TakeInput(p) ==
  LET asked == h[p].snap.status \in Asked
  IN /\ At(p, "input")
     /\ Write(p, Mark(h[p].snap, IF asked THEN "queued" ELSE h[p].snap.status,
                      "other"))
     /\ IF asked THEN Goto(p, "schedule") ELSE Return(p)
     /\ UNCHANGED <<session, approvals, codex, process, online>>

----------------------------------------------------------------------------
(* Approval decisions *)

\* Both entries end in _resolve; /input names the job it will schedule.
StartDecision(p, op, i, accept, route) ==
  /\ op \in Ops /\ serving /\ p \in Requesters /\ At(p, "idle")
  /\ approvals[i].status = "pending"
  /\ h' = [h EXCEPT ![p] = [Idle EXCEPT !.pc = "resolve", !.op = op,
              !.job = approvals[i].job, !.approval = i, !.accept = accept,
              !.route = route]]
  /\ UNCHANGED <<jobs, session, approvals, codex, process, online>>

DecideApproval(p, i, accept) == StartDecision(p, "decide", i, accept, None)

AnswerApproval(p, i, j) ==
  jobs[j] # NoRow /\ StartDecision(p, "answer", i, TRUE, j)

ResolveApproval(p) ==
  /\ At(p, "resolve")
  /\ approvals' = [approvals EXCEPT ![h[p].approval].status =
                     IF h[p].accept THEN "accepted" ELSE "declined"]
  /\ Goto(p, "readDecided")
  /\ UNCHANGED <<jobs, session, codex, process, online>>

ReadDecided(p) ==
  /\ At(p, "readDecided")
  /\ h' = [h EXCEPT ![p].pc = "decided", ![p].snap = jobs[h[p].job]]
  /\ UNCHANGED <<jobs, session, approvals, codex, process, online>>

\* Mutant: the decision itself becomes the status of the job.
DecidedStatusRaw(status, accept) == IF accept THEN "accepted" ELSE "canceled"

DecidedStatus(status, accept) ==
  IF ~accept THEN "canceled"
  ELSE IF status = "input_required" THEN "queued" ELSE "running"

WriteDecided(p) ==
  /\ At(p, "decided")
  /\ Write(p, Mark(h[p].snap, DecidedStatus(h[p].snap.status, h[p].accept),
                   "other"))
  /\ IF h[p].route = None THEN Return(p)
       ELSE h' = [h EXCEPT ![p] = [Idle EXCEPT !.pc = "schedule",
                                     !.op = "answer", !.job = h[p].route]]
  /\ UNCHANGED <<session, approvals, codex, process, online>>

----------------------------------------------------------------------------
(* Heartbeats, supervisor sweeps and restart *)

Heartbeat(p, a) ==
  /\ "heartbeat" \in Ops /\ serving /\ p \in Requesters /\ At(p, "idle")
  /\ online' = [online EXCEPT ![a] = TRUE]
  /\ h' = [h EXCEPT ![p] = [Idle EXCEPT !.pc = "listAgents",
                              !.op = "heartbeat", !.agents = {a}]]
  /\ UNCHANGED <<jobs, session, approvals, codex, process>>

\* A heartbeat that reports the runtime offline dispatches nothing.
GoOffline(a) ==
  /\ "offline" \in Ops /\ serving /\ online[a]
  /\ online' = [online EXCEPT ![a] = FALSE]
  /\ UNCHANGED <<jobs, session, approvals, codex, process, h>>

Sweeping == [Idle EXCEPT !.pc = "stale", !.op = "sweep", !.agents = Agents]

BeginSweep(p) ==
  /\ p \in Sweepers /\ At(p, "idle") /\ RecoveryEnabled /\ serving
  /\ h' = [h EXCEPT ![p] = Sweeping]
  /\ UNCHANGED <<jobs, session, approvals, codex, process, online>>

\* Which runtimes have an old heartbeat is the clock's choice.
MarkStale(p, a) ==
  /\ At(p, "stale") /\ "stale" \in Ops /\ online[a]
  /\ online' = [online EXCEPT ![a] = FALSE]
  /\ UNCHANGED <<jobs, session, approvals, codex, process, h>>

ListMapped(p) ==
  /\ At(p, "stale")
  /\ h' = [h EXCEPT ![p].pc = "rehydrate", ![p].found =
             {<<AgentOf[j], jobs[j].thread>> : j \in
               {k \in Jobs : /\ jobs[k].thread # 0
                             /\ jobs[k].status \notin NotRehydrated}}]
  /\ UNCHANGED <<jobs, session, approvals, codex, process, online>>

Rehydrate(p) ==
  /\ At(p, "rehydrate")
  /\ \E m \in h[p].found :
       /\ mapping' = [mapping EXCEPT ![m[1]] = m[2]]
       /\ h' = [h EXCEPT ![p].found = @ \ {m}]
  /\ UNCHANGED <<jobs, session, approvals, codex, online, serving, crashes>>

\* Mutant: the sweep ends with the mappings and replays no queued job.
EndRehydrateOnly(p) ==
  /\ At(p, "rehydrate") /\ h[p].found = {}
  /\ Goto(p, "next")
  /\ UNCHANGED <<jobs, session, approvals, codex, process, online>>

EndRehydrate(p) ==
  /\ At(p, "rehydrate") /\ h[p].found = {}
  /\ Goto(p, IF RecoveryEnabled THEN "listAgents" ELSE "next")
  /\ UNCHANGED <<jobs, session, approvals, codex, process, online>>

ListAgents(p) ==
  /\ At(p, "listAgents")
  /\ h' = [h EXCEPT ![p].pc = "listJobs",
                    ![p].agents = {a \in @ : online[a]}]
  /\ UNCHANGED <<jobs, session, approvals, codex, process, online>>

\* Mutant: every job that has not ended is listed.
ListUnfinished(p) ==
  /\ At(p, "listJobs")
  /\ h' = [h EXCEPT ![p].pc = "next", ![p].agents = {}, ![p].todo =
             {j \in Jobs : /\ jobs[j].status \notin Terminal \union {"absent"}
                           /\ AgentOf[j] \in h[p].agents}]
  /\ UNCHANGED <<jobs, session, approvals, codex, process, online>>

ListQueued(p) ==
  /\ At(p, "listJobs")
  /\ h' = [h EXCEPT ![p].pc = "next", ![p].agents = {}, ![p].todo =
             {j \in Jobs : /\ jobs[j].status = "queued"
                           /\ AgentOf[j] \in h[p].agents}]
  /\ UNCHANGED <<jobs, session, approvals, codex, process, online>>

\* The listed job is executed as listed: its status is not read again.
TakeNext(p) ==
  /\ At(p, "next")
  /\ \E j \in h[p].todo :
       h' = [h EXCEPT ![p].pc = "execute", ![p].job = j,
                      ![p].todo = @ \ {j}]
  /\ UNCHANGED <<jobs, session, approvals, codex, process, online>>

EndSweep(p) ==
  /\ At(p, "next") /\ h[p].todo = {}
  /\ h' = [h EXCEPT ![p] = Idle]
  /\ serving' = TRUE
  /\ UNCHANGED <<jobs, session, approvals, codex, mapping, crashes, online>>

----------------------------------------------------------------------------
(* Failures *)

Executing == {"execute", "evaluate", "pauseJob", "pauseSession", "thread",
              "resumeThread", "startThread", "turn", "commit", "approval",
              "publish", "edge"}

BridgeRefuses(p) == \/ At(p, "startThread") /\ Len(threads) = MaxThreads
                    \/ At(p, "turn") /\ Len(turns) = MaxTurns

\* A repository or bridge call raises.  Sweeps skip to their next job when
\* that happens inside execute_job; the startup sweep does not survive
\* anything else (that is a Crash).
Abort(p) ==
  /\ ~At(p, "idle") /\ ("abort" \in Ops \/ BridgeRefuses(p))
  /\ \/ h[p].pc \in Executing /\ Return(p)
     \/ /\ h[p].pc \notin Executing /\ serving
        /\ ~(At(p, "next") /\ h[p].op = "heartbeat")
        /\ h' = [h EXCEPT ![p] = Idle]
  /\ UNCHANGED <<jobs, session, approvals, codex, process, online>>

\* The process dies with its requests and its memory, and starts again with
\* a sweep before it serves.
Crash ==
  /\ "crash" \in Ops /\ crashes < MaxCrashes
  /\ crashes' = crashes + 1
  /\ serving' = FALSE
  /\ mapping' = [a \in Agents |-> 0]
  /\ h' = [p \in Procs |-> IF p \in Sweepers THEN Sweeping ELSE Idle]
  /\ UNCHANGED <<jobs, session, approvals, codex, online>>

----------------------------------------------------------------------------
(* The specification *)

ScheduleStep(p) ==
  ScheduleRead(p) \/ Reroute(p) \/ Hold(p) \/ CheckRuntime(p)

ExecuteStep(p) ==
  \/ ExecuteRead(p) \/ Evaluate(p) \/ PauseJob(p) \/ PauseSession(p)
  \/ LookupThread(p) \/ ResumeThread(p) \/ StartThread(p)
  \/ \E status \in Answers : StartTurn(p, status)
  \/ CommitTurn(p) \/ RequestApproval(p) \/ Publish(p) \/ RecordEdge(p)

ControlStep(p) ==
  \/ Requeue(p) \/ Reread(p) \/ Signal(p) \/ WriteInterrupted(p)
  \/ WriteCompacted(p) \/ CancelDirectly(p) \/ TakeInput(p)
  \/ ResolveApproval(p) \/ ReadDecided(p) \/ WriteDecided(p)

SweepStep(p) ==
  \/ ListMapped(p) \/ Rehydrate(p) \/ EndRehydrate(p) \/ ListAgents(p)
  \/ ListQueued(p) \/ TakeNext(p) \/ EndSweep(p)

\* What a handler does once it runs
Step(p) == ScheduleStep(p) \/ ExecuteStep(p) \/ ControlStep(p) \/ SweepStep(p)

Request(p) ==
  \/ \E j \in Jobs : \/ CreateJob(p, j) \/ Retry(p, j) \/ Resume(p, j)
                     \/ Interrupt(p, j) \/ Compact(p, j)
                     \/ OperatorCancel(p, j) \/ ProvideInput(p, j)
  \/ \E i \in 1..Len(approvals) :
       \/ \E accept \in BOOLEAN : DecideApproval(p, i, accept)
       \/ \E j \in Jobs : AnswerApproval(p, i, j)
  \/ \E a \in Agents : Heartbeat(p, a)

Next ==
  \/ \E p \in Procs : \/ Step(p) \/ Request(p) \/ BeginSweep(p) \/ Abort(p)
                      \/ \E a \in Agents : MarkStale(p, a)
  \/ \E a \in Agents : GoOffline(a)
  \/ Crash

Spec == Init /\ [][Next]_vars

\* The event loop runs every task that can go on, and the supervisor's timer
\* fires again and again; nothing makes clients send requests.
FairSpec ==
  /\ Spec
  /\ \A p \in Procs : WF_vars(Step(p) \/ Abort(p)) /\ WF_vars(BeginSweep(p))
----------------------------------------------------------------------------
(* Properties *)

Places ==
  Executing \union
  {"idle", "schedule", "policy", "routed", "requeue", "reread", "signal",
   "interrupted", "compacted", "cancel", "input", "resolve", "readDecided",
   "decided", "stale", "rehydrate", "listAgents", "listJobs", "next"}

Locals ==
  [pc : Places,
   op : AllOps \union {"none", "sweep"},
   job : Jobs \union {None}, snap : Rows, saw : BOOLEAN,
   thread : Nat, turn : Nat, approval : Nat, accept : BOOLEAN,
   route : Jobs \union {None}, found : SUBSET (Agents \X Nat),
   agents : SUBSET Agents, todo : SUBSET Jobs]

Turns == [job : Jobs, thread : Nat, status : TurnStatuses]
Approvals == [job : Jobs, turn : Nat,
              status : {"pending", "accepted", "declined"}]

\* Every table, the mapping and every local variable has its type.
TypeOK ==
  /\ jobs \in [Jobs -> Rows]
  /\ paused \in BOOLEAN
  /\ edges \in [Agents -> Nat]
  /\ approvals \in Seq(Approvals)
  /\ threads \in Seq(Agents)
  /\ turns \in Seq(Turns)
  /\ mapping \in [Agents -> Nat]
  /\ online \in [Agents -> BOOLEAN]
  /\ serving \in BOOLEAN
  /\ crashes \in Nat
  /\ h \in [Procs -> Locals]

ThreadOf(t, a) == t \in 1..Len(threads) /\ threads[t] = a

\* Whatever stale rows the requests write over each other, crashes and
\* recovery included, a job only ever names a Codex thread that was started
\* for its own agent, and so does the in-memory mapping.
ThreadIsolation ==
  /\ \A j \in Jobs : jobs[j].thread # 0 => ThreadOf(jobs[j].thread, AgentOf[j])
  /\ \A a \in Agents : mapping[a] # 0 => ThreadOf(mapping[a], a)

\* A job's active turn is a turn Codex accepted for this job, on the thread
\* the row names: thread and turn are never mixed from two executions.
TurnOnThread ==
  \A j \in Jobs : jobs[j].turn # 0 =>
    /\ jobs[j].turn \in 1..Len(turns)
    /\ turns[jobs[j].turn].job = j
    /\ turns[jobs[j].turn].thread = jobs[j].thread

\* A job is completed only when Codex answered that its active turn is.
CompletionJustified ==
  \A j \in Jobs : jobs[j].status = "completed" =>
    jobs[j].turn \in 1..Len(turns) /\ turns[jobs[j].turn].status = "completed"

Relaying == Executing \ {"execute", "evaluate", "pauseJob", "pauseSession"}
InFlight(a) == {p \in Procs : h[p].pc \in Relaying /\ AgentOf[h[p].job] = a}

\* The loop guard counts edges before the turn and the edge is recorded after
\* it, so concurrent relays overshoot the limit, but by no more than one
\* relay for each request that runs besides the one the guard let through.
LoopGuardOvershoot ==
  \A a \in Agents : edges[a] + Cardinality(InFlight(a))
                       <= MaxRelayEdges - 2 + Cardinality(Procs)

\* When nothing fails, a turn that asks for input or authorisation has its
\* approval request, or the request that ran it is on its way to create it.
AskedTurnHasApproval ==
  \A u \in 1..Len(turns) : turns[u].status \in Asked =>
    \/ \E i \in 1..Len(approvals) : approvals[i].turn = u
    \/ \E p \in Procs : h[p].pc \in {"commit", "approval"} /\ h[p].turn = u

\* A Codex thread is started for an agent only if the agent has none in the
\* session: none that a row of its jobs still names.
ThreadStartedIfNone ==
  [][threads' # threads => \A j \in Jobs :
       AgentOf[j] = threads'[Len(threads')] => jobs[j].thread = 0]_vars

\* The loop guard refuses new relays until the job is resumed: a resume is not
\* refused by the pause it is there to lift.
ResumeLiftsPause == \A p \in Procs : At(p, "pauseJob") /\ paused
                                       => h[p].op # "resume"

\* After a restart the sweep has found every running job's agent a thread
\* again, so that an interrupt or a relay finds the context it belongs to.
\* A job an accepted approval made running is the exception: it may have been
\* canceled when the sweep passed over it.
RunningJobsMapped ==
  serving => \A j \in Jobs :
    \/ jobs[j].status # "running"
    \/ jobs[j].thread # 0 /\ mapping[AgentOf[j]] # 0
    \/ \E i \in 1..Len(approvals) : approvals[i].job = j
                                   /\ approvals[i].status = "accepted"

\* With one request at a time a turn is started only for a queued job: one
\* that was canceled, completed or paused is not started again by a sweep.
TurnFromQueued ==
  [][turns' # turns => jobs[turns'[Len(turns')].job].status = "queued"]_vars

\* With one request at a time a canceled job leaves that status only by a
\* retry or by the decision of an approval that is still pending.
CanceledStays ==
  [][\A j \in Jobs : jobs[j].status = "canceled" /\ jobs[j]'.status # "canceled"
       => \E p \in Procs : h[p].op \in {"retry", "decide"} /\ h[p].job = j]_vars

\* An approval is decided once: a second decision is refused.
DecidedOnce ==
  [][\A i \in 1..Len(approvals) : approvals[i].status # "pending"
       => approvals'[i] = approvals[i]]_vars

\* While an agent stays online, none of its jobs stays queued for ever: the
\* supervisor starts it or the loop guard pauses it.
QueueDrains ==
  \A j \in Jobs : <>[]online[AgentOf[j]] => []<>(jobs[j].status # "queued")

=============================================================================
