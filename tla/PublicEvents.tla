---------------------------- MODULE PublicEvents ----------------------------
(***************************************************************************)
(* The public A2A task of one job: clients post the job, each post         *)
(* refreshes the task's projection, and what changed is appended to the    *)
(* event log, which other clients replay or stream from a cursor.          *)
(*                                                                         *)
(* Each repository call is awaited and is a step.  An append is two steps: *)
(* sqlite3 opens a transaction at the INSERT, so the number an event gets  *)
(* is read before the transaction that uses it; the UNIQUE constraint on   *)
(* (task_id, sequence) is what refuses a number taken in between.          *)
(***************************************************************************)
EXTENDS Integers, Sequences, FiniteSets, FiniteSetsExt

CONSTANTS
  JobStates,    \* the states the job goes through, as far as they are public
  Publishers,   \* the concurrent POST /a2a/tasks requests for the job
  Clients,      \* the readers of the event log
  Starts,       \* the since_sequence a reader may begin with
  NoTask,       \* "the job has no projection yet"
  MaxEvents,    \* bound: no request begins once the log is this long
  MaxCrashes    \* bound: process crashes

JobStatuses == {"queued", "running", "input_required", "auth_required",
                "paused_by_loop_guard", "completed", "failed", "canceled"}

ASSUME JobStatesAssumption ==
  /\ \A j \in JobStates : j.status \in JobStatuses /\ IsFiniteSet(j.artifacts)
  /\ NoTask \notin JobStates
ASSUME BoundsAssumption == {MaxEvents, MaxCrashes} \union Starts \subseteq Nat

VARIABLES
  job,       \* the state of the job, its phase and its artifacts
  task,      \* the row of a2a_tasks of the job, or NoTask
  events,    \* the rows of a2a_public_events, in the order of insertion
  pub,       \* the requests in progress: their local variables
  client,    \* the readers: where they are and what they have
  crashes    \* how often the process crashed

vars == <<job, task, events, pub, client, crashes>>

----------------------------------------------------------------------------
(* What a refresh of the projection publishes *)

\* _map_job_status: several job statuses are one public status.
TaskStatus(s) ==
  CASE s = "running" -> "in_progress"
    [] s \in {"input_required", "auth_required", "paused_by_loop_guard"}
         -> "blocked"
    [] OTHER -> s

\* _PUBLIC_STATUS_BY_INTERNAL_STATUS: what a public state is called.
PublicStates ==
  [queued |-> "queued", running |-> "in_progress", blocked |-> "blocked",
   input_required |-> "blocked", auth_required |-> "blocked",
   paused_by_loop_guard |-> "blocked", completed |-> "completed",
   failed |-> "failed", canceled |-> "canceled"]

PublicState(s) == IF s \in DOMAIN PublicStates THEN PublicStates[s] ELSE "failed"

\* The task made of a job that was read in state i, with the phase read in
\* state j and the artifacts read in state k.  The adapter stores the mapped
\* status, and the public service maps it again.
Projection(i, j, k) ==
  [status |-> TaskStatus(i.status), state |-> PublicState(TaskStatus(i.status)),
   phase |-> j.phase, artifacts |-> k.artifacts]

When(condition, kind) == IF condition THEN <<kind>> ELSE <<>>

\* One event for each artifact the projection did not have.
Attached(new) == [i \in 1 .. Cardinality(new) |-> "artifact_attached"]

\* The kinds of events that lead from projection before to projection after.
EventSpecs(before, after, reviewRequested) ==
  LET first == before = NoTask
      old == IF first THEN [after EXCEPT !.artifacts = {}] ELSE before
  IN When(first, "created")
     \o When(old.phase # after.phase, "phase_changed")
     \o When(<<old.status, old.state>> # <<after.status, after.state>>,
             "status_changed")
     \o When(/\ after.state = "blocked"
             /\ first \/ old.state # "blocked"
             /\ reviewRequested, "review_requested")
     \o Attached(after.artifacts \ old.artifacts)
     \o When(/\ after.state = "completed"
             /\ first \/ old.state # "completed", "completed")

Kinds == {"created", "phase_changed", "status_changed", "review_requested",
          "artifact_attached", "completed"}

Projections == {Projection(i, j, k) : i, j, k \in JobStates}
Content == [kind : Kinds, task : Projections]
EventRow == [sequence : Nat, content : Content]

----------------------------------------------------------------------------
(* The state *)

NoRequest == [pc |-> "idle", previous |-> NoTask, current |-> NoTask,
              exists |-> FALSE, specs |-> <<>>, sequence |-> 0, saved |-> {}]

At(p, pc) == pub[p].pc = pc
Numbers == {e.sequence : e \in Range(events)}
Return(p) == pub' = [pub EXCEPT ![p] = NoRequest]

Init ==
  /\ job \in JobStates
  /\ task = NoTask
  /\ events = <<>>
  /\ pub = [p \in Publishers |-> NoRequest]
  /\ client \in [Clients -> {[start |-> n, last |-> 0, open |-> FALSE,
                              cursor |-> 0, got |-> {}] : n \in Starts}]
  /\ crashes = 0

----------------------------------------------------------------------------
(* create_task: project the job, then append what changed *)

ReadPrevious(p) ==
  /\ At(p, "idle") /\ Len(events) < MaxEvents
  /\ pub' = [pub EXCEPT ![p].pc = "readJob", ![p].previous = task]
  /\ UNCHANGED <<job, task, events, client, crashes>>

\* Mutant: the status of the job is published as it is.
ReadJobUnmapped(p) ==
  /\ At(p, "readJob")
  /\ pub' = [pub EXCEPT ![p].pc = "readTask", ![p].current = job]
  /\ UNCHANGED <<job, task, events, client, crashes>>

ReadJob(p) ==
  /\ At(p, "readJob")
  /\ pub' = [pub EXCEPT ![p].pc = "readPhase",
                        ![p].current = Projection(job, job, job)]
  /\ UNCHANGED <<job, task, events, client, crashes>>

\* The job has moved on, perhaps, when its phase and its artifacts are read.
ReadPhase(p) ==
  /\ At(p, "readPhase")
  /\ pub' = [pub EXCEPT ![p].pc = "readArtifacts",
                        ![p].current.phase = job.phase]
  /\ UNCHANGED <<job, task, events, client, crashes>>

ReadArtifacts(p) ==
  /\ At(p, "readArtifacts")
  /\ pub' = [pub EXCEPT ![p].pc = "readTask",
                        ![p].current.artifacts = job.artifacts]
  /\ UNCHANGED <<job, task, events, client, crashes>>

ReadTask(p) ==
  /\ At(p, "readTask")
  /\ pub' = [pub EXCEPT ![p].pc = "saveTask", ![p].exists = task # NoTask]
  /\ UNCHANGED <<job, task, events, client, crashes>>

\* An update, or an insert that the UNIQUE constraint on job_id refuses when
\* another request has inserted the row meanwhile.
SaveTask(p) ==
  /\ At(p, "saveTask")
  /\ IF pub[p].exists \/ task = NoTask
       THEN /\ task' = pub[p].current
            /\ pub' = [pub EXCEPT ![p].pc = "specs", ![p].exists = FALSE]
       ELSE Return(p) /\ UNCHANGED task
  /\ UNCHANGED <<job, events, client, crashes>>

\* The reviews of the job are read; there may be a requested one or not.
BuildSpecs(p) ==
  /\ At(p, "specs")
  /\ \E reviewRequested \in BOOLEAN :
       pub' = [pub EXCEPT ![p].pc = "append",
                          ![p].specs =
             EventSpecs(pub[p].previous, pub[p].current, reviewRequested),
                          ![p].previous = NoTask]
  /\ UNCHANGED <<job, task, events, client, crashes>>

NextSequence(p) ==
  /\ At(p, "append") /\ pub[p].specs # <<>>
  /\ pub' = [pub EXCEPT ![p].pc = "insert",
                        ![p].sequence = Max(Numbers \union {0}) + 1]
  /\ UNCHANGED <<job, task, events, client, crashes>>

\* Mutant: an insert whose number is taken goes on with the next one.
InsertNextNumber(p) ==
  /\ At(p, "insert")
  /\ LET n == pub[p].sequence
         row == [sequence |-> IF n \in Numbers THEN n + 1 ELSE n,
                 content |-> [kind |-> Head(pub[p].specs),
                              task |-> pub[p].current]]
     IN /\ events' = Append(events, row)
        /\ pub' = [pub EXCEPT ![p].pc = "append", ![p].specs = Tail(@),
                              ![p].sequence = 0,
                              ![p].saved = @ \union {row.sequence}]
  /\ UNCHANGED <<job, task, client, crashes>>

\* The insert fails if another request has used the number meanwhile: the
\* request ends, and neither this event nor those after it are recorded.
Insert(p) ==
  /\ At(p, "insert")
  /\ LET row == [sequence |-> pub[p].sequence,
                 content |-> [kind |-> Head(pub[p].specs),
                              task |-> pub[p].current]]
     IN IF row.sequence \in Numbers
          THEN Return(p) /\ UNCHANGED events
          ELSE /\ events' = Append(events, row)
               /\ pub' = [pub EXCEPT ![p].pc = "append",
                                     ![p].specs = Tail(@), ![p].sequence = 0,
                                     ![p].saved = @ \union {row.sequence}]
  /\ UNCHANGED <<job, task, client, crashes>>

Recorded(p) == At(p, "append") /\ pub[p].specs = <<>>

\* The request is answered (no webhook service is configured).
Answer(p) ==
  /\ Recorded(p) /\ Return(p)
  /\ UNCHANGED <<job, task, events, client, crashes>>

\* A repository call raises (a busy database, say): the request ends there.
Abort(p) ==
  /\ ~At(p, "idle") /\ Return(p)
  /\ UNCHANGED <<job, task, events, client, crashes>>

----------------------------------------------------------------------------
(* Readers: SSE streams that poll the log, and JSON replay *)

\* resolve_resume_sequence, from since_sequence and Last-Event-ID
Position(c) == Max({client[c].start, client[c].last})

\* Mutant: the cursor names the first event to send, not the last one sent.
ListSinceInclusive(n) == {e \in Range(events) : e.sequence >= n}

ListSince(n) == {e \in Range(events) : e.sequence > n}

\* Mutant: of several new events only the newest is sent.
ReceivedNewest(c, cursor) ==
  LET rows == ListSince(cursor)
      next == Max({e.sequence : e \in rows} \union {cursor})
  IN [client[c] EXCEPT !.got = @ \union {e \in rows : e.sequence = next},
                       !.cursor = next,
                       !.last = IF rows = {} THEN @ ELSE next]

\* The rows after the cursor arrive in one frame, which names the last.
Received(c, cursor) ==
  LET rows == ListSince(cursor)
      next == Max({e.sequence : e \in rows} \union {cursor})
  IN [client[c] EXCEPT !.got = @ \union rows, !.cursor = next,
                       !.last = IF rows = {} THEN @ ELSE next]

Connect(c) ==
  /\ ~client[c].open
  /\ client' = [client EXCEPT ![c].open = TRUE, ![c].cursor = Position(c)]
  /\ UNCHANGED <<job, task, events, pub, crashes>>

\* A turn of the polling loop that finds events and sends them in a frame.
Poll(c) ==
  /\ client[c].open /\ ListSince(client[c].cursor) # {}
  /\ client' = [client EXCEPT ![c] = Received(c, client[c].cursor)]
  /\ UNCHANGED <<job, task, events, pub, crashes>>

\* The frame is lost with the connection, or the idle loop returns.
Disconnect(c) ==
  /\ client[c].open
  /\ client' = [client EXCEPT ![c].open = FALSE]
  /\ UNCHANGED <<job, task, events, pub, crashes>>

\* GET /tasks/{task_id}/events from the last number the reader has seen
Replay(c) ==
  /\ ~client[c].open
  /\ client' = [client EXCEPT ![c] = Received(c, Position(c))]
  /\ UNCHANGED <<job, task, events, pub, crashes>>

----------------------------------------------------------------------------
(* The environment *)

JobMoves ==
  /\ job' \in JobStates
  /\ job' # job /\ job.artifacts \subseteq job'.artifacts
  /\ UNCHANGED <<task, events, pub, client, crashes>>

Crash ==
  /\ crashes < MaxCrashes
  /\ crashes' = crashes + 1
  /\ pub' = [p \in Publishers |-> NoRequest]
  /\ client' = [c \in Clients |-> [client[c] EXCEPT !.open = FALSE]]
  /\ UNCHANGED <<job, task, events>>

Publish(p) ==
  \/ ReadPrevious(p) \/ ReadJob(p) \/ ReadPhase(p) \/ ReadArtifacts(p)
  \/ ReadTask(p) \/ SaveTask(p) \/ BuildSpecs(p) \/ NextSequence(p)
  \/ Insert(p) \/ Abort(p)

Follow(c) == Connect(c) \/ Poll(c) \/ Disconnect(c) \/ Replay(c)

Next ==
  \/ \E p \in Publishers : Publish(p) \/ Answer(p)
  \/ \E c \in Clients : Follow(c)
  \/ JobMoves
  \/ Crash

Spec == Init /\ [][Next]_vars

----------------------------------------------------------------------------
(* Properties *)

RequestPCs == {"idle", "readJob", "readPhase", "readArtifacts", "readTask",
               "saveTask", "specs", "append", "insert"}

Requests == [pc : RequestPCs, previous : Projections \union {NoTask},
             current : Projections \union {NoTask}, exists : BOOLEAN,
             specs : Seq(Kinds), sequence : Nat, saved : SUBSET Nat]
ClientStates == [start : Starts, last : Nat, open : BOOLEAN, cursor : Nat,
                 got : SUBSET EventRow]

\* Every variable holds values of its kind: the projection is of a state the
\* job can be in, and the rows of the log and of each request are well formed.
TypeOK ==
  /\ job \in JobStates
  /\ task \in Projections \union {NoTask}
  /\ events \in Seq(EventRow)
  /\ pub \in [Publishers -> Requests]
  /\ client \in [Clients -> ClientStates]
  /\ crashes \in Nat

\* The events of a task are numbered 1, 2, 3, ... in the order in which they
\* were recorded, whatever requests raced for a number and whichever of them
\* failed or crashed half way: a reader that resumes after number n can be
\* sure that nothing will ever appear at or below n.
NumbersDense == \A i \in DOMAIN events : events[i].sequence = i

\* Every reader that has read up to number n, over however many connections
\* and replays, has received every event after its start up to n.
StreamsComplete ==
  \A c \in Clients :
    client[c].got = {e \in Range(events) :
                       e.sequence > client[c].start
                       /\ e.sequence <= client[c].last}

\* The event surface implements the feed that the documentation promises.
Feed == INSTANCE EventFeed WITH
  Readers <- Clients,
  Events <- Content,
  Starts <- Starts,
  log <- [i \in DOMAIN events |-> events[i].content],
  pos <- [c \in Clients |-> Position(c)],
  seen <- [c \in Clients |->
             {<<e.sequence, e.content>> : e \in client[c].got}]

ImplementsFeed == Feed!Spec

\* What the documentation says of the state in an event: it is the public name
\* of the status of the job the event was made from.
StatesAsDocumented ==
  \A e \in Range(events) : \A j \in JobStates :
    TaskStatus(j.status) = e.content.task.status
      => e.content.task.state = PublicState(j.status)
=============================================================================
