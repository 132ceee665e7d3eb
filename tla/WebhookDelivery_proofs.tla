----------------------- MODULE WebhookDelivery_proofs -----------------------
(***************************************************************************)
(* Proofs about WebhookDelivery for every set of requests, sweeps,         *)
(* operators and registrations.  The delivery of webhooks only ever takes  *)
(* steps of PublicEvents of the event log, so that what is proved of the   *)
(* log holds beside it.  The invariant adds to the types that whoever      *)
(* works on a delivery has selected one that exists, and that the outcome  *)
(* and the registration row it is about to write tell the truth about the  *)
(* receiver; the one for the order of deliveries, that all a selected      *)
(* delivery waited for is settled for good.                                *)
(***************************************************************************)
EXTENDS WebhookDelivery, PublicEvents_proofs, WellFoundedInduction

\* Where a dispatcher is at a delivery, and where it has read its registration.
Serving == {"load", "inactive", "post", "answered", "marked"}
Holding == Serving \ {"load"}

\* The delivery a dispatcher with these locals is at, and the registration whose
\* row somebody with these locals holds.
First(todo) == CHOOSE s \in todo : \A t \in todo : s.key[1] <= t.key[1]
HookOf(l) == IF l.pc = "disable" THEN l.of ELSE First(l.todo).key[1]

\* What x holds when these deliveries exist, the receivers have accepted this and
\* the log has these numbers: it enqueues what is recorded, works on deliveries
\* that exist, and the outcome and the registration it will write are true.
WorkSound(x, l, known, accepted, numbers) ==
  /\ l.pc \in {"enqueue", "create", "select"} => x \in Publishers
  /\ l.pc \in Serving => x \in Dispatchers /\ l.todo # {}
  /\ l.pc = "disable" => x \in Operators /\ l.of \in Hooks
  /\ l.create \subseteq Hooks \X numbers
  /\ \A t \in l.todo : t.key \in known
  /\ l.pc \in {"answered", "marked"} /\ l.ok =>
       First(l.todo).key[2] \in accepted[First(l.todo).key[1]]
  /\ l.pc \in Holding \union {"disable"} /\ l.hook.last # 0 =>
       l.hook.last \in accepted[HookOf(l)]

WorksSound ==
  \A x \in Tasks : WorkSound(x, d[x], DOMAIN deliveries, inbox, Numbers)

\* A request is enqueueing or dispatching only once its events are recorded.
Engaged ==
  \A p \in Publishers : d[p].pc # "free" => Recorded(p) /\ pub[p].saved # {}
SavedRecorded == \A p \in Publishers : pub[p].saved \subseteq Numbers

HookInv == HookTypeOK /\ WorksSound /\ Engaged /\ SavedRecorded /\ MarksAreTrue

\* What was enqueued for a registration before the delivery at hand is settled.
Before(s, t) == s[1] = t[1] /\ s[2] < t[2]
TurnSound(l, known, accepted, given) ==
  \A t \in l.todo : \A s \in known :
    Before(s, t.key) => s[2] \in accepted[s[1]] \/ s \in given

\* What a request is about to enqueue comes after all that is enqueued.
QueueSound(l, saved, known) ==
  /\ l.pc \in {"free", "enqueue"} => \A n \in saved, s \in known : s[2] < n
  /\ l.pc = "enqueue" => l.create \subseteq Hooks \X saved
  /\ l.pc = "create" =>
       \A c \in l.create, s \in known : s[1] = c[1] => s[2] < c[2]

OrderInv ==
  /\ OrderPreserved
  /\ \A k \in Hooks : \A n \in inbox[k] : <<k, n>> \in DOMAIN deliveries
  /\ \A s \in DOMAIN deliveries : deliveries[s].status = "failed" => s \in dropped
  /\ \A x \in Tasks : TurnSound(d[x], DOMAIN deliveries, inbox, dropped)
  /\ \A p \in Publishers : QueueSound(d[p], pub[p].saved, DOMAIN deliveries)
----------------------------------------------------------------------------
(* The smallest of a set, and the delivery at hand *)

\* A set of numbers that is not empty has a smallest one.
LEMMA Smallest ==
  ASSUME NEW S \in SUBSET Nat, S # {}
  PROVE  \E x \in S : \A y \in S : x <= y
<1>1. PICK x \in S : \A y \in S : <<y, x>> \notin OpToRel(<, Nat)
  BY NatLessThanWellFounded, WFMin
<1>2. \A y \in S : ~(y < x)
  BY <1>1 DEF OpToRel
<1>. QED BY <1>2

LEMMA FirstSelected ==
  ASSUME NEW todo, todo # {}, \A s \in todo : s.key \in Keys
  PROVE  First(todo) \in todo
<1>1. {s.key[1] : s \in todo} \in SUBSET Nat /\ {s.key[1] : s \in todo} # {}
  BY HooksAssumption DEF Keys
<1>2. PICK k \in {s.key[1] : s \in todo} : \A n \in {s.key[1] : s \in todo} : k <= n
  BY <1>1, Smallest
<1>3. PICK s \in todo : s.key[1] = k
  BY <1>2
<1>4. \A t \in todo : s.key[1] <= t.key[1]
  BY <1>2, <1>3
<1>. QED BY <1>4 DEF First

\* The first key of what is to be created.
LEMMA FirstToCreate ==
  ASSUME NEW C \in SUBSET Keys, C # {}
  PROVE  \E s \in C : \A t \in C : s[1] < t[1] \/ (s[1] = t[1] /\ s[2] <= t[2])
<1>1. \A s \in C : s[1] \in Nat /\ s[2] \in Nat
  BY HooksAssumption DEF Keys
<1>2. PICK k \in {s[1] : s \in C} : \A n \in {s[1] : s \in C} : k <= n
  BY <1>1, Smallest
<1>3. PICK n \in {s[2] : s \in {t \in C : t[1] = k}} :
         \A m \in {s[2] : s \in {t \in C : t[1] = k}} : n <= m
  <2>1. {s[2] : s \in {t \in C : t[1] = k}} \in SUBSET Nat
    BY <1>1
  <2>2. {s[2] : s \in {t \in C : t[1] = k}} # {}
    BY <1>2
  <2>. QED BY <2>1, <2>2, Smallest
<1>4. PICK s \in C : s[1] = k /\ s[2] = n
  BY <1>3
<1>5. \A t \in C : s[1] < t[1] \/ (s[1] = t[1] /\ s[2] <= t[2])
  BY <1>1, <1>2, <1>3, <1>4
<1>. QED BY <1>5
----------------------------------------------------------------------------
(* The log: delivery takes steps of PublicEvents only *)

LEMMA NumbersGrow ==
  ASSUME events' = events \/ \E row : events' = Append(events, row), events \in Seq(EventRow)
  PROVE  Numbers \subseteq Numbers'
<1>1. CASE events' = events
  BY <1>1 DEF Numbers
<1>2. ASSUME NEW row, events' = Append(events, row) PROVE Numbers \subseteq Numbers'
  <2>1. \A i \in DOMAIN events : i \in DOMAIN events' /\ events'[i] = events[i]
    BY <1>2
  <2>2. Range(events) \subseteq Range(events)'
    BY <2>1 DEF Range
  <2>. QED BY <2>2 DEF Numbers
<1>. QED BY <1>1, <1>2

\* A step of the log keeps the numbers there are and records what it says it did.
LEMMA LogStep ==
  ASSUME Inv, SavedRecorded, [Next]_vars
  PROVE  SavedRecorded' /\ Numbers \subseteq Numbers'
<1>0. /\ events \in Seq(EventRow) /\ pub \in [Publishers -> Requests]
      /\ NoRequest.saved = {}
  BY DEF Inv, TypeOK, NoRequest
<1>1. ASSUME events' = events,
             \A p \in Publishers : pub'[p].saved = pub[p].saved \/ pub'[p].saved = {}
      PROVE  SavedRecorded' /\ Numbers \subseteq Numbers'
  BY <1>1 DEF SavedRecorded, Numbers
<1>2. ASSUME NEW p \in Publishers, Return(p), events' = events
      PROVE  SavedRecorded' /\ Numbers \subseteq Numbers'
  BY <1>0, <1>1, <1>2 DEF Return
<1>3. ASSUME NEW p \in Publishers, NEW l, pub' = [pub EXCEPT ![p] = l],
             l.saved = pub[p].saved, events' = events
      PROVE  SavedRecorded' /\ Numbers \subseteq Numbers'
  BY <1>0, <1>1, <1>3
<1>4. ASSUME NEW p \in Publishers, ReadPrevious(p)
      PROVE  SavedRecorded' /\ Numbers \subseteq Numbers'
  <2>1. PICK l : l = [pub[p] EXCEPT !.pc = "readJob", !.previous = task]
    OBVIOUS
  <2>2. l.saved = pub[p].saved
    BY <1>0, <2>1 DEF Requests
  <2>. QED BY <1>0, <1>3, <1>4, <2>1, <2>2 DEF ReadPrevious
<1>5. ASSUME NEW p \in Publishers, ReadJob(p)
      PROVE  SavedRecorded' /\ Numbers \subseteq Numbers'
  <2>1. PICK l : l = [pub[p] EXCEPT !.pc = "readPhase", !.current = Projection(job, job, job)]
    OBVIOUS
  <2>2. l.saved = pub[p].saved
    BY <1>0, <2>1 DEF Requests
  <2>. QED BY <1>0, <1>3, <1>5, <2>1, <2>2 DEF ReadJob
<1>6. ASSUME NEW p \in Publishers, ReadPhase(p)
      PROVE  SavedRecorded' /\ Numbers \subseteq Numbers'
  <2>1. PICK c : c = [pub[p].current EXCEPT !.phase = job.phase]
    OBVIOUS
  <2>2. PICK l : l = [pub[p] EXCEPT !.pc = "readArtifacts", !.current = c]
    OBVIOUS
  <2>3. l.saved = pub[p].saved
    BY <1>0, <2>2 DEF Requests
  <2>4. pub' = [pub EXCEPT ![p] = l] /\ events' = events
    BY <1>0, <1>6, <2>1, <2>2 DEF ReadPhase, Requests
  <2>. QED BY <1>3, <2>3, <2>4
<1>7. ASSUME NEW p \in Publishers, ReadArtifacts(p)
      PROVE  SavedRecorded' /\ Numbers \subseteq Numbers'
  <2>1. PICK c : c = [pub[p].current EXCEPT !.artifacts = job.artifacts]
    OBVIOUS
  <2>2. PICK l : l = [pub[p] EXCEPT !.pc = "readTask", !.current = c]
    OBVIOUS
  <2>3. l.saved = pub[p].saved
    BY <1>0, <2>2 DEF Requests
  <2>4. pub' = [pub EXCEPT ![p] = l] /\ events' = events
    BY <1>0, <1>7, <2>1, <2>2 DEF ReadArtifacts, Requests
  <2>. QED BY <1>3, <2>3, <2>4
<1>8. ASSUME NEW p \in Publishers, ReadTask(p)
      PROVE  SavedRecorded' /\ Numbers \subseteq Numbers'
  <2>1. PICK l : l = [pub[p] EXCEPT !.pc = "saveTask", !.exists = task # NoTask]
    OBVIOUS
  <2>2. l.saved = pub[p].saved
    BY <1>0, <2>1 DEF Requests
  <2>. QED BY <1>0, <1>3, <1>8, <2>1, <2>2 DEF ReadTask
<1>9. ASSUME NEW p \in Publishers, NextSequence(p)
      PROVE  SavedRecorded' /\ Numbers \subseteq Numbers'
  <2>1. PICK l : l = [pub[p] EXCEPT !.pc = "insert", !.sequence = Max(Numbers \union {0}) + 1]
    OBVIOUS
  <2>2. l.saved = pub[p].saved
    BY <1>0, <2>1 DEF Requests
  <2>. QED BY <1>0, <1>3, <1>9, <2>1, <2>2 DEF NextSequence
<1>10. ASSUME NEW p \in Publishers, SaveTask(p)
      PROVE  SavedRecorded' /\ Numbers \subseteq Numbers'
  <2>1. PICK l : l = [pub[p] EXCEPT !.pc = "specs", !.exists = FALSE]
    OBVIOUS
  <2>2. l.saved = pub[p].saved
    BY <1>0, <2>1 DEF Requests
  <2>3. pub' = [pub EXCEPT ![p] = l] \/ Return(p)
    BY <1>10, <2>1 DEF SaveTask
  <2>. QED BY <1>2, <1>3, <1>10, <2>2, <2>3 DEF SaveTask
<1>11. ASSUME NEW p \in Publishers, BuildSpecs(p)
      PROVE  SavedRecorded' /\ Numbers \subseteq Numbers'
  <2>1. PICK specs : pub' = [pub EXCEPT ![p].pc = "append", ![p].specs = specs,
                                        ![p].previous = NoTask]
    BY <1>11 DEF BuildSpecs
  <2>2. PICK l : l = [pub[p] EXCEPT !.pc = "append", !.specs = specs, !.previous = NoTask]
    OBVIOUS
  <2>3. l.saved = pub[p].saved
    BY <1>0, <2>2 DEF Requests
  <2>4. pub' = [pub EXCEPT ![p] = l]
    BY <2>1, <2>2
  <2>. QED BY <1>3, <1>11, <2>3, <2>4 DEF BuildSpecs
<1>12. ASSUME NEW p \in Publishers, Insert(p)
      PROVE  SavedRecorded' /\ Numbers \subseteq Numbers'
  <2> DEFINE row == [sequence |-> pub[p].sequence,
                     content |-> [kind |-> Head(pub[p].specs), task |-> pub[p].current]]
  <2>1. CASE Return(p) /\ events' = events
    BY <1>2, <2>1
  <2>2. CASE /\ events' = Append(events, row)
             /\ pub' = [pub EXCEPT ![p].pc = "append", ![p].specs = Tail(@), ![p].sequence = 0,
                                   ![p].saved = @ \union {row.sequence}]
    <3>1. PICK r : r = row
      OBVIOUS
    <3>2. r.sequence = pub[p].sequence
      BY <3>1
    <3>3. Numbers \subseteq Numbers'
      BY <1>0, <2>2, NumbersGrow
    <3>4. pub[p].sequence \in Numbers'
      <4>1. events' = Append(events, r)
        BY <2>2, <3>1
      <4>2. Len(events) + 1 \in DOMAIN events' /\ events'[Len(events) + 1] = r
        BY <1>0, <4>1
      <4>. QED BY <3>2, <4>2 DEF Numbers, Range
    <3>5. pub'[p].saved = pub[p].saved \union {pub[p].sequence}
      BY <1>0, <2>2 DEF Requests
    <3>6. \A o \in Publishers \ {p} : pub'[o] = pub[o]
      BY <1>0, <2>2
    <3>. QED BY <3>3, <3>4, <3>5, <3>6 DEF SavedRecorded
  <2>. QED BY <1>12, <2>1, <2>2 DEF Insert
<1>13. ASSUME NEW p \in Publishers, Abort(p) \/ Answer(p)
      PROVE  SavedRecorded' /\ Numbers \subseteq Numbers'
  BY <1>2, <1>13 DEF Abort, Answer
<1>14. ASSUME NEW c \in Clients, Follow(c)
      PROVE  SavedRecorded' /\ Numbers \subseteq Numbers'
  BY <1>1, <1>14 DEF Follow, Connect, Poll, Disconnect, Replay
<1>15. CASE JobMoves \/ Crash \/ UNCHANGED vars
  BY <1>0, <1>1, <1>15 DEF JobMoves, Crash, vars
<1>. QED BY <1>4, <1>5, <1>6, <1>7, <1>8, <1>9, <1>10, <1>11, <1>12, <1>13, <1>14, <1>15
         DEF Next, Publish

\* Advance and Select end a request only where PublicEvents answers it.
LEMMA LogMoves ==
  ASSUME Engaged, [HookNext]_hookSystem
  PROVE  [Next]_vars
<1>. USE DEF publicVars, vars
<1>1. ASSUME NEW p \in Publishers, d[p].pc # "free", Return(p),
             UNCHANGED <<job, task, events, client, crashes>>
      PROVE  Next
  BY <1>1 DEF Engaged, Answer, Next
<1>2. ASSUME NEW p \in Publishers, Record(p) \/ NothingRecorded(p)
      PROVE  Next
  BY <1>2 DEF Record, NothingRecorded, Next
<1>3. ASSUME NEW p \in Publishers, Enqueue(p)
      PROVE  UNCHANGED vars
  BY <1>3 DEF Enqueue, ListHooks, ListExisting, Create, Enqueued
<1>4. ASSUME NEW x \in Dispatchers, Advance(x), d[x].pc # "free",
             UNCHANGED <<job, task, events, client, crashes>>
      PROVE  [Next]_vars
  BY <1>1, <1>4 DEF Advance
<1>5. ASSUME NEW x \in Dispatchers, Select(x)
      PROVE  [Next]_vars
  <2>1. Return(x) => (x \in Publishers /\ d[x].pc # "free") \/ UNCHANGED pub
    BY <1>5, TasksAssumption DEF Select, Is, Dispatchers
  <2>2. (Return(x) /\ x \in Publishers) \/ UNCHANGED pub
    BY <1>5 DEF Select
  <2>. QED BY <1>1, <1>5, <2>1, <2>2 DEF Select
<1>6. ASSUME NEW x \in Dispatchers, Dispatch(x)
      PROVE  [Next]_vars
  <2>1. CASE MarkInactive(x) \/ MarkHook(x)
    BY <1>4, <2>1 DEF MarkInactive, MarkHook, Is
  <2>2. CASE Load(x) \/ Post(x) \/ MarkDelivery(x)
    BY <2>2 DEF Load, Post, MarkDelivery
  <2>. QED BY <1>5, <1>6, <2>1, <2>2 DEF Dispatch
<1>7. CASE \/ \E w \in Sweepers : SweepFails(w)
           \/ \E k \in Hooks : Register(k) \/ \E o \in Operators : ReadToDisable(o, k)
           \/ \E o \in Operators : Disable(o)
           \/ TimePasses
  BY <1>7 DEF SweepFails, Register, ReadToDisable, Disable, TimePasses, BackoffEnds
<1>8. CASE (JobMoves /\ UNCHANGED hookVars) \/ Restart
  BY <1>8 DEF Restart, Next
<1>9. CASE UNCHANGED hookSystem
  BY <1>9 DEF hookSystem
<1>. QED BY <1>2, <1>3, <1>6, <1>7, <1>8, <1>9 DEF HookNext
----------------------------------------------------------------------------
(* What keeps the invariant *)

LEMMA FreeIs ==
  /\ Free \in Locals /\ Free.pc = "free" /\ Free.todo = {} /\ Free.create = {}
  /\ \A x, known, accepted, numbers : WorkSound(x, Free, known, accepted, numbers)
<1>1. "free" \in TaskPCs /\ NoHook \in HookRow
  BY DEF TaskPCs, NoHook, HookRow
<1>2. Free.pc = "free" /\ Free.todo = {} /\ Free.create = {}
  BY DEF Free
<1>3. Free \in Locals
  BY <1>1 DEF Free, Locals
<1>. QED BY <1>2, <1>3 DEF WorkSound, Serving, Holding

LEMMA CurrentIs ==
  ASSUME HookInv, NEW x \in Tasks, d[x].pc \in Serving
  PROVE  /\ Current(x) = First(d[x].todo) /\ Current(x) \in d[x].todo
         /\ Current(x).key \in DOMAIN deliveries
         /\ Current(x).key[1] \in Hooks /\ Current(x).key[2] \in Numbers
         /\ Current(x).row \in DeliveryRow
<1>1. Current(x) = First(d[x].todo)
  BY DEF Current, First
<1>2. d[x] \in Locals /\ WorkSound(x, d[x], DOMAIN deliveries, inbox, Numbers)
  BY DEF HookInv, HookTypeOK, WorksSound
<1>3. \A s \in d[x].todo : s.key \in Keys /\ s.row \in DeliveryRow
  BY <1>2 DEF Locals
<1>4. First(d[x].todo) \in d[x].todo
  BY <1>2, <1>3, FirstSelected DEF WorkSound
<1>. QED BY <1>1, <1>2, <1>3, <1>4 DEF WorkSound, HookInv, HookTypeOK

\* What is sound stays sound while deliveries are added and events accepted.
LEMMA WorkGrows ==
  ASSUME NEW x, NEW l \in Locals, NEW known, NEW accepted, NEW numbers,
         WorkSound(x, l, known, accepted, numbers),
         NEW known2, NEW accepted2, NEW numbers2, known \subseteq known2,
         numbers \subseteq numbers2, \A k \in Hooks : accepted[k] \subseteq accepted2[k]
  PROVE  WorkSound(x, l, known2, accepted2, numbers2)
<1>1. l.pc \in Serving => First(l.todo).key[1] \in Hooks
  <2>1. \A s \in l.todo : s.key \in Keys
    BY DEF Locals
  <2>2. l.pc \in Serving => First(l.todo) \in l.todo
    BY <2>1, FirstSelected DEF WorkSound
  <2>. QED BY <2>1, <2>2 DEF Keys
<1>2. l.pc \in Holding \union {"disable"} => HookOf(l) \in Hooks
  BY <1>1 DEF WorkSound, HookOf, Holding
<1>3. l.pc \in {"answered", "marked"} => l.pc \in Serving
  BY DEF Serving
<1>. QED BY <1>1, <1>2, <1>3 DEF WorkSound

\* The tables are well formed, with these events recorded.
TablesOK ==
  /\ hooks \in [Hooks -> HookRow]
  /\ DOMAIN deliveries \subseteq Hooks \X Numbers
  /\ deliveries \in [DOMAIN deliveries -> DeliveryRow]
  /\ inbox \in [Hooks -> SUBSET Numbers]
  /\ dropped \subseteq DOMAIN deliveries
  /\ failures \in Nat

\* The tables grow, and what they say was delivered has been accepted.
TablesGrow ==
  /\ TablesOK' /\ MarksAreTrue'
  /\ DOMAIN deliveries \subseteq DOMAIN deliveries'
  /\ \A k \in Hooks : inbox[k] \subseteq inbox'[k]

LEMMA SameTables ==
  ASSUME Inv, HookInv, [Next]_vars, UNCHANGED <<hooks, deliveries, inbox, dropped>>, failures' \in Nat
  PROVE  TablesGrow
<1>1. Numbers \subseteq Numbers'
  BY LogStep DEF HookInv
<1>2. TablesOK'
  BY <1>1 DEF HookInv, HookTypeOK, TablesOK
<1>3. MarksAreTrue'
  BY DEF HookInv, MarksAreTrue
<1>. QED BY <1>2, <1>3 DEF TablesGrow

\* One task moves on.
LEMMA TaskMoves ==
  ASSUME Inv, HookInv, [Next]_vars, TablesGrow,
         NEW x \in Tasks, NEW l \in Locals, d' = [d EXCEPT ![x] = l],
         WorkSound(x, l, (DOMAIN deliveries)', inbox', Numbers'),
         \A p \in Publishers \ {x} : pub'[p] = pub[p],
         x \in Publishers /\ l.pc # "free" =>
           Recorded(x) /\ pub[x].saved # {} /\ pub'[x] = pub[x]
  PROVE  HookInv'
<1>1. SavedRecorded' /\ Numbers \subseteq Numbers'
  BY LogStep DEF HookInv
<1>2. d \in [Tasks -> Locals]
  BY DEF HookInv, HookTypeOK
<1>3. HookTypeOK'
  BY <1>2 DEF TablesGrow, TablesOK, HookTypeOK
<1>4. WorksSound'
  <2>1. ASSUME NEW y \in Tasks \ {x}
        PROVE  WorkSound(y, d[y], (DOMAIN deliveries)', inbox', Numbers')
    BY <1>1, <1>2, WorkGrows DEF HookInv, WorksSound, TablesGrow
  <2>2. \A y \in Tasks : d'[y] = IF y = x THEN l ELSE d[y]
    BY <1>2
  <2>3. \A y \in Tasks : WorkSound(y, d'[y], (DOMAIN deliveries)', inbox', Numbers')
    BY <2>1, <2>2
  <2>. QED BY <2>3 DEF WorksSound, WorkSound
<1>5. Engaged'
  <2>1. ASSUME NEW p \in Publishers, d'[p].pc # "free"
        PROVE  Recorded(p) /\ pub[p].saved # {} /\ pub'[p] = pub[p]
    BY <1>2, <2>1 DEF HookInv, Engaged, Tasks, Dispatchers
  <2>. QED BY <2>1 DEF Engaged, Recorded, At
<1>. QED BY <1>1, <1>3, <1>4, <1>5 DEF HookInv, TablesGrow
----------------------------------------------------------------------------
(* The steps of the log, and what a request enqueues *)

\* A request moves no other request.
LEMMA PublishOwn ==
  ASSUME pub \in [Publishers -> Requests], NEW p \in Publishers, Publish(p)
  PROVE  \A o \in Publishers \ {p} : pub'[o] = pub[o]
<1>1. ASSUME NEW l, pub' = [pub EXCEPT ![p] = l]
      PROVE  \A o \in Publishers \ {p} : pub'[o] = pub[o]
  BY <1>1
<1>2. CASE ReadPhase(p)
  <2>1. PICK c : c = [pub[p].current EXCEPT !.phase = job.phase]
    OBVIOUS
  <2>2. PICK l : l = [pub[p] EXCEPT !.pc = "readArtifacts", !.current = c]
    OBVIOUS
  <2>3. pub' = [pub EXCEPT ![p] = l]
    BY <1>2, <2>1, <2>2 DEF ReadPhase, Requests
  <2>. QED BY <1>1, <2>3
<1>3. CASE ReadArtifacts(p)
  <2>1. PICK c : c = [pub[p].current EXCEPT !.artifacts = job.artifacts]
    OBVIOUS
  <2>2. PICK l : l = [pub[p] EXCEPT !.pc = "readTask", !.current = c]
    OBVIOUS
  <2>3. pub' = [pub EXCEPT ![p] = l]
    BY <1>3, <2>1, <2>2 DEF ReadArtifacts, Requests
  <2>. QED BY <1>1, <2>3
<1>4. CASE ReadPrevious(p) \/ ReadJob(p) \/ ReadTask(p)
  BY <1>4 DEF ReadPrevious, ReadJob, ReadTask
<1>5. CASE SaveTask(p) \/ Abort(p)
  BY <1>5 DEF SaveTask, Abort, Return
<1>6. CASE NextSequence(p) \/ Insert(p)
  BY <1>6 DEF NextSequence, Insert, Return
<1>7. CASE BuildSpecs(p)
  <2>1. PICK specs : pub' = [pub EXCEPT ![p].pc = "append", ![p].specs = specs,
                                        ![p].previous = NoTask]
    BY <1>7 DEF BuildSpecs
  <2>. QED BY <2>1
<1>. QED BY <1>2, <1>3, <1>4, <1>5, <1>6, <1>7 DEF Publish

LEMMA RecordKeeps ==
  ASSUME Inv, HookInv, [Next]_vars, NEW p \in Publishers, Record(p)
  PROVE  HookInv'
<1>1. TablesGrow
  BY SameTables DEF Record, HookInv, HookTypeOK
<1>2. \A o \in Publishers \ {p} : pub'[o] = pub[o]
  BY PublishOwn DEF Record, Inv, TypeOK
<1>3. p \in Tasks
  BY DEF Tasks, Dispatchers
<1>. QED BY <1>1, <1>2, <1>3, FreeIs, TaskMoves DEF Record

\* The request that answers has nothing to enqueue: it is at nothing.
LEMMA AnswerKeeps ==
  ASSUME Inv, HookInv, [Next]_vars, NEW p \in Publishers, NothingRecorded(p)
  PROVE  HookInv'
<1>1. TablesGrow
  BY SameTables DEF NothingRecorded, hookVars, HookInv, HookTypeOK
<1>2. d[p].pc = "free" /\ d \in [Tasks -> Locals] /\ p \in Tasks
  BY DEF NothingRecorded, HookInv, HookTypeOK, Engaged, Tasks, Dispatchers
<1>3. \A o \in Publishers \ {p} : pub'[o] = pub[o]
  BY DEF NothingRecorded, Answer, Return, Inv, TypeOK
<1>4. PICK l : l = d[p]
  OBVIOUS
<1>5. l \in Locals /\ d' = [d EXCEPT ![p] = l] /\ l.pc = "free"
  BY <1>2, <1>4 DEF NothingRecorded, hookVars
<1>6. WorkSound(p, l, DOMAIN deliveries, inbox, Numbers)
  BY <1>2, <1>4 DEF HookInv, WorksSound
<1>7. WorkSound(p, l, (DOMAIN deliveries)', inbox', Numbers')
  BY <1>5, <1>6, WorkGrows, LogStep DEF NothingRecorded, hookVars, HookInv
<1>. QED BY <1>1, <1>2, <1>3, <1>5, <1>7, TaskMoves

\* Nobody moves, or everybody is gone.
LEMMA QuietKeeps ==
  ASSUME Inv, HookInv, [Next]_vars, (JobMoves /\ UNCHANGED hookVars) \/ Restart \/ UNCHANGED hookSystem
  PROVE  HookInv'
<1>. USE DEF hookVars, publicVars, vars, hookSystem
<1>1. TablesGrow
  BY SameTables DEF Restart, HookInv, HookTypeOK
<1>2. SavedRecorded' /\ Numbers \subseteq Numbers'
  BY LogStep DEF HookInv
<1>3. d' = d \/ d' = [x \in Tasks |-> Free]
  BY DEF Restart
<1>4. HookTypeOK'
  BY <1>1, <1>3, FreeIs DEF TablesGrow, TablesOK, HookTypeOK, HookInv
<1>5. WorksSound'
  <2>1. ASSUME NEW x \in Tasks
        PROVE  WorkSound(x, d'[x], (DOMAIN deliveries)', inbox', Numbers')
    <3>1. CASE d' = d
      <4>1. d[x] \in Locals /\ WorkSound(x, d[x], DOMAIN deliveries, inbox, Numbers)
        BY DEF HookInv, HookTypeOK, WorksSound
      <4>2. WorkSound(x, d[x], (DOMAIN deliveries)', inbox', Numbers')
        BY <1>1, <1>2, <4>1, WorkGrows DEF TablesGrow
      <4>. QED BY <3>1, <4>2
    <3>2. CASE d' = [y \in Tasks |-> Free]
      <4>1. d'[x] = Free
        BY <3>2
      <4>2. WorkSound(x, Free, (DOMAIN deliveries)', inbox', Numbers')
        BY FreeIs
      <4>. QED BY <4>1, <4>2
    <3>. QED BY <1>3, <3>1, <3>2
  <2>. QED BY <2>1 DEF WorksSound, WorkSound
<1>6. Engaged'
  <2>1. CASE Restart
    <3>1. \A p \in Publishers : d'[p].pc = "free"
      BY <2>1, FreeIs DEF Restart, Tasks, Dispatchers
    <3>. QED BY <3>1 DEF Engaged
  <2>2. CASE UNCHANGED <<pub, d>>
    BY <2>2 DEF HookInv, Engaged, Recorded, At
  <2>. QED BY <2>1, <2>2 DEF JobMoves
<1>. QED BY <1>1, <1>2, <1>4, <1>5, <1>6 DEF HookInv, TablesGrow

LEMMA EnqueueKeeps ==
  ASSUME Inv, HookInv, [Next]_vars, NEW p \in Publishers, Enqueue(p)
  PROVE  HookInv'
<1>. USE DEF publicVars, vars
<1>1. p \in Tasks /\ d \in [Tasks -> Locals] /\ d[p] \in Locals /\ UNCHANGED <<pub, events>>
  BY DEF HookInv, HookTypeOK, Tasks, Dispatchers, Enqueue, ListHooks, ListExisting, Create, Enqueued
<1>2. Numbers' = Numbers
  BY <1>1 DEF Numbers
<1>3. WorkSound(p, d[p], DOMAIN deliveries, inbox, Numbers) /\ pub[p].saved \subseteq Numbers
  BY <1>1 DEF HookInv, WorksSound, SavedRecorded
<1>4. Recorded(p) /\ pub[p].saved # {}
  BY DEF HookInv, Engaged, Enqueue, ListHooks, ListExisting, Create, Enqueued, Is
<1>5. Numbers \subseteq Nat
  BY NumbersUsed DEF Inv, TypeOK
\* The request goes on with this left to create.
<1>6. ASSUME NEW pc \in {"enqueue", "create", "select"}, NEW create \in SUBSET (Hooks \X Numbers),
             TablesGrow, d' = [d EXCEPT ![p] = [d[p] EXCEPT !.pc = pc, !.create = create]],
             DOMAIN deliveries \subseteq (DOMAIN deliveries)'
      PROVE  HookInv'
  <2>1. PICK l : l = [d[p] EXCEPT !.pc = pc, !.create = create]
    OBVIOUS
  <2>2. l \in Locals /\ l.pc = pc /\ l.create = create /\ l.todo = d[p].todo
    BY <1>1, <1>5, <2>1 DEF Locals, TaskPCs, Keys
  <2>3. WorkSound(p, l, (DOMAIN deliveries)', inbox', Numbers')
    BY <1>2, <1>3, <1>6, <2>2 DEF WorkSound, Serving, Holding
  <2>4. d' = [d EXCEPT ![p] = l]
    BY <1>6, <2>1
  <2>. QED BY <1>1, <1>4, <1>6, <2>2, <2>3, <2>4, TaskMoves
<1>7. CASE ListHooks(p)
  <2> DEFINE active == {k \in Hooks : hooks[k].status = "active"}
  <2>1. PICK pc \in {"enqueue", "select"} :
          d' = [d EXCEPT ![p].pc = pc, ![p].create = active \X pub[p].saved]
    BY <1>7 DEF ListHooks
  <2>2. active \X pub[p].saved \in SUBSET (Hooks \X Numbers)
    BY <1>3
  <2>3. TablesGrow
    BY <1>7, SameTables DEF ListHooks, HookInv, HookTypeOK
  <2>4. UNCHANGED deliveries
    BY <1>7 DEF ListHooks
  <2>5. PICK create : create = active \X pub[p].saved
    OBVIOUS
  <2>6. d' = [d EXCEPT ![p] = [d[p] EXCEPT !.pc = pc, !.create = create]]
    BY <1>1, <2>1, <2>5 DEF Locals
  <2>7. create \in SUBSET (Hooks \X Numbers)
    BY <2>2, <2>5
  <2> HIDE DEF active
  <2>. QED BY <1>6, <2>3, <2>4, <2>6, <2>7
<1>8. CASE ListExisting(p)
  <2>1. TablesGrow
    BY <1>8, SameTables DEF ListExisting, HookInv, HookTypeOK
  <2>2. d[p].create \ DOMAIN deliveries \in SUBSET (Hooks \X Numbers)
    BY <1>3 DEF WorkSound
  <2>3. UNCHANGED deliveries
    BY <1>8 DEF ListExisting
  <2>4. PICK create : create = d[p].create \ DOMAIN deliveries
    OBVIOUS
  <2>5. d' = [d EXCEPT ![p] = [d[p] EXCEPT !.pc = "create", !.create = create]]
    BY <1>1, <1>8, <2>4 DEF ListExisting, Locals
  <2>6. create \in SUBSET (Hooks \X Numbers)
    BY <2>2, <2>4
  <2>. QED BY <1>6, <2>1, <2>3, <2>5, <2>6
<1>9. CASE Enqueued(p)
  <2>1. TablesGrow
    BY <1>9, SameTables DEF Enqueued, HookInv, HookTypeOK
  <2>2. UNCHANGED deliveries
    BY <1>9 DEF Enqueued
  <2>3. d' = [d EXCEPT ![p] = [d[p] EXCEPT !.pc = "select", !.create = {}]]
    BY <1>1, <1>9 DEF Enqueued, Locals
  <2>4. {} \in SUBSET (Hooks \X Numbers)
    OBVIOUS
  <2>. QED BY <1>6, <2>1, <2>2, <2>3, <2>4
<1>10. CASE Create(p)
  <2>1. PICK key : key = CHOOSE s \in d[p].create : \A t \in d[p].create :
                           s[1] < t[1] \/ (s[1] = t[1] /\ s[2] <= t[2])
    OBVIOUS
  <2>2. key \in d[p].create
    BY <1>1, <1>10, <2>1, FirstToCreate DEF Create, Locals
  <2>3. key \in Hooks \X Numbers
    BY <1>3, <2>2 DEF WorkSound
  <2>4. /\ deliveries' = [s \in DOMAIN deliveries \union {key} |->
                             IF s = key THEN NewDelivery ELSE deliveries[s]]
        /\ d' = [d EXCEPT ![p].create = d[p].create \ {key}]
        /\ UNCHANGED <<hooks, inbox, dropped, failures>> /\ d[p].pc = "create"
    BY <1>10, <2>1 DEF Create, Is
  <2>5. NewDelivery \in DeliveryRow /\ NewDelivery.status = "pending"
    BY DEF NewDelivery, DeliveryRow
  <2>6. TablesOK'
    BY <1>2, <2>3, <2>4, <2>5 DEF TablesOK, HookInv, HookTypeOK
  <2>7. MarksAreTrue'
    BY <2>4, <2>5 DEF HookInv, MarksAreTrue
  <2>8. TablesGrow
    BY <2>4, <2>6, <2>7 DEF TablesGrow
  <2>9. d' = [d EXCEPT ![p] = [d[p] EXCEPT !.pc = "create", !.create = d[p].create \ {key}]]
    BY <1>1, <2>4 DEF Locals
  <2>10. PICK create : create = d[p].create \ {key}
    OBVIOUS
  <2>11. create \in SUBSET (Hooks \X Numbers)
    BY <1>3, <2>10 DEF WorkSound
  <2>12. d' = [d EXCEPT ![p] = [d[p] EXCEPT !.pc = "create", !.create = create]]
    BY <2>9, <2>10
  <2>13. DOMAIN deliveries \subseteq (DOMAIN deliveries)'
    BY <2>4
  <2>. QED BY <1>6, <2>8, <2>11, <2>12, <2>13
<1>. QED BY <1>7, <1>8, <1>9, <1>10 DEF Enqueue
----------------------------------------------------------------------------
(* The steps of a dispatcher *)

\* Where a dispatcher goes from a delivery: to the next one, or out.
LEMMA AdvanceIs ==
  ASSUME Inv, HookInv, NEW x \in Dispatchers, d[x].pc \in Serving, Advance(x)
  PROVE  \E l \in Locals :
           /\ d' = [d EXCEPT ![x] = l]
           /\ l.pc \in {"free", "load"} /\ l.create = {} /\ l.todo \subseteq d[x].todo
           /\ l.pc = "load" => l.todo # {} /\ pub' = pub
           /\ l.pc = "free" /\ x \in Publishers => pub'[x].saved = {}
           /\ \A p \in Publishers \ {x} : pub'[p] = pub[p]
<1>. DEFINE rest == d[x].todo \ {Current(x)}
<1>1. d[x] \in Locals /\ pub \in [Publishers -> Requests]
  BY DEF HookInv, HookTypeOK, Inv, TypeOK, Tasks
<1>2. \A p \in Publishers \ {x} : pub'[p] = pub[p]
  BY <1>1 DEF Advance, Return
<1>3. CASE rest = {}
  <2>1. d' = [d EXCEPT ![x] = Free] /\ (x \in Publishers => Return(x))
    BY <1>3 DEF Advance
  <2>2. x \in Publishers => pub'[x].saved = {}
    BY <1>1, <2>1 DEF Return, NoRequest
  <2>. QED BY <1>2, <2>1, <2>2, FreeIs
<1>4. CASE rest # {}
  <2>1. PICK l : l = [Free EXCEPT !.pc = "load", !.todo = rest]
    OBVIOUS
  <2>2. rest \in SUBSET d[x].todo
    OBVIOUS
  <2>3. d' = [d EXCEPT ![x] = l] /\ UNCHANGED pub
    BY <1>4, <2>1 DEF Advance
  <2>. HIDE DEF rest
  <2>4. l \in Locals /\ l.pc = "load" /\ l.create = {} /\ l.todo = rest
    BY <1>1, <2>1, <2>2, FreeIs DEF Locals, TaskPCs
  <2>. QED BY <1>2, <1>4, <2>2, <2>3, <2>4
<1>. QED BY <1>3, <1>4

LEMMA AdvanceKeeps ==
  ASSUME Inv, HookInv, [Next]_vars, TablesGrow,
         NEW x \in Dispatchers, d[x].pc \in Serving, Advance(x)
  PROVE  HookInv'
<1>1. PICK l \in Locals :
         /\ d' = [d EXCEPT ![x] = l]
         /\ l.pc \in {"free", "load"} /\ l.create = {} /\ l.todo \subseteq d[x].todo
         /\ l.pc = "load" => l.todo # {} /\ pub' = pub
         /\ \A p \in Publishers \ {x} : pub'[p] = pub[p]
  BY AdvanceIs
<1>2. x \in Tasks /\ WorkSound(x, d[x], DOMAIN deliveries, inbox, Numbers)
  BY DEF HookInv, WorksSound, Tasks
<1>3. \A t \in l.todo : t.key \in (DOMAIN deliveries)'
  BY <1>1, <1>2 DEF WorkSound, TablesGrow
<1>4. WorkSound(x, l, (DOMAIN deliveries)', inbox', Numbers')
  BY <1>1, <1>3 DEF WorkSound, Serving, Holding
<1>5. x \in Publishers => Recorded(x) /\ pub[x].saved # {}
  BY DEF HookInv, Engaged, Serving
<1>. QED BY <1>1, <1>2, <1>4, <1>5, TaskMoves

\* The delivery at hand is written back with an outcome that is true.
LEMMA WriteGrows ==
  ASSUME Inv, HookInv, [Next]_vars, NEW x \in Dispatchers, d[x].pc \in Serving,
         NEW status \in {"delivered", "failed", "retrying"}, NEW due \in BOOLEAN,
         WriteDelivery(x, status, due), UNCHANGED <<hooks, inbox, failures>>,
         status = "delivered" => Current(x).key[2] \in inbox[Current(x).key[1]]
  PROVE  TablesGrow
<1>1. PICK s : s = Current(x)
  OBVIOUS
<1>2. s.key \in DOMAIN deliveries /\ s.row \in DeliveryRow
  BY <1>1, CurrentIs DEF Tasks
<1>3. PICK row : row = [status |-> status, attempts |-> s.row.attempts + 1, due |-> due]
  OBVIOUS
<1>4. row \in DeliveryRow /\ row.status = status
  BY <1>2, <1>3 DEF DeliveryRow
<1>5. deliveries' = [deliveries EXCEPT ![s.key] = row]
  BY <1>1, <1>3 DEF WriteDelivery
<1>6. dropped' \subseteq dropped \union {s.key}
  BY <1>1 DEF WriteDelivery
<1>7. Numbers \subseteq Numbers'
  BY LogStep DEF HookInv
<1>8. TablesOK'
  BY <1>2, <1>4, <1>5, <1>6, <1>7 DEF TablesOK, HookInv, HookTypeOK
<1>9. MarksAreTrue'
  BY <1>1, <1>4, <1>5 DEF HookInv, HookTypeOK, MarksAreTrue
<1>. QED BY <1>5, <1>8, <1>9 DEF TablesGrow

LEMMA SelectKeeps ==
  ASSUME Inv, HookInv, [Next]_vars, NEW x \in Dispatchers, Select(x)
  PROVE  HookInv'
<1>. DEFINE todo == {[key |-> s, row |-> deliveries[s]] : s \in Selected(x)}
<1>1. x \in Tasks /\ d \in [Tasks -> Locals] /\ d[x] \in Locals /\ pub \in [Publishers -> Requests]
  BY DEF HookInv, HookTypeOK, Inv, TypeOK, Tasks
<1>2. UNCHANGED <<hooks, deliveries, inbox, dropped, failures>> /\ TablesGrow
  BY SameTables DEF Select, HookInv, HookTypeOK
<1>3. \A p \in Publishers \ {x} : pub'[p] = pub[p]
  BY <1>1 DEF Select, Return
<1>4. CASE d' = [d EXCEPT ![x] = Free]
  BY <1>1, <1>2, <1>3, <1>4, FreeIs, TaskMoves
<1>5. CASE todo # {} /\ d' = [d EXCEPT ![x].pc = "load", ![x].todo = todo] /\ UNCHANGED pub
  <2>1. \A s \in Selected(x) : s \in DOMAIN deliveries /\ s \in Keys /\ deliveries[s] \in DeliveryRow
    <3>1. Selected(x) \subseteq DOMAIN deliveries
      BY DEF Selected, Dispatchable, Pending
    <3>2. Numbers \subseteq Nat
      BY NumbersUsed DEF Inv, TypeOK
    <3>. QED BY <3>1, <3>2 DEF HookInv, HookTypeOK, Keys
  <2>2. \A t \in todo : t.key \in DOMAIN deliveries /\ t.key \in Keys /\ t.row \in DeliveryRow
    BY <2>1
  <2>3. todo \in SUBSET [key : Keys, row : DeliveryRow]
    BY <2>1
  <2>. HIDE DEF todo
  <2>4. PICK l : l = [d[x] EXCEPT !.pc = "load", !.todo = todo]
    OBVIOUS
  <2>5. /\ l \in Locals /\ l.pc = "load" /\ l.todo = todo /\ l.create = d[x].create
        /\ d' = [d EXCEPT ![x] = l]
    BY <1>1, <1>5, <2>3, <2>4 DEF Locals, TaskPCs
  <2>6. WorkSound(x, d[x], DOMAIN deliveries, inbox, Numbers)
    BY <1>1 DEF HookInv, WorksSound
  <2>7. Numbers \subseteq Numbers'
    BY LogStep DEF HookInv
  <2>8. WorkSound(x, l, (DOMAIN deliveries)', inbox', Numbers')
    BY <1>2, <1>5, <2>2, <2>5, <2>6, <2>7 DEF WorkSound, Serving, Holding
  <2>9. x \in Publishers => Recorded(x) /\ pub[x].saved # {}
    <3>1. x \in Publishers => d[x].pc # "free"
      BY TasksAssumption DEF Select, Is, Dispatchers
    <3>. QED BY <3>1 DEF HookInv, Engaged
  <2>. QED BY <1>1, <1>2, <1>5, <2>5, <2>8, <2>9, TaskMoves
<1>. QED BY <1>4, <1>5 DEF Select

LEMMA LoadKeeps ==
  ASSUME Inv, HookInv, [Next]_vars, NEW x \in Dispatchers, Load(x)
  PROVE  HookInv'
<1>1. /\ x \in Tasks /\ d \in [Tasks -> Locals] /\ d[x] \in Locals
      /\ d[x].pc = "load" /\ d[x].pc \in Serving
  BY DEF HookInv, HookTypeOK, Tasks, Load, Is, Serving
<1>2. UNCHANGED <<pub, hooks, deliveries, inbox, dropped, failures>> /\ TablesGrow
  BY SameTables DEF Load, HookInv, HookTypeOK, publicVars, vars
<1>3. PICK k : k = Current(x).key[1]
  OBVIOUS
<1>4. k \in Hooks /\ k = First(d[x].todo).key[1]
  BY <1>1, <1>3, CurrentIs
<1>5. PICK row : row = hooks[k]
  OBVIOUS
<1>6. row \in HookRow /\ (row.last # 0 => row.last \in inbox[k])
  BY <1>4, <1>5 DEF HookInv, HookTypeOK, MarksAreTrue
<1>7. PICK pc \in {"post", "inactive"} : d' = [d EXCEPT ![x].hook = row, ![x].pc = pc]
  BY <1>3, <1>5 DEF Load
<1>8. PICK l : l = [d[x] EXCEPT !.hook = row, !.pc = pc]
  OBVIOUS
<1>9. /\ l \in Locals /\ l.pc = pc /\ l.hook = row /\ l.todo = d[x].todo /\ l.create = d[x].create
      /\ d' = [d EXCEPT ![x] = l]
  BY <1>1, <1>6, <1>7, <1>8 DEF Locals, TaskPCs
<1>10. WorkSound(x, d[x], DOMAIN deliveries, inbox, Numbers)
  BY <1>1 DEF HookInv, WorksSound
<1>11. WorkSound(x, l, DOMAIN deliveries, inbox, Numbers)
  BY <1>1, <1>4, <1>6, <1>9, <1>10 DEF WorkSound, Serving, Holding, HookOf
<1>12. WorkSound(x, l, (DOMAIN deliveries)', inbox', Numbers')
  BY <1>2, <1>9, <1>11, WorkGrows, LogStep DEF HookInv
<1>13. x \in Publishers => Recorded(x) /\ pub[x].saved # {}
  BY <1>1 DEF HookInv, Engaged
<1>. QED BY <1>1, <1>2, <1>9, <1>12, <1>13, TaskMoves

LEMMA InactiveKeeps ==
  ASSUME Inv, HookInv, [Next]_vars, NEW x \in Dispatchers, MarkInactive(x)
  PROVE  HookInv'
<1>1. d[x].pc \in Serving
  BY DEF MarkInactive, Is, Serving
<1>2. TablesGrow
  BY <1>1, WriteGrows DEF MarkInactive
<1>. QED BY <1>1, <1>2, AdvanceKeeps DEF MarkInactive

LEMMA PostKeeps ==
  ASSUME Inv, HookInv, [Next]_vars, NEW x \in Dispatchers, Post(x)
  PROVE  HookInv'
<1>1. /\ x \in Tasks /\ d \in [Tasks -> Locals] /\ d[x] \in Locals
      /\ d[x].pc = "post" /\ d[x].pc \in Serving
  BY DEF HookInv, HookTypeOK, Tasks, Post, Is, Serving
<1>2. PICK key : key = Current(x).key
  OBVIOUS
<1>3. key = First(d[x].todo).key /\ key[1] \in Hooks /\ key[2] \in Numbers
  BY <1>1, <1>2, CurrentIs
<1>4. PICK accepted \in BOOLEAN, ok \in BOOLEAN :
         /\ ok => accepted
         /\ inbox' = IF accepted THEN [inbox EXCEPT ![key[1]] = @ \union {key[2]}] ELSE inbox
         /\ d' = [d EXCEPT ![x].pc = "answered", ![x].ok = ok]
  BY <1>2 DEF Post
<1>5. UNCHANGED <<pub, events, hooks, deliveries, dropped, failures>>
  BY DEF Post, publicVars, vars
<1>6. inbox \in [Hooks -> SUBSET Numbers] /\ Numbers' = Numbers
  BY <1>5 DEF HookInv, HookTypeOK, Numbers
<1>7. /\ inbox' \in [Hooks -> SUBSET Numbers] /\ \A k \in Hooks : inbox[k] \subseteq inbox'[k]
      /\ accepted => key[2] \in inbox'[key[1]]
  BY <1>3, <1>4, <1>6
<1>8. TablesGrow
  <2>1. TablesOK'
    BY <1>5, <1>6, <1>7 DEF TablesOK, HookInv, HookTypeOK
  <2>2. MarksAreTrue'
    BY <1>5, <1>7 DEF MarksAreTrue, HookInv, HookTypeOK
  <2>. QED BY <1>5, <1>7, <2>1, <2>2 DEF TablesGrow
<1>9. PICK l : l = [d[x] EXCEPT !.pc = "answered", !.ok = ok]
  OBVIOUS
<1>10. /\ l \in Locals /\ l.pc = "answered" /\ l.ok = ok /\ l.hook = d[x].hook
       /\ l.todo = d[x].todo /\ l.create = d[x].create
       /\ d' = [d EXCEPT ![x] = l]
  BY <1>1, <1>4, <1>9 DEF Locals, TaskPCs
<1>11. WorkSound(x, d[x], DOMAIN deliveries, inbox, Numbers)
  BY <1>1 DEF HookInv, WorksSound
<1>12. WorkSound(x, d[x], DOMAIN deliveries, inbox', Numbers)
  BY <1>1, <1>7, <1>11, WorkGrows
<1>13. WorkSound(x, l, DOMAIN deliveries, inbox', Numbers)
  BY <1>1, <1>3, <1>4, <1>7, <1>10, <1>12 DEF WorkSound, Serving, Holding, HookOf
<1>14. WorkSound(x, l, (DOMAIN deliveries)', inbox', Numbers')
  BY <1>5, <1>6, <1>13
<1>15. x \in Publishers => Recorded(x) /\ pub[x].saved # {}
  BY <1>1 DEF HookInv, Engaged
<1>. QED BY <1>1, <1>5, <1>8, <1>10, <1>14, <1>15, TaskMoves

LEMMA MarkDeliveryKeeps ==
  ASSUME Inv, HookInv, [Next]_vars, NEW x \in Dispatchers, MarkDelivery(x)
  PROVE  HookInv'
<1>1. /\ x \in Tasks /\ d \in [Tasks -> Locals] /\ d[x] \in Locals
      /\ d[x].pc = "answered" /\ d[x].pc \in Serving
  BY DEF HookInv, HookTypeOK, Tasks, MarkDelivery, Is, Serving
<1>2. WorkSound(x, d[x], DOMAIN deliveries, inbox, Numbers)
  BY <1>1 DEF HookInv, WorksSound
<1>3. d[x].ok => Current(x).key[2] \in inbox[Current(x).key[1]]
  BY <1>1, <1>2, CurrentIs DEF WorkSound
<1>4. TablesGrow
  <2>1. UNCHANGED <<hooks, inbox, failures>>
    BY DEF MarkDelivery
  <2>2. CASE d[x].ok /\ WriteDelivery(x, "delivered", TRUE)
    BY <1>1, <1>3, <2>1, <2>2, WriteGrows
  <2>3. CASE WriteDelivery(x, "failed", TRUE)
    BY <1>1, <2>1, <2>3, WriteGrows
  <2>4. CASE WriteDelivery(x, "retrying", FALSE)
    BY <1>1, <2>1, <2>4, WriteGrows
  <2>. QED BY <2>2, <2>3, <2>4 DEF MarkDelivery
<1>5. PICK l : l = [d[x] EXCEPT !.pc = "marked"]
  OBVIOUS
<1>6. /\ l \in Locals /\ l.pc = "marked" /\ l.ok = d[x].ok /\ l.hook = d[x].hook
      /\ l.todo = d[x].todo /\ l.create = d[x].create
      /\ d' = [d EXCEPT ![x] = l] /\ UNCHANGED pub
  BY <1>1, <1>5 DEF MarkDelivery, Locals, TaskPCs, publicVars, vars
<1>7. WorkSound(x, l, DOMAIN deliveries, inbox, Numbers)
  BY <1>1, <1>2, <1>6 DEF WorkSound, Serving, Holding, HookOf
<1>8. WorkSound(x, l, (DOMAIN deliveries)', inbox', Numbers')
  BY <1>4, <1>6, <1>7, WorkGrows, LogStep DEF TablesGrow, HookInv
<1>9. x \in Publishers => Recorded(x) /\ pub[x].saved # {}
  BY <1>1 DEF HookInv, Engaged
<1>. QED BY <1>1, <1>4, <1>6, <1>8, <1>9, TaskMoves

LEMMA MarkHookKeeps ==
  ASSUME Inv, HookInv, [Next]_vars, NEW x \in Dispatchers, MarkHook(x)
  PROVE  HookInv'
<1>1. /\ x \in Tasks /\ d[x] \in Locals /\ d[x].pc = "marked" /\ d[x].pc \in Serving
  BY DEF HookInv, HookTypeOK, Tasks, MarkHook, Is, Serving
<1>2. PICK key : key = Current(x).key
  OBVIOUS
<1>3. /\ key = First(d[x].todo).key /\ key[1] \in Hooks /\ key[2] \in Numbers /\ key[2] \in Nat
  <2>1. Numbers \subseteq Nat
    BY NumbersUsed DEF Inv, TypeOK
  <2>. QED BY <1>1, <1>2, <2>1, CurrentIs
<1>4. PICK last : last = IF d[x].ok THEN Max({d[x].hook.last, key[2]}) ELSE d[x].hook.last
  OBVIOUS
<1>5. WorkSound(x, d[x], DOMAIN deliveries, inbox, Numbers)
  BY <1>1 DEF HookInv, WorksSound
<1>6. last \in Nat /\ (last # 0 => last \in inbox[key[1]])
  <2>1. d[x].hook.last \in Nat /\ (d[x].hook.last # 0 => d[x].hook.last \in inbox[key[1]])
    BY <1>1, <1>3, <1>5 DEF WorkSound, Serving, Holding, HookOf, Locals, HookRow
  <2>2. d[x].ok => key[2] \in inbox[key[1]]
    BY <1>1, <1>3, <1>5 DEF WorkSound
  <2>3. last \in {d[x].hook.last, key[2]} /\ (last = d[x].hook.last \/ d[x].ok)
    BY <1>3, <1>4, <2>1, MaxOfTwo
  <2>. QED BY <1>3, <2>1, <2>2, <2>3
<1>7. PICK row : row = [d[x].hook EXCEPT !.last = last]
  OBVIOUS
<1>8. row \in HookRow /\ row.last = last
  BY <1>1, <1>6, <1>7 DEF Locals, HookRow
<1>9. hooks' = [hooks EXCEPT ![key[1]] = row]
  BY <1>2, <1>4, <1>7 DEF MarkHook
<1>10. UNCHANGED <<events, deliveries, inbox, dropped, failures>> /\ Numbers' = Numbers
  BY DEF MarkHook, Numbers
<1>11. TablesOK'
  BY <1>8, <1>9, <1>10 DEF TablesOK, HookInv, HookTypeOK
<1>12. MarksAreTrue'
  BY <1>3, <1>6, <1>8, <1>9, <1>10 DEF MarksAreTrue, HookInv, HookTypeOK
<1>13. TablesGrow
  BY <1>10, <1>11, <1>12 DEF TablesGrow
<1>. QED BY <1>1, <1>13, AdvanceKeeps DEF MarkHook
----------------------------------------------------------------------------
(* Operators, failures and time *)

LEMMA SweepFailsKeeps ==
  ASSUME Inv, HookInv, [Next]_vars, NEW w \in Sweepers, SweepFails(w)
  PROVE  HookInv'
<1>1. failures' \in Nat /\ UNCHANGED <<pub, hooks, deliveries, inbox, dropped>>
  BY DEF SweepFails, HookInv, HookTypeOK, publicVars, vars
<1>2. TablesGrow
  BY <1>1, SameTables
<1>. QED BY <1>1, <1>2, FreeIs, TaskMoves DEF SweepFails, Tasks, Dispatchers

LEMMA RegisterKeeps ==
  ASSUME Inv, HookInv, [Next]_vars, NEW k \in Hooks, Register(k)
  PROVE  HookInv'
<1>1. /\ UNCHANGED <<pub, events, deliveries, inbox, dropped, d, failures>>
      /\ hooks' = [hooks EXCEPT ![k].status = "active"]
  BY DEF Register, publicVars, vars
<1>2. Numbers' = Numbers /\ SavedRecorded'
  BY <1>1, LogStep DEF Numbers, HookInv
<1>3. hooks' \in [Hooks -> HookRow] /\ \A h \in Hooks : hooks'[h].last = hooks[h].last
  BY <1>1 DEF HookInv, HookTypeOK, HookRow
<1>4. HookTypeOK'
  BY <1>1, <1>2, <1>3 DEF HookInv, HookTypeOK
<1>5. WorksSound' /\ Engaged' /\ MarksAreTrue'
  BY <1>1, <1>2, <1>3 DEF HookInv, WorksSound, Engaged, Recorded, At, MarksAreTrue
<1>. QED BY <1>2, <1>4, <1>5 DEF HookInv

LEMMA ReadToDisableKeeps ==
  ASSUME Inv, HookInv, [Next]_vars, NEW k \in Hooks, NEW o \in Operators, ReadToDisable(o, k)
  PROVE  HookInv'
<1>1. /\ o \in Tasks /\ o \notin Publishers
      /\ UNCHANGED <<pub, events, hooks, deliveries, inbox, dropped, failures>>
  BY TasksAssumption DEF ReadToDisable, Tasks, Dispatchers, publicVars, vars
<1>2. TablesGrow
  BY <1>1, SameTables DEF HookInv, HookTypeOK
<1>3. PICK row : row = hooks[k]
  OBVIOUS
<1>4. row \in HookRow /\ (row.last # 0 => row.last \in inbox[k])
  BY <1>3 DEF HookInv, HookTypeOK, MarksAreTrue
<1>5. PICK l : l = [Free EXCEPT !.pc = "disable", !.hook = row, !.of = k]
  OBVIOUS
<1>6. /\ l \in Locals /\ l.pc = "disable" /\ l.hook = row /\ l.of = k
      /\ l.todo = {} /\ l.create = {} /\ d' = [d EXCEPT ![o] = l]
  BY <1>3, <1>4, <1>5, FreeIs, HooksAssumption DEF ReadToDisable, Locals, TaskPCs
<1>7. WorkSound(o, l, (DOMAIN deliveries)', inbox', Numbers')
  BY <1>1, <1>4, <1>6 DEF WorkSound, Serving, Holding, HookOf
<1>. QED BY <1>1, <1>2, <1>6, <1>7, TaskMoves

LEMMA DisableKeeps ==
  ASSUME Inv, HookInv, [Next]_vars, NEW o \in Operators, Disable(o)
  PROVE  HookInv'
<1>1. /\ o \in Tasks /\ o \notin Publishers /\ d[o] \in Locals /\ d[o].pc = "disable"
      /\ UNCHANGED <<pub, events, deliveries, inbox, dropped, failures>>
  BY TasksAssumption
     DEF Disable, Is, HookInv, HookTypeOK, Tasks, Dispatchers, publicVars, vars
<1>2. WorkSound(o, d[o], DOMAIN deliveries, inbox, Numbers)
  BY <1>1 DEF HookInv, WorksSound
<1>3. PICK row : row = [d[o].hook EXCEPT !.status = "disabled"]
  OBVIOUS
<1>4. PICK k : k = d[o].of
  OBVIOUS
<1>5. /\ k \in Hooks /\ row \in HookRow /\ (row.last # 0 => row.last \in inbox[k])
      /\ hooks' = [hooks EXCEPT ![k] = row]
  BY <1>1, <1>2, <1>3, <1>4 DEF WorkSound, HookOf, Locals, HookRow, Disable
<1>6. Numbers' = Numbers
  BY <1>1 DEF Numbers
<1>7. TablesOK'
  BY <1>1, <1>5, <1>6 DEF TablesOK, HookInv, HookTypeOK
<1>8. MarksAreTrue'
  BY <1>1, <1>5 DEF MarksAreTrue, HookInv, HookTypeOK
<1>9. TablesGrow
  BY <1>1, <1>7, <1>8 DEF TablesGrow
<1>10. d' = [d EXCEPT ![o] = Free]
  BY DEF Disable
<1>. QED BY <1>1, <1>9, <1>10, FreeIs, TaskMoves

LEMMA BackoffKeeps ==
  ASSUME Inv, HookInv, [Next]_vars, NEW s \in DOMAIN deliveries, BackoffEnds(s)
  PROVE  HookInv'
<1>1. /\ UNCHANGED <<pub, events, hooks, inbox, dropped, d, failures>>
      /\ deliveries' = [deliveries EXCEPT ![s].due = TRUE]
  BY DEF BackoffEnds, publicVars, vars
<1>2. Numbers' = Numbers /\ SavedRecorded'
  BY <1>1, LogStep DEF Numbers, HookInv
<1>3. /\ (DOMAIN deliveries)' = DOMAIN deliveries /\ deliveries' \in [DOMAIN deliveries -> DeliveryRow]
      /\ \A t \in DOMAIN deliveries : deliveries'[t].status = deliveries[t].status
  BY <1>1 DEF HookInv, HookTypeOK, DeliveryRow
<1>4. HookTypeOK'
  BY <1>1, <1>2, <1>3 DEF HookInv, HookTypeOK
<1>5. WorksSound' /\ Engaged' /\ MarksAreTrue'
  BY <1>1, <1>2, <1>3 DEF HookInv, WorksSound, Engaged, Recorded, At, MarksAreTrue
<1>. QED BY <1>2, <1>4, <1>5 DEF HookInv
----------------------------------------------------------------------------
(* The theorems *)

LEMMA HookStart == ASSUME Init, HookInit PROVE HookInv
<1>1. /\ events = <<>> /\ Numbers = {} /\ DOMAIN deliveries = {}
      /\ pub = [p \in Publishers |-> NoRequest] /\ NoRequest.saved = {}
  BY DEF Init, HookInit, Numbers, Range, NoRequest
<1>2. NoHook \in HookRow /\ NoHook.last = 0
  BY DEF NoHook, HookRow
<1>3. HookTypeOK
  BY <1>1, <1>2, FreeIs DEF HookInit, HookTypeOK
<1>4. WorksSound
  BY FreeIs DEF HookInit, WorksSound
<1>5. Engaged /\ SavedRecorded /\ MarksAreTrue
  BY <1>1, <1>2, FreeIs
     DEF HookInit, Engaged, SavedRecorded, MarksAreTrue, Tasks, Dispatchers
<1>. QED BY <1>3, <1>4, <1>5 DEF HookInv

LEMMA HookStep == ASSUME Inv, HookInv, [HookNext]_hookSystem PROVE HookInv'
<1>1. [Next]_vars
  BY LogMoves DEF HookInv
<1>2. ASSUME NEW p \in Publishers, Record(p) \/ NothingRecorded(p) \/ Enqueue(p)
      PROVE  HookInv'
  BY <1>1, <1>2, RecordKeeps, AnswerKeeps, EnqueueKeeps
<1>3. ASSUME NEW x \in Dispatchers, Dispatch(x)
      PROVE  HookInv'
  BY <1>1, <1>3, SelectKeeps, LoadKeeps, InactiveKeeps, PostKeeps, MarkDeliveryKeeps,
     MarkHookKeeps DEF Dispatch
<1>4. ASSUME NEW k \in Hooks, Register(k) \/ \E o \in Operators : ReadToDisable(o, k)
      PROVE  HookInv'
  BY <1>1, <1>4, RegisterKeeps, ReadToDisableKeeps
<1>5. CASE (\E w \in Sweepers : SweepFails(w)) \/ (\E o \in Operators : Disable(o)) \/ TimePasses
  BY <1>1, <1>5, SweepFailsKeeps, DisableKeeps, BackoffKeeps DEF TimePasses
<1>6. CASE (JobMoves /\ UNCHANGED hookVars) \/ Restart \/ UNCHANGED hookSystem
  BY <1>1, <1>6, QuietKeeps
<1>. QED BY <1>2, <1>3, <1>4, <1>5, <1>6 DEF HookNext

LEMMA HookInvariance == HookSpec => [](Inv /\ HookInv)
<1>1. Init /\ HookInit => Inv /\ HookInv
  BY HookStart, InitInv
<1>2. Inv /\ HookInv /\ [HookNext]_hookSystem => (Inv /\ HookInv)'
  <2>. SUFFICES ASSUME Inv, HookInv, [HookNext]_hookSystem PROVE (Inv /\ HookInv)'
    OBVIOUS
  <2>1. [Next]_vars
    BY LogMoves DEF HookInv
  <2>. QED BY <2>1, HookStep, StepInv
<1>. QED BY <1>1, <1>2, PTL DEF HookSpec

\* Whoever enqueues, dispatches, sweeps, registers or disables only takes steps
\* of the event log of the public task: a request is ended where the log lets it
\* end, and no row of the log is written. All that is proved of the log holds
\* while webhooks are delivered.
THEOREM LogKept == HookSpec => Spec
<1>1. HookInv /\ [HookNext]_hookSystem => [Next]_vars
  BY LogMoves DEF HookInv
<1>. QED BY <1>1, HookInvariance, PTL DEF HookSpec, Spec

\* The rows and the local variables of every task stay well formed, and a
\* delivery is kept for recorded events of registrations only.
THEOREM HookTypes == HookSpec => []HookTypeOK
<1>1. HookInv => HookTypeOK
  BY DEF HookInv
<1>. QED BY <1>1, HookInvariance, PTL

\* However many dispatchers overwrite the rows with what they had read before,
\* and wherever a crash or an exception ends them: what a delivery row or a
\* last_delivered_sequence says was delivered, the receiver has accepted.
THEOREM MarksHold == HookSpec => []MarksAreTrue
<1>1. HookInv => MarksAreTrue
  BY DEF HookInv
<1>. QED BY <1>1, HookInvariance, PTL
----------------------------------------------------------------------------
(* The order of deliveries, when the requests for the task come one by one *)

\* One task moves on, to no delivery that it did not have; no receiver accepts
\* anything and no delivery is created.
LEMMA OrderMoves ==
  ASSUME HookInv, OrderInv, NEW x \in Tasks, NEW l, d' = [d EXCEPT ![x] = l],
         (DOMAIN deliveries)' = DOMAIN deliveries, inbox' = inbox, dropped \subseteq dropped',
         \A s \in DOMAIN deliveries : deliveries'[s].status = "failed" => s \in dropped',
         l.todo \subseteq d[x].todo,
         \A p \in Publishers \ {x} : pub'[p] = pub[p],
         x \in Publishers => QueueSound(l, pub'[x].saved, DOMAIN deliveries)
  PROVE  OrderInv'
<1>1. \A y \in Tasks : d'[y] = IF y = x THEN l ELSE d[y]
  BY DEF HookInv, HookTypeOK
<1>2. \A y \in Tasks : TurnSound(d'[y], DOMAIN deliveries, inbox, dropped')
  BY <1>1 DEF OrderInv, TurnSound
<1>3. \A p \in Publishers : QueueSound(d'[p], pub'[p].saved, DOMAIN deliveries)
  BY <1>1 DEF OrderInv, Tasks, Dispatchers
<1>4. (\A y \in Tasks : TurnSound(d[y], DOMAIN deliveries, inbox, dropped))'
  BY <1>2 DEF TurnSound
<1>5. (\A p \in Publishers : QueueSound(d[p], pub[p].saved, DOMAIN deliveries))'
  BY <1>3 DEF QueueSound
<1>6. OrderPreserved'
  BY DEF OrderInv, OrderPreserved
<1>. QED BY <1>4, <1>5, <1>6 DEF OrderInv

\* What a request holds when it is answered, fails or has nothing left.
LEMMA QueueEmpty ==
  ASSUME NEW known, NEW l, l.create = {}, l.pc \in {"free", "load"}
  PROVE  QueueSound(l, {}, known) /\ \A saved : l.pc = "load" => QueueSound(l, saved, known)
BY DEF QueueSound

LEMMA AdvanceOrder ==
  ASSUME Inv, HookInv, OrderInv, NEW x \in Dispatchers, d[x].pc \in Serving, Advance(x),
         (DOMAIN deliveries)' = DOMAIN deliveries, inbox' = inbox, dropped \subseteq dropped',
         \A s \in DOMAIN deliveries : deliveries'[s].status = "failed" => s \in dropped'
  PROVE  OrderInv'
<1>1. PICK l \in Locals :
         /\ d' = [d EXCEPT ![x] = l]
         /\ l.pc \in {"free", "load"} /\ l.create = {} /\ l.todo \subseteq d[x].todo
         /\ l.pc = "load" => l.todo # {} /\ pub' = pub
         /\ l.pc = "free" /\ x \in Publishers => pub'[x].saved = {}
         /\ \A p \in Publishers \ {x} : pub'[p] = pub[p]
  BY AdvanceIs
<1>2. x \in Publishers => QueueSound(l, pub'[x].saved, DOMAIN deliveries)
  BY <1>1, QueueEmpty
<1>3. x \in Tasks
  BY DEF Tasks
<1>. QED BY <1>1, <1>2, <1>3, OrderMoves

\* A delivery that is written back as failed has been dropped.
LEMMA WriteDrops ==
  ASSUME HookInv, OrderInv, NEW x, NEW status, NEW due, WriteDelivery(x, status, due)
  PROVE  /\ (DOMAIN deliveries)' = DOMAIN deliveries /\ dropped \subseteq dropped'
         /\ \A s \in DOMAIN deliveries : deliveries'[s].status = "failed" => s \in dropped'
<1>1. PICK k : k = Current(x).key
  OBVIOUS
<1>2. PICK row : row = [status |-> status, attempts |-> Current(x).row.attempts + 1, due |-> due]
  OBVIOUS
<1>3. /\ deliveries' = [deliveries EXCEPT ![k] = row] /\ row.status = status
      /\ dropped' = IF status = "failed" THEN dropped \union {k} ELSE dropped
  BY <1>1, <1>2 DEF WriteDelivery
<1>4. \A s \in DOMAIN deliveries : deliveries[s].status = "failed" => s \in dropped
  BY DEF OrderInv
<1>. QED BY <1>3, <1>4

\* The numbers a request has recorded come after all that is enqueued, for
\* whatever is enqueued was recorded before.
LEMMA RecordAfter ==
  ASSUME Inv, HookInv, NEW p \in Publishers, Publish(p),
         d[p].pc = "free" => \A n \in pub[p].saved, s \in DOMAIN deliveries : s[2] < n
  PROVE  \A n \in pub'[p].saved, s \in DOMAIN deliveries : s[2] < n
<1>1. pub \in [Publishers -> Requests] /\ NoRequest.saved = {} /\ Len(events) \in Nat
  BY DEF Inv, TypeOK, NoRequest
<1>2. CASE Return(p)
  BY <1>1, <1>2 DEF Return
<1>3. CASE ~Return(p)
  <2>1. ~Recorded(p)
    BY <1>3 DEF Publish, Recorded, At, ReadPrevious, ReadJob, ReadPhase, ReadArtifacts, ReadTask,
                SaveTask, BuildSpecs, NextSequence, Insert, Abort
  <2>2. d[p].pc = "free"
    BY <2>1 DEF HookInv, Engaged
  <2>3. CASE Insert(p)
    <3>1. /\ pub[p].sequence \notin Numbers
          /\ pub' = [pub EXCEPT ![p].pc = "append", ![p].specs = Tail(@), ![p].sequence = 0,
                                ![p].saved = @ \union {pub[p].sequence}]
      BY <1>3, <2>3 DEF Insert
    <3>2. pub'[p].saved = pub[p].saved \union {pub[p].sequence}
      BY <1>1, <3>1 DEF Requests
    <3>3. pub[p].sequence \in 1 .. Len(events) + 1
      BY <2>3 DEF Insert, At, Inv, RequestsSound, RequestSound
    <3>4. Numbers = 1 .. Len(events)
      BY NumbersUsed DEF Inv, TypeOK
    <3>5. \A s \in DOMAIN deliveries : s[2] \in Numbers
      BY DEF HookInv, HookTypeOK
    <3>6. \A s \in DOMAIN deliveries : s[2] < pub[p].sequence
      BY <1>1, <3>1, <3>3, <3>4, <3>5
    <3>. QED BY <2>2, <3>2, <3>6
  <2>4. ASSUME NEW l, pub' = [pub EXCEPT ![p] = l], l.saved = pub[p].saved
        PROVE  \A n \in pub'[p].saved, s \in DOMAIN deliveries : s[2] < n
    BY <1>1, <2>2, <2>4
  <2>5. CASE ReadPhase(p)
    <3>1. PICK c : c = [pub[p].current EXCEPT !.phase = job.phase]
      OBVIOUS
    <3>2. PICK l : l = [pub[p] EXCEPT !.pc = "readArtifacts", !.current = c]
      OBVIOUS
    <3>3. l.saved = pub[p].saved
      BY <1>1, <3>2 DEF Requests
    <3>4. pub' = [pub EXCEPT ![p] = l]
      BY <1>1, <2>5, <3>1, <3>2 DEF ReadPhase, Requests
    <3>. QED BY <2>4, <3>3, <3>4
  <2>6. CASE ReadArtifacts(p)
    <3>1. PICK c : c = [pub[p].current EXCEPT !.artifacts = job.artifacts]
      OBVIOUS
    <3>2. PICK l : l = [pub[p] EXCEPT !.pc = "readTask", !.current = c]
      OBVIOUS
    <3>3. l.saved = pub[p].saved
      BY <1>1, <3>2 DEF Requests
    <3>4. pub' = [pub EXCEPT ![p] = l]
      BY <1>1, <2>6, <3>1, <3>2 DEF ReadArtifacts, Requests
    <3>. QED BY <2>4, <3>3, <3>4
  <2>7. CASE ReadPrevious(p) \/ ReadJob(p) \/ ReadTask(p)
    <3>1. pub'[p].saved = pub[p].saved
      BY <1>1, <2>7 DEF ReadPrevious, ReadJob, ReadTask, Requests
    <3>. QED BY <2>2, <3>1
  <2>8. CASE SaveTask(p) \/ NextSequence(p)
    <3>1. pub'[p].saved = pub[p].saved
      BY <1>1, <1>3, <2>8 DEF SaveTask, NextSequence, Requests
    <3>. QED BY <2>2, <3>1
  <2>9. CASE BuildSpecs(p)
    <3>1. PICK specs : pub' = [pub EXCEPT ![p].pc = "append", ![p].specs = specs,
                                          ![p].previous = NoTask]
      BY <2>9 DEF BuildSpecs
    <3>2. pub'[p].saved = pub[p].saved
      BY <1>1, <3>1 DEF Requests
    <3>. QED BY <2>2, <3>2
  <2>. QED BY <1>3, <2>3, <2>5, <2>6, <2>7, <2>8, <2>9 DEF Publish, Abort
<1>. QED BY <1>2, <1>3

LEMMA RequestOrder ==
  ASSUME Inv, HookInv, OrderInv, NEW p \in Publishers, Record(p) \/ NothingRecorded(p)
  PROVE  OrderInv'
<1>1. /\ p \in Tasks /\ UNCHANGED <<deliveries, inbox, dropped>>
      /\ d \in [Tasks -> Locals] /\ pub \in [Publishers -> Requests]
  BY DEF Record, NothingRecorded, hookVars, Tasks, Dispatchers, HookInv, HookTypeOK, Inv, TypeOK
<1>2. \A s \in DOMAIN deliveries : deliveries'[s].status = "failed" => s \in dropped'
  BY <1>1 DEF OrderInv
<1>3. d[p].pc = "free" => \A n \in pub[p].saved, s \in DOMAIN deliveries : s[2] < n
  BY DEF OrderInv, QueueSound
<1>4. CASE Record(p)
  <2>1. \A n \in pub'[p].saved, s \in DOMAIN deliveries : s[2] < n
    BY <1>3, <1>4, RecordAfter DEF Record
  <2>2. QueueSound(Free, pub'[p].saved, DOMAIN deliveries)
    BY <2>1, FreeIs DEF QueueSound
  <2>3. \A o \in Publishers \ {p} : pub'[o] = pub[o]
    BY <1>1, <1>4, PublishOwn DEF Record
  <2>4. d' = [d EXCEPT ![p] = Free] /\ Free.todo \subseteq d[p].todo
    BY <1>4, FreeIs DEF Record
  <2>. QED BY <1>1, <1>2, <2>2, <2>3, <2>4, OrderMoves
<1>5. CASE NothingRecorded(p)
  <2>1. PICK l : l = d[p]
    OBVIOUS
  <2>2. d' = [d EXCEPT ![p] = l] /\ l.todo \subseteq d[p].todo
    BY <1>1, <1>5, <2>1 DEF NothingRecorded, hookVars
  <2>3. d[p].pc = "free" /\ pub'[p].saved = {}
    BY <1>1, <1>5 DEF NothingRecorded, Answer, Return, NoRequest, HookInv, Engaged
  <2>4. QueueSound(l, pub'[p].saved, DOMAIN deliveries)
    BY <2>1, <2>3 DEF QueueSound
  <2>5. \A o \in Publishers \ {p} : pub'[o] = pub[o]
    BY <1>1, <1>5 DEF NothingRecorded, Answer, Return
  <2>. QED BY <1>1, <1>2, <2>2, <2>4, <2>5, OrderMoves
<1>. QED BY <1>4, <1>5

\* What is enqueued for a registration comes after all that it has been sent.
LEMMA CreateOrder ==
  ASSUME Inv, HookInv, OrderInv, \A p, q \in Publishers : p = q,
         NEW p \in Publishers, Create(p)
  PROVE  OrderInv'
<1>1. /\ p \in Tasks /\ d \in [Tasks -> Locals] /\ d[p] \in Locals /\ UNCHANGED pub
      /\ \A s \in DOMAIN deliveries : s[1] \in Hooks /\ s[2] \in Nat
      /\ inbox \in [Hooks -> SUBSET Nat]
      /\ d[p].create \in SUBSET Keys /\ DOMAIN deliveries \subseteq Hooks \X Nat
  <2>1. Numbers \subseteq Nat
    BY NumbersUsed DEF Inv, TypeOK
  <2>. QED BY <2>1 DEF Tasks, Dispatchers, HookInv, HookTypeOK, Locals, Create, publicVars, vars
<1>2. PICK key : key = CHOOSE s \in d[p].create : \A t \in d[p].create :
                         s[1] < t[1] \/ (s[1] = t[1] /\ s[2] <= t[2])
  OBVIOUS
<1>3. \E s \in d[p].create : \A t \in d[p].create :
        s[1] < t[1] \/ (s[1] = t[1] /\ s[2] <= t[2])
  BY <1>1, FirstToCreate DEF Create
<1>4. /\ key \in d[p].create
      /\ \A t \in d[p].create : key[1] < t[1] \/ (key[1] = t[1] /\ key[2] <= t[2])
  BY <1>2, <1>3
<1>5. /\ deliveries' = [s \in DOMAIN deliveries \union {key} |->
                          IF s = key THEN NewDelivery ELSE deliveries[s]]
      /\ d' = [d EXCEPT ![p].create = d[p].create \ {key}]
      /\ UNCHANGED <<inbox, dropped>> /\ d[p].pc = "create"
  BY <1>2 DEF Create, Is
<1>6. key \in Hooks \X Nat /\ key = <<key[1], key[2]>> /\ key[1] \in Hooks /\ key[2] \in Nat
  BY <1>1, <1>4 DEF Keys
<1>7. \A s \in DOMAIN deliveries : s[1] = key[1] => s[2] < key[2]
  BY <1>4, <1>5 DEF OrderInv, QueueSound
<1>8. (DOMAIN deliveries)' = DOMAIN deliveries \union {key}
  BY <1>5
<1>9. OrderPreserved'
  <2>1. ASSUME NEW n \in inbox[key[1]] PROVE n < key[2]
    <3>1. <<key[1], n>> \in DOMAIN deliveries
      BY <1>6 DEF OrderInv
    <3>. QED BY <1>7, <3>1
  <2>2. \A n \in inbox[key[1]] : ~(n > key[2])
    BY <1>1, <1>6, <2>1
  <2>. QED BY <1>5, <1>8, <2>2 DEF OrderInv, OrderPreserved
<1>10. \A k \in Hooks : \A n \in inbox'[k] : <<k, n>> \in (DOMAIN deliveries)'
  BY <1>5, <1>8 DEF OrderInv
<1>11. \A s \in (DOMAIN deliveries)' : deliveries'[s].status = "failed" => s \in dropped'
  <2>1. NewDelivery.status # "failed"
    BY DEF NewDelivery
  <2>. QED BY <1>5, <2>1 DEF OrderInv
<1>12. \A x \in Tasks : d'[x].todo = d[x].todo /\ d'[x].pc = d[x].pc
  BY <1>1, <1>5 DEF Locals
<1>13. ASSUME NEW x \in Tasks
       PROVE  TurnSound(d'[x], (DOMAIN deliveries)', inbox', dropped')
  <2>1. ASSUME NEW t \in d[x].todo PROVE ~Before(key, t.key)
    <3>1. t.key \in DOMAIN deliveries
      BY DEF HookInv, WorksSound, WorkSound
    <3>2. key[1] = t.key[1] => t.key[2] < key[2]
      BY <1>7, <3>1
    <3>. QED BY <1>1, <1>6, <3>1, <3>2 DEF Before
  <2>2. TurnSound(d[x], DOMAIN deliveries, inbox, dropped)
    BY DEF OrderInv
  <2>. QED BY <1>5, <1>8, <1>12, <2>1, <2>2 DEF TurnSound
<1>14. ASSUME NEW q \in Publishers
       PROVE  QueueSound(d'[q], pub'[q].saved, (DOMAIN deliveries)')
  <2>1. q = p /\ d'[p].pc = "create" /\ d'[p].create = d[p].create \ {key}
    BY <1>1, <1>5 DEF Locals
  <2>2. QueueSound(d[p], pub[p].saved, DOMAIN deliveries)
    BY DEF OrderInv
  <2>3. ASSUME NEW c \in d[p].create \ {key}, c[1] = key[1]
        PROVE  key[2] < c[2]
    <3>1. c = <<c[1], c[2]>> /\ c[2] \in Nat
      BY <1>1 DEF Keys
    <3>2. key[2] <= c[2] /\ key[2] # c[2]
      BY <1>1, <1>4, <1>6, <2>3, <3>1, HooksAssumption
    <3>. QED BY <1>6, <3>1, <3>2
  <2>4. \A c \in d'[p].create, s \in (DOMAIN deliveries)' : s[1] = c[1] => s[2] < c[2]
    BY <1>5, <1>8, <2>1, <2>2, <2>3 DEF QueueSound
  <2>. QED BY <2>1, <2>4 DEF QueueSound
<1>15. (\A x \in Tasks : TurnSound(d[x], DOMAIN deliveries, inbox, dropped))'
  BY <1>13 DEF TurnSound, Before
<1>16. (\A q \in Publishers : QueueSound(d[q], pub[q].saved, DOMAIN deliveries))'
  BY <1>14 DEF QueueSound
<1>. QED BY <1>9, <1>10, <1>11, <1>15, <1>16 DEF OrderInv

LEMMA EnqueueOrder ==
  ASSUME Inv, HookInv, OrderInv, \A p, q \in Publishers : p = q,
         NEW p \in Publishers, Enqueue(p)
  PROVE  OrderInv'
<1>1. p \in Tasks /\ d \in [Tasks -> Locals] /\ d[p] \in Locals
  BY DEF HookInv, HookTypeOK, Tasks, Dispatchers
<1>2. \A s \in DOMAIN deliveries : deliveries[s].status = "failed" => s \in dropped
  BY DEF OrderInv
<1>3. QueueSound(d[p], pub[p].saved, DOMAIN deliveries)
  BY DEF OrderInv
<1>4. ASSUME NEW pc, NEW create, UNCHANGED <<pub, deliveries, inbox, dropped>>,
             d' = [d EXCEPT ![p] = [d[p] EXCEPT !.pc = pc, !.create = create]],
             \A l : l.pc = pc /\ l.create = create => QueueSound(l, pub[p].saved, DOMAIN deliveries)
      PROVE  OrderInv'
  <2>1. PICK l : l = [d[p] EXCEPT !.pc = pc, !.create = create]
    OBVIOUS
  <2>2. l.pc = pc /\ l.create = create /\ l.todo = d[p].todo /\ d' = [d EXCEPT ![p] = l]
    BY <1>1, <1>4, <2>1 DEF Locals
  <2>3. QueueSound(l, pub[p].saved, DOMAIN deliveries)
    BY <1>4, <2>2
  <2>. QED BY <1>1, <1>2, <1>4, <2>2, <2>3, OrderMoves
<1>5. CASE ListHooks(p)
  <2> DEFINE active == {k \in Hooks : hooks[k].status = "active"}
  <2>1. PICK pc \in {"enqueue", "select"} :
          d' = [d EXCEPT ![p].pc = pc, ![p].create = active \X pub[p].saved]
    BY <1>5 DEF ListHooks
  <2>2. PICK create : create = active \X pub[p].saved
    OBVIOUS
  <2>3. d' = [d EXCEPT ![p] = [d[p] EXCEPT !.pc = pc, !.create = create]]
    BY <1>1, <2>1, <2>2 DEF Locals
  <2>4. create \subseteq Hooks \X pub[p].saved
    BY <2>2
  <2>5. UNCHANGED <<pub, deliveries, inbox, dropped>> /\ d[p].pc = "free"
    BY <1>5 DEF ListHooks, publicVars, vars, Is
  <2>6. \A l : l.pc = pc /\ l.create = create => QueueSound(l, pub[p].saved, DOMAIN deliveries)
    BY <1>3, <2>4, <2>5 DEF QueueSound
  <2>. QED BY <1>4, <2>3, <2>5, <2>6
<1>6. CASE ListExisting(p)
  <2>1. PICK create : create = d[p].create \ DOMAIN deliveries
    OBVIOUS
  <2>2. /\ d' = [d EXCEPT ![p] = [d[p] EXCEPT !.pc = "create", !.create = create]]
        /\ UNCHANGED <<pub, deliveries, inbox, dropped>> /\ d[p].pc = "enqueue"
    BY <1>1, <1>6, <2>1 DEF ListExisting, publicVars, vars, Is, Locals
  <2>3. \A c \in create : c[2] \in pub[p].saved
    BY <1>3, <2>1, <2>2 DEF QueueSound
  <2>4. \A l : l.pc = "create" /\ l.create = create
                 => QueueSound(l, pub[p].saved, DOMAIN deliveries)
    BY <1>3, <2>2, <2>3 DEF QueueSound
  <2>. QED BY <1>4, <2>2, <2>4
<1>7. CASE Enqueued(p)
  <2>1. /\ d' = [d EXCEPT ![p] = [d[p] EXCEPT !.pc = "select", !.create = {}]]
        /\ UNCHANGED <<pub, deliveries, inbox, dropped>>
    BY <1>1, <1>7 DEF Enqueued, publicVars, vars, Locals
  <2>2. \A l : l.pc = "select" /\ l.create = {}
                 => QueueSound(l, pub[p].saved, DOMAIN deliveries)
    BY DEF QueueSound
  <2>. QED BY <1>4, <2>1, <2>2
<1>. QED BY <1>5, <1>6, <1>7, CreateOrder DEF Enqueue

\* The oldest delivery that waits has only settled ones before it.
LEMMA SelectOrder ==
  ASSUME Inv, HookInv, OrderInv, NEW x \in Dispatchers, Select(x)
  PROVE  OrderInv'
<1>. DEFINE todo == {[key |-> s, row |-> deliveries[s]] : s \in Selected(x)}
<1>1. /\ x \in Tasks /\ d \in [Tasks -> Locals] /\ d[x] \in Locals /\ pub \in [Publishers -> Requests]
      /\ UNCHANGED <<deliveries, inbox, dropped>>
      /\ deliveries \in [DOMAIN deliveries -> DeliveryRow]
      /\ \A s \in DOMAIN deliveries : s[2] \in Nat
  <2>1. Numbers \subseteq Nat
    BY NumbersUsed DEF Inv, TypeOK
  <2>. QED BY <2>1 DEF HookInv, HookTypeOK, Inv, TypeOK, Tasks, Select
<1>2. \A s \in DOMAIN deliveries : deliveries[s].status = "failed" => s \in dropped
  BY DEF OrderInv
<1>3. CASE d' = [d EXCEPT ![x] = Free] /\ (IF x \in Publishers THEN Return(x) ELSE UNCHANGED pub)
  <2>1. x \in Publishers => pub'[x].saved = {}
    BY <1>1, <1>3 DEF Return, NoRequest
  <2>2. x \in Publishers => QueueSound(Free, pub'[x].saved, DOMAIN deliveries)
    BY <2>1, FreeIs, QueueEmpty
  <2>3. (\A p \in Publishers \ {x} : pub'[p] = pub[p]) /\ Free.todo \subseteq d[x].todo
    BY <1>1, <1>3, FreeIs DEF Return
  <2>. QED BY <1>1, <1>2, <1>3, <2>2, <2>3, OrderMoves
<1>4. CASE d' = [d EXCEPT ![x].pc = "load", ![x].todo = todo] /\ UNCHANGED pub
  <2>1. \A t \in todo : /\ t.key \in DOMAIN deliveries
                        /\ \A s \in Pending : s[1] = t.key[1] => t.key[2] <= s[2]
    <3>1. \A k \in Selected(x) : /\ k \in DOMAIN deliveries
                                 /\ \A s \in Pending : s[1] = k[1] => k[2] <= s[2]
      BY DEF Selected, Dispatchable, Pending
    <3>2. \A t \in todo : t.key \in Selected(x)
      OBVIOUS
    <3>. HIDE DEF todo
    <3>. QED BY <3>1, <3>2
  <2>2. \A s \in DOMAIN deliveries \ Pending : deliveries[s].status \in {"delivered", "failed"}
    BY <1>1 DEF Pending, PendingStatuses, DeliveryRow
  <2>3. \A s \in DOMAIN deliveries \ Pending : s[2] \in inbox[s[1]] \/ s \in dropped
    BY <1>2, <2>2 DEF HookInv, MarksAreTrue
  <2>4. \A t \in todo : \A s \in DOMAIN deliveries : Before(s, t.key) => s \notin Pending
    BY <1>1, <2>1 DEF Before
  <2>. HIDE DEF todo
  <2>5. \A y \in Tasks : /\ y # x => d'[y] = d[y]
                         /\ d'[x].todo = todo /\ d'[x].pc = "load"
    BY <1>1, <1>4 DEF Locals
  <2>6. \A y \in Tasks : TurnSound(d'[y], DOMAIN deliveries, inbox, dropped)
    BY <2>3, <2>4, <2>5 DEF TurnSound, OrderInv
  <2>7. \A p \in Publishers : QueueSound(d'[p], pub[p].saved, DOMAIN deliveries)
    BY <1>1, <2>5 DEF QueueSound, OrderInv, Tasks, Dispatchers
  <2>8. (\A y \in Tasks : TurnSound(d[y], DOMAIN deliveries, inbox, dropped))'
    BY <1>1, <2>6 DEF TurnSound
  <2>9. (\A p \in Publishers : QueueSound(d[p], pub[p].saved, DOMAIN deliveries))'
    BY <1>1, <1>4, <2>7 DEF QueueSound
  <2>. QED BY <1>1, <2>8, <2>9 DEF OrderInv, OrderPreserved
<1>. QED BY <1>3, <1>4 DEF Select

\* The receiver accepts an event that all earlier ones are settled before.
LEMMA PostOrder ==
  ASSUME Inv, HookInv, OrderInv, NEW x \in Dispatchers, Post(x)
  PROVE  OrderInv'
<1>1. /\ x \in Tasks /\ d \in [Tasks -> Locals] /\ d[x] \in Locals /\ d[x].pc \in Serving
      /\ d[x].pc = "post" /\ UNCHANGED <<pub, deliveries, dropped>>
      /\ DOMAIN deliveries \subseteq Hooks \X Nat /\ inbox \in [Hooks -> SUBSET Numbers]
      /\ Numbers \subseteq Nat
  <2>1. Numbers \subseteq Nat
    BY NumbersUsed DEF Inv, TypeOK
  <2>. QED BY <2>1 DEF HookInv, HookTypeOK, Tasks, Post, Is, Serving, publicVars, vars
<1>2. PICK s : s = Current(x)
  OBVIOUS
<1>3. s \in d[x].todo /\ s.key \in DOMAIN deliveries
  BY <1>1, <1>2, CurrentIs
<1>4. s.key = <<s.key[1], s.key[2]>> /\ s.key[1] \in Hooks /\ s.key[2] \in Nat
  BY <1>1, <1>3
<1>5. PICK ok \in BOOLEAN : /\ d' = [d EXCEPT ![x].pc = "answered", ![x].ok = ok]
                            /\ inbox' \in {inbox, [inbox EXCEPT ![s.key[1]] = @ \union {s.key[2]}]}
  BY <1>2 DEF Post
<1>6. \A k \in Hooks : /\ inbox[k] \subseteq inbox'[k]
                       /\ \A n \in inbox'[k] : n \in inbox[k] \/ (k = s.key[1] /\ n = s.key[2])
  BY <1>1, <1>4, <1>5
<1>7. TurnSound(d[x], DOMAIN deliveries, inbox, dropped)
  BY <1>1 DEF OrderInv
<1>8. OrderPreserved'
  <2>1. ASSUME NEW t \in DOMAIN deliveries, NEW n \in inbox'[t[1]], n > t[2]
        PROVE  t[2] \in inbox'[t[1]] \/ t \in dropped
    <3>1. t[1] \in Hooks /\ t[2] \in Nat
      BY <1>1
    <3>2. CASE n \in inbox[t[1]]
      BY <1>6, <2>1, <3>1, <3>2 DEF OrderInv, OrderPreserved
    <3>3. CASE t[1] = s.key[1] /\ n = s.key[2]
      <4>1. Before(t, s.key)
        BY <1>4, <2>1, <3>1, <3>3 DEF Before
      <4>2. t[2] \in inbox[t[1]] \/ t \in dropped
        BY <1>3, <1>7, <4>1 DEF TurnSound
      <4>. QED BY <1>6, <3>1, <4>2
    <3>. QED BY <1>6, <2>1, <3>1, <3>2, <3>3
  <2>. QED BY <1>1, <2>1 DEF OrderPreserved
<1>9. \A k \in Hooks : \A n \in inbox'[k] : <<k, n>> \in DOMAIN deliveries
  BY <1>3, <1>4, <1>6 DEF OrderInv
<1>10. \A y \in Tasks : d'[y].todo = d[y].todo /\ d'[y].create = d[y].create
  BY <1>1, <1>5 DEF Locals
<1>11. \A y \in Tasks : TurnSound(d'[y], DOMAIN deliveries, inbox', dropped)
  <2>1. \A t \in DOMAIN deliveries : t[1] \in Hooks
    BY <1>1
  <2>. QED BY <1>6, <1>10, <2>1 DEF OrderInv, TurnSound
<1>12. \A p \in Publishers : QueueSound(d'[p], pub[p].saved, DOMAIN deliveries)
  <2>1. \A y \in Tasks : d'[y].pc = d[y].pc \/ d'[y].pc = "answered"
    BY <1>1, <1>5 DEF Locals
  <2>. QED BY <1>10, <2>1 DEF OrderInv, QueueSound, Tasks, Dispatchers
<1>13. (\A y \in Tasks : TurnSound(d[y], DOMAIN deliveries, inbox, dropped))'
  BY <1>1, <1>11 DEF TurnSound
<1>14. (\A p \in Publishers : QueueSound(d[p], pub[p].saved, DOMAIN deliveries))'
  BY <1>1, <1>12 DEF QueueSound
<1>. QED BY <1>1, <1>8, <1>9, <1>13, <1>14 DEF OrderInv

LEMMA DispatchOrder ==
  ASSUME Inv, HookInv, OrderInv, NEW x \in Dispatchers, Dispatch(x)
  PROVE  OrderInv'
<1>1. x \in Tasks /\ d \in [Tasks -> Locals] /\ d[x] \in Locals
  BY DEF HookInv, HookTypeOK, Tasks
<1>2. \A s \in DOMAIN deliveries : deliveries[s].status = "failed" => s \in dropped
  BY DEF OrderInv
<1>3. ASSUME NEW l, d' = [d EXCEPT ![x] = l], l.todo = d[x].todo, l.pc \in Holding,
             UNCHANGED <<pub, inbox>>, (DOMAIN deliveries)' = DOMAIN deliveries,
             dropped \subseteq dropped',
             \A s \in DOMAIN deliveries : deliveries'[s].status = "failed" => s \in dropped'
      PROVE  OrderInv'
  <2>1. QueueSound(l, pub[x].saved, DOMAIN deliveries)
    BY <1>3 DEF QueueSound, Holding, Serving
  <2>2. l.todo \subseteq d[x].todo /\ pub' = pub
    BY <1>3
  <2>. QED BY <1>1, <1>3, <2>1, <2>2, OrderMoves
<1>4. CASE Load(x)
  <2> DEFINE row == hooks[Current(x).key[1]]
  <2> DEFINE pc == IF row.status = "active" THEN "post" ELSE "inactive"
  <2>1. d' = [d EXCEPT ![x].hook = row, ![x].pc = pc] /\ pc \in {"post", "inactive"}
    BY <1>4 DEF Load
  <2> HIDE DEF row, pc
  <2>2. PICK l : l = [d[x] EXCEPT !.hook = row, !.pc = pc]
    OBVIOUS
  <2>3. d' = [d EXCEPT ![x] = l] /\ l.todo = d[x].todo /\ l.pc \in Holding
    BY <1>1, <2>1, <2>2 DEF Locals, Holding, Serving
  <2>4. UNCHANGED <<pub, deliveries, inbox, dropped>>
    BY <1>4 DEF Load, publicVars, vars
  <2>. QED BY <1>2, <1>3, <2>3, <2>4
<1>5. CASE MarkDelivery(x)
  <2>1. PICK status, due : WriteDelivery(x, status, due)
    BY <1>5 DEF MarkDelivery
  <2>2. PICK l : l = [d[x] EXCEPT !.pc = "marked"]
    OBVIOUS
  <2>3. d' = [d EXCEPT ![x] = l] /\ l.todo = d[x].todo /\ l.pc \in Holding
    BY <1>1, <1>5, <2>2 DEF Locals, Holding, Serving, MarkDelivery
  <2>4. UNCHANGED <<pub, inbox>>
    BY <1>5 DEF MarkDelivery, publicVars, vars
  <2>. QED BY <1>3, <2>1, <2>3, <2>4, WriteDrops
<1>6. CASE MarkInactive(x)
  <2>1. d[x].pc \in Serving /\ WriteDelivery(x, "failed", TRUE) /\ Advance(x) /\ UNCHANGED inbox
    BY <1>6 DEF MarkInactive, Is, Serving
  <2>. QED BY <2>1, WriteDrops, AdvanceOrder
<1>7. CASE MarkHook(x)
  <2>1. d[x].pc \in Serving /\ Advance(x) /\ UNCHANGED <<deliveries, inbox, dropped>>
    BY <1>7 DEF MarkHook, Is, Serving
  <2>. QED BY <1>2, <2>1, AdvanceOrder
<1>. QED BY <1>4, <1>5, <1>6, <1>7, SelectOrder, PostOrder DEF Dispatch

\* An operator, time, a failed sweep and a crash keep the order.
LEMMA OtherOrder ==
  ASSUME Inv, HookInv, OrderInv,
         \/ \E w \in Sweepers : SweepFails(w)
         \/ \E k \in Hooks : Register(k) \/ \E o \in Operators : ReadToDisable(o, k)
         \/ \E o \in Operators : Disable(o)
         \/ TimePasses
         \/ JobMoves /\ UNCHANGED hookVars
         \/ Restart
         \/ UNCHANGED hookSystem
  PROVE  OrderInv'
<1>. USE DEF hookVars, publicVars, vars, hookSystem
<1>1. d \in [Tasks -> Locals] /\ \A s \in DOMAIN deliveries : deliveries[s].status = "failed" => s \in dropped
  BY DEF HookInv, HookTypeOK, OrderInv
<1>2. ASSUME NEW x \in Tasks, x \notin Publishers, NEW l, l.todo = {}, d' = [d EXCEPT ![x] = l],
             UNCHANGED <<pub, deliveries, inbox, dropped>>
      PROVE  OrderInv'
  BY <1>1, <1>2, OrderMoves
<1>3. ASSUME NEW w \in Sweepers, SweepFails(w)
      PROVE  OrderInv'
  BY <1>2, <1>3, FreeIs, TasksAssumption DEF SweepFails, Tasks, Dispatchers
<1>4. ASSUME NEW o \in Operators, Disable(o)
      PROVE  OrderInv'
  BY <1>2, <1>4, FreeIs, TasksAssumption DEF Disable, Tasks, Dispatchers
<1>5. ASSUME NEW o \in Operators, NEW k \in Hooks, ReadToDisable(o, k)
      PROVE  OrderInv'
  <2>1. PICK l : l = [Free EXCEPT !.pc = "disable", !.hook = hooks[k], !.of = k]
    OBVIOUS
  <2>2. l.todo = {} /\ d' = [d EXCEPT ![o] = l]
    BY <1>5, <2>1 DEF Free, ReadToDisable
  <2>. QED BY <1>2, <1>5, <2>2, TasksAssumption DEF ReadToDisable, Tasks, Dispatchers
<1>6. CASE UNCHANGED <<pub, deliveries, inbox, dropped, d>>
  BY <1>6 DEF OrderInv, OrderPreserved, TurnSound, QueueSound, Before
<1>7. CASE TimePasses
  <2>1. PICK s \in DOMAIN deliveries : deliveries' = [deliveries EXCEPT ![s].due = TRUE]
    BY <1>7 DEF TimePasses, BackoffEnds
  <2>2. /\ (DOMAIN deliveries)' = DOMAIN deliveries /\ UNCHANGED <<pub, inbox, dropped, d>>
        /\ \A t \in DOMAIN deliveries : deliveries'[t].status = deliveries[t].status
    BY <1>7, <2>1 DEF TimePasses, BackoffEnds, HookInv, HookTypeOK, DeliveryRow
  <2>. QED BY <2>2 DEF OrderInv, OrderPreserved, TurnSound, QueueSound, Before
<1>8. CASE Restart
  <2>1. /\ UNCHANGED <<deliveries, inbox, dropped>> /\ d' = [x \in Tasks |-> Free]
        /\ pub' = [p \in Publishers |-> NoRequest]
    BY <1>8 DEF Restart, Crash
  <2>2. \A x \in Tasks : TurnSound(Free, DOMAIN deliveries, inbox, dropped)
    BY FreeIs DEF TurnSound
  <2>3. \A p \in Publishers : QueueSound(Free, NoRequest.saved, DOMAIN deliveries)
    BY FreeIs DEF QueueSound, NoRequest
  <2>4. (\A x \in Tasks : TurnSound(d[x], DOMAIN deliveries, inbox, dropped))'
    BY <2>1, <2>2 DEF TurnSound
  <2>5. (\A p \in Publishers : QueueSound(d[p], pub[p].saved, DOMAIN deliveries))'
    BY <2>1, <2>3 DEF QueueSound, Tasks, Dispatchers
  <2>. QED BY <2>1, <2>4, <2>5 DEF OrderInv, OrderPreserved
<1>9. ASSUME NEW k \in Hooks, Register(k)
      PROVE  OrderInv'
  BY <1>6, <1>9 DEF Register
<1>. QED BY <1>3, <1>4, <1>5, <1>6, <1>7, <1>8, <1>9 DEF JobMoves

LEMMA OrderStart == ASSUME Init, HookInit PROVE OrderInv
<1>1. DOMAIN deliveries = {} /\ inbox = [k \in Hooks |-> {}] /\ d = [x \in Tasks |-> Free]
  BY DEF HookInit
<1>. QED BY <1>1, FreeIs
        DEF OrderInv, OrderPreserved, TurnSound, QueueSound, Tasks, Dispatchers

\* Events reach a registration in the order of their numbers when the requests
\* for the task come one by one, however many sweeps dispatch beside them: a
\* receiver has accepted no event while an earlier one, enqueued for it, has
\* neither been accepted nor ever given up.
THEOREM OrderHolds ==
  ASSUME \A p, q \in Publishers : p = q
  PROVE  HookSpec => []OrderPreserved
<1>1. Init /\ HookInit => OrderInv
  BY OrderStart
<1>2. Inv /\ HookInv /\ OrderInv /\ [HookNext]_hookSystem => OrderInv'
  <2>. SUFFICES ASSUME Inv, HookInv, OrderInv, [HookNext]_hookSystem PROVE OrderInv'
    OBVIOUS
  <2>1. ASSUME NEW p \in Publishers, Record(p) \/ NothingRecorded(p) \/ Enqueue(p)
        PROVE  OrderInv'
    BY <2>1, RequestOrder, EnqueueOrder
  <2>2. ASSUME NEW x \in Dispatchers, Dispatch(x)
        PROVE  OrderInv'
    BY <2>2, DispatchOrder
  <2>. QED BY <2>1, <2>2, OtherOrder DEF HookNext
<1>3. OrderInv => OrderPreserved
  BY DEF OrderInv
<1>. QED BY <1>1, <1>2, <1>3, HookInvariance, PTL DEF HookSpec

=============================================================================
