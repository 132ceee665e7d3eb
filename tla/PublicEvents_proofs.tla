------------------------ MODULE PublicEvents_proofs ------------------------
(***************************************************************************)
(* Proofs about PublicEvents for every set of requests, readers and job    *)
(* states.  The invariant adds to the types: the log is numbered by its    *)
(* positions; a request about to insert holds a number at most one past    *)
(* the end of the log (the log has only grown since the number was read),  *)
(* so that a number that is still free is the next one; and every reader   *)
(* has exactly the rows between its start and its last event, which the    *)
(* cursor of its open connection names.                                    *)
(***************************************************************************)
EXTENDS PublicEvents, FiniteSetTheorems, TLAPS

\* What a request holds once the log is n events long.
RequestSound(l, n) ==
  /\ l.pc \notin {"idle", "readJob"} => l.current \in Projections
  /\ l.pc = "insert" => l.sequence \in 1 .. n + 1 /\ l.specs # <<>>

RequestsSound == \A p \in Publishers : RequestSound(pub[p], Len(events))

ReadersSound ==
  \A c \in Clients :
    /\ client[c].last <= Len(events)
    /\ client[c].open => client[c].cursor = Position(c)

Inv == TypeOK /\ NumbersDense /\ RequestsSound /\ ReadersSound
       /\ StreamsComplete
----------------------------------------------------------------------------
(* Sets of numbers and the rows of the log *)

\* Max returns a member that is at least as large as every member.
LEMMA MaxIs ==
  ASSUME NEW S \in SUBSET Int, NEW m \in S, \A x \in S : m >= x
  PROVE  Max(S) = m
<1>1. \A x \in S : (\A y \in S : x >= y) => x = m
  OBVIOUS
<1> QED BY <1>1 DEF Max

\* The later of two positions.
LEMMA MaxOfTwo ==
  ASSUME NEW a \in Nat, NEW b \in Nat
  PROVE  Max({a, b}) = IF a >= b THEN a ELSE b
<1>1. CASE a >= b  BY <1>1, MaxIs
<1>2. CASE ~(a >= b)  BY <1>2, MaxIs
<1> QED BY <1>1, <1>2

\* In a log numbered by its positions, the numbers used are 1 .. Len(events).
LEMMA NumbersUsed ==
  ASSUME events \in Seq(EventRow), NumbersDense
  PROVE  /\ Numbers = 1 .. Len(events)
         /\ Max(Numbers \union {0}) = Len(events)
<1>1. Numbers = 1 .. Len(events)
  <2>1. DOMAIN events = 1 .. Len(events)
    OBVIOUS
  <2>2. \A i \in 1 .. Len(events) : events[i].sequence = i
    BY <2>1 DEF NumbersDense
  <2>3. Numbers = {events[i].sequence : i \in 1 .. Len(events)}
    BY <2>1 DEF Numbers, Range
  <2> QED BY <2>2, <2>3
<1>2. Max(Numbers \union {0}) = Len(events)
  <2> DEFINE S == Numbers \union {0}
  <2>1. Len(events) \in Nat
    OBVIOUS
  <2>2. /\ S \in SUBSET Int /\ Len(events) \in S
        /\ \A x \in S : Len(events) >= x
    BY <1>1, <2>1
  <2> HIDE DEF S
  <2>3. Max(S) = Len(events)
    BY <2>2, MaxIs
  <2> QED BY <2>3 DEF S
<1> QED BY <1>1, <1>2

\* The rows after position n are those at n + 1 .. Len(events), and the
\* cursor after they are sent is the end of the log.
LEMMA RowsSince ==
  ASSUME events \in Seq(EventRow), NumbersDense, NEW n \in Nat
  PROVE  /\ ListSince(n) = {events[i] : i \in (n + 1) .. Len(events)}
         /\ Max({e.sequence : e \in ListSince(n)} \union {n})
              = IF n < Len(events) THEN Len(events) ELSE n
         /\ ListSince(n) = {} <=> ~(n < Len(events))
<1> DEFINE Rest == (n + 1) .. Len(events)
<1>a. DOMAIN events = 1 .. Len(events) /\ Rest \subseteq 1 .. Len(events)
  OBVIOUS
<1>b. \A i \in 1 .. Len(events) : events[i].sequence = i
  BY <1>a DEF NumbersDense
<1>1. ListSince(n) = {events[i] : i \in Rest}
  <2>1. ListSince(n) \subseteq {events[i] : i \in Rest}
    BY <1>a, <1>b DEF ListSince, Range
  <2>2. {events[i] : i \in Rest} \subseteq ListSince(n)
    BY <1>a, <1>b DEF ListSince, Range
  <2> QED BY <2>1, <2>2
<1>2. {e.sequence : e \in ListSince(n)} = Rest
  <2>1. {e.sequence : e \in ListSince(n)} = {events[i].sequence : i \in Rest}
    BY <1>1
  <2>2. \A i \in Rest : events[i].sequence = i
    BY <1>a, <1>b
  <2> QED BY <2>1, <2>2
<1>3. Max({e.sequence : e \in ListSince(n)} \union {n})
        = IF n < Len(events) THEN Len(events) ELSE n
  <2> DEFINE S == {e.sequence : e \in ListSince(n)} \union {n}
             m == IF n < Len(events) THEN Len(events) ELSE n
  <2>1. S = Rest \union {n} /\ Len(events) \in Nat
    BY <1>2
  <2>2. S \in SUBSET Int
    BY <2>1
  <2> HIDE DEF S
  <2>3. m \in S /\ \A x \in S : m >= x
    <3>1. CASE n < Len(events)  BY <2>1, <3>1
    <3>2. CASE ~(n < Len(events))  BY <2>1, <3>2
    <3> QED BY <3>1, <3>2
  <2> HIDE DEF m
  <2>4. Max(S) = m
    BY <2>2, <2>3, MaxIs
  <2> QED BY <2>4 DEF S, m
<1>4. ListSince(n) = {} <=> ~(n < Len(events))
  <2>1. Rest = {} <=> ~(n < Len(events))
    <3>1. Len(events) \in Nat
      OBVIOUS
    <3>2. CASE n < Len(events)
      <4>1. n + 1 \in Rest  BY <3>1, <3>2
      <4> QED BY <3>2, <4>1
    <3>3. CASE ~(n < Len(events))  BY <3>1, <3>3
    <3> QED BY <3>2, <3>3
  <2> HIDE DEF Rest
  <2>2. ListSince(n) = {} <=> Rest = {}
    BY <1>1
  <2> QED BY <2>1, <2>2
<1> QED BY <1>1, <1>3, <1>4
----------------------------------------------------------------------------
(* What a refresh publishes *)

\* A projection is well formed, and the public status is a status.
LEMMA ProjectionTyped ==
  ASSUME NEW j \in JobStates
  PROVE  Projection(j, j, j) \in Projections
BY DEF Projections

\* It stays one when its phase or its artifacts are read in another state.
LEMMA ReadLater ==
  ASSUME NEW c \in Projections, NEW s \in JobStates
  PROVE  /\ [c EXCEPT !.phase = s.phase] \in Projections
         /\ [c EXCEPT !.artifacts = s.artifacts] \in Projections
<1>1. PICK i, j, k \in JobStates : c = Projection(i, j, k)
  BY DEF Projections
<1>2. [c EXCEPT !.phase = s.phase] = Projection(i, s, k)
  BY <1>1 DEF Projection
<1>3. [c EXCEPT !.artifacts = s.artifacts] = Projection(i, j, s)
  BY <1>1 DEF Projection
<1> QED BY <1>2, <1>3 DEF Projections

LEMMA WhenTyped ==
  ASSUME NEW condition, NEW kind \in Kinds
  PROVE  When(condition, kind) \in Seq(Kinds)
<1>1. CASE condition  BY <1>1 DEF When
<1>2. CASE ~condition  BY <1>2 DEF When
<1> QED BY <1>1, <1>2

\* The kinds of artifact events: one for each of finitely many artifacts.
LEMMA AttachedTyped ==
  ASSUME NEW new, IsFiniteSet(new)
  PROVE  Attached(new) \in Seq(Kinds)
<1>1. Cardinality(new) \in Nat
  BY FS_CardinalityType
<1>2. "artifact_attached" \in Kinds
  BY DEF Kinds
<1> QED BY <1>1, <1>2 DEF Attached

\* The events of a refresh are a sequence of event kinds: the artifacts of a
\* job state are finitely many, so there is one event for each new one.
LEMMA SpecsTyped ==
  ASSUME NEW before, NEW after \in Projections, NEW reviewRequested
  PROVE  EventSpecs(before, after, reviewRequested) \in Seq(Kinds)
<1>1. PICK i, j, k \in JobStates : after = Projection(i, j, k)
  BY DEF Projections
<1>2. after.artifacts = k.artifacts /\ IsFiniteSet(after.artifacts)
  BY <1>1, JobStatesAssumption DEF Projection
<1> DEFINE first == before = NoTask
           old == IF first THEN [after EXCEPT !.artifacts = {}] ELSE before
           new == after.artifacts \ old.artifacts
           s1 == When(first, "created")
           s2 == When(old.phase # after.phase, "phase_changed")
           s3 == When(<<old.status, old.state>> # <<after.status, after.state>>,
                      "status_changed")
           s4 == When(/\ after.state = "blocked"
                      /\ first \/ old.state # "blocked"
                      /\ reviewRequested, "review_requested")
           s5 == Attached(new)
           s6 == When(/\ after.state = "completed"
                      /\ first \/ old.state # "completed", "completed")
<1>3. {"created", "phase_changed", "status_changed", "review_requested",
       "completed"} \subseteq Kinds
  BY DEF Kinds
<1>4. s1 \in Seq(Kinds) /\ s2 \in Seq(Kinds)
  BY <1>3, WhenTyped
<1>5. s3 \in Seq(Kinds) /\ s4 \in Seq(Kinds)
  BY <1>3, WhenTyped
<1>6. s6 \in Seq(Kinds)
  BY <1>3, WhenTyped
<1>7. s5 \in Seq(Kinds)
  <2>1. new \subseteq after.artifacts
    OBVIOUS
  <2> HIDE DEF new
  <2>2. IsFiniteSet(new)
    BY <1>2, <2>1, FS_Subset
  <2> QED BY <2>2, AttachedTyped
<1>8. EventSpecs(before, after, reviewRequested)
        = s1 \o s2 \o s3 \o s4 \o s5 \o s6
  BY DEF EventSpecs
<1> HIDE DEF s1, s2, s3, s4, s5, s6
<1> QED BY <1>4, <1>5, <1>6, <1>7, <1>8
----------------------------------------------------------------------------
(* Steps of a request that leave the log as it is *)

LEMMA FieldTypes ==
  ASSUME NEW l \in Requests
  PROVE  /\ \A v \in RequestPCs : [l EXCEPT !.pc = v] \in Requests
         /\ \A v \in Projections \union {NoTask} :
              /\ [l EXCEPT !.previous = v] \in Requests
              /\ [l EXCEPT !.current = v] \in Requests
         /\ \A v \in BOOLEAN : [l EXCEPT !.exists = v] \in Requests
         /\ \A v \in Seq(Kinds) : [l EXCEPT !.specs = v] \in Requests
         /\ \A v \in Nat : [l EXCEPT !.sequence = v] \in Requests
         /\ \A v \in SUBSET Nat : [l EXCEPT !.saved = v] \in Requests
BY DEF Requests

LEMMA NoRequestType ==
  NoRequest \in Requests /\ \A n \in Nat : RequestSound(NoRequest, n)
<1>1. "idle" \in RequestPCs /\ <<>> \in Seq(Kinds) /\ {} \in SUBSET Nat
  BY DEF RequestPCs
<1> QED BY <1>1 DEF NoRequest, Requests, RequestSound

\* A request that goes on with sound locals, and writes at most the
\* projection, keeps the invariant.
LEMMA RequestKeeps ==
  ASSUME Inv, NEW p \in Publishers, NEW l \in Requests,
         RequestSound(l, Len(events)), pub' = [pub EXCEPT ![p] = l],
         task' \in Projections \union {NoTask},
         UNCHANGED <<job, events, client, crashes>>
  PROVE  Inv'
<1>1. TypeOK'
  BY DEF Inv, TypeOK
<1>2. RequestsSound'
  BY DEF Inv, TypeOK, RequestsSound
<1>3. ReadersSound'
  BY DEF Inv, ReadersSound, Position
<1>4. NumbersDense' /\ StreamsComplete'
  BY DEF Inv, NumbersDense, StreamsComplete
<1> QED BY <1>1, <1>2, <1>3, <1>4 DEF Inv

LEMMA ReturnKeeps ==
  ASSUME Inv, NEW p \in Publishers, Return(p), UNCHANGED task,
         UNCHANGED <<job, events, client, crashes>>
  PROVE  Inv'
<1>1. Len(events) \in Nat /\ task \in Projections \union {NoTask}
  BY DEF Inv, TypeOK
<1>2. RequestSound(NoRequest, Len(events))
  BY <1>1, NoRequestType
<1> QED BY <1>1, <1>2, NoRequestType, RequestKeeps DEF Return

LEMMA ReadPreviousKeeps ==
  ASSUME Inv, NEW p \in Publishers, ReadPrevious(p)
  PROVE  Inv'
<1> DEFINE l1 == [pub[p] EXCEPT !.pc = "readJob"]
           l == [l1 EXCEPT !.previous = task]
<1>1. pub[p] \in Requests /\ task \in Projections \union {NoTask}
  BY DEF Inv, TypeOK
<1>2. pub' = [pub EXCEPT ![p] = l] /\ UNCHANGED <<job, events, client, crashes>>
      /\ UNCHANGED task
  BY DEF ReadPrevious
<1>3. l1 \in Requests
  BY <1>1, FieldTypes DEF RequestPCs
<1>4. l \in Requests
  BY <1>1, <1>3, FieldTypes
<1>5. l.pc = "readJob"
  BY <1>1 DEF Requests
<1> HIDE DEF l
<1>6. RequestSound(l, Len(events))
  BY <1>5 DEF RequestSound
<1> QED BY <1>1, <1>2, <1>4, <1>6, RequestKeeps

LEMMA ReadJobKeeps ==
  ASSUME Inv, NEW p \in Publishers, ReadJob(p)
  PROVE  Inv'
<1> DEFINE l1 == [pub[p] EXCEPT !.pc = "readPhase"]
           l == [l1 EXCEPT !.current = Projection(job, job, job)]
<1>1. /\ pub[p] \in Requests /\ task \in Projections \union {NoTask}
      /\ Projection(job, job, job) \in Projections
  BY ProjectionTyped DEF Inv, TypeOK
<1>2. pub' = [pub EXCEPT ![p] = l] /\ UNCHANGED <<job, events, client, crashes>>
      /\ UNCHANGED task
  BY DEF ReadJob
<1>3. l1 \in Requests
  BY <1>1, FieldTypes DEF RequestPCs
<1>4. l \in Requests
  BY <1>1, <1>3, FieldTypes
<1>5. l.pc = "readPhase" /\ l.current = Projection(job, job, job)
  BY <1>1 DEF Requests
<1> HIDE DEF l
<1>6. RequestSound(l, Len(events))
  BY <1>1, <1>5 DEF RequestSound
<1> QED BY <1>1, <1>2, <1>4, <1>6, RequestKeeps

LEMMA ReadPhaseKeeps ==
  ASSUME Inv, NEW p \in Publishers, ReadPhase(p)
  PROVE  Inv'
<1> DEFINE c == [pub[p].current EXCEPT !.phase = job.phase]
           l1 == [pub[p] EXCEPT !.pc = "readArtifacts"]
           l == [l1 EXCEPT !.current = c]
<1>1. /\ pub[p] \in Requests /\ task \in Projections \union {NoTask}
      /\ pub[p].pc = "readPhase" /\ RequestSound(pub[p], Len(events))
      /\ job \in JobStates
  BY DEF Inv, TypeOK, RequestsSound, ReadPhase, At
<1>2. pub' = [pub EXCEPT ![p] = l] /\ UNCHANGED <<job, events, client, crashes>>
      /\ UNCHANGED task
  BY <1>1 DEF ReadPhase, Requests
<1>3. c \in Projections
  BY <1>1, ReadLater DEF RequestSound
<1> HIDE DEF c
<1>4. l1 \in Requests
  BY <1>1, FieldTypes DEF RequestPCs
<1>5. l \in Requests
  BY <1>3, <1>4, FieldTypes
<1>6. l.pc = "readArtifacts" /\ l.current = c
  BY <1>1 DEF Requests
<1> HIDE DEF l
<1>7. RequestSound(l, Len(events))
  BY <1>3, <1>6 DEF RequestSound
<1> QED BY <1>1, <1>2, <1>5, <1>7, RequestKeeps

LEMMA ReadArtifactsKeeps ==
  ASSUME Inv, NEW p \in Publishers, ReadArtifacts(p)
  PROVE  Inv'
<1> DEFINE c == [pub[p].current EXCEPT !.artifacts = job.artifacts]
           l1 == [pub[p] EXCEPT !.pc = "readTask"]
           l == [l1 EXCEPT !.current = c]
<1>1. /\ pub[p] \in Requests /\ task \in Projections \union {NoTask}
      /\ pub[p].pc = "readArtifacts" /\ RequestSound(pub[p], Len(events))
      /\ job \in JobStates
  BY DEF Inv, TypeOK, RequestsSound, ReadArtifacts, At
<1>2. pub' = [pub EXCEPT ![p] = l] /\ UNCHANGED <<job, events, client, crashes>>
      /\ UNCHANGED task
  BY <1>1 DEF ReadArtifacts, Requests
<1>3. c \in Projections
  BY <1>1, ReadLater DEF RequestSound
<1> HIDE DEF c
<1>4. l1 \in Requests
  BY <1>1, FieldTypes DEF RequestPCs
<1>5. l \in Requests
  BY <1>3, <1>4, FieldTypes
<1>6. l.pc = "readTask" /\ l.current = c
  BY <1>1 DEF Requests
<1> HIDE DEF l
<1>7. RequestSound(l, Len(events))
  BY <1>3, <1>6 DEF RequestSound
<1> QED BY <1>1, <1>2, <1>5, <1>7, RequestKeeps

LEMMA ReadTaskKeeps ==
  ASSUME Inv, NEW p \in Publishers, ReadTask(p)
  PROVE  Inv'
<1> DEFINE l1 == [pub[p] EXCEPT !.pc = "saveTask"]
           l == [l1 EXCEPT !.exists = task # NoTask]
<1>1. /\ pub[p] \in Requests /\ task \in Projections \union {NoTask}
      /\ pub[p].pc = "readTask" /\ RequestSound(pub[p], Len(events))
      /\ (task # NoTask) \in BOOLEAN
  BY DEF Inv, TypeOK, RequestsSound, ReadTask, At
<1>2. pub' = [pub EXCEPT ![p] = l] /\ UNCHANGED <<job, events, client, crashes>>
      /\ UNCHANGED task
  BY DEF ReadTask
<1>3. l1 \in Requests
  BY <1>1, FieldTypes DEF RequestPCs
<1>4. l \in Requests
  BY <1>1, <1>3, FieldTypes
<1>5. l.pc = "saveTask" /\ l.current = pub[p].current
  BY <1>1 DEF Requests
<1> HIDE DEF l
<1>6. RequestSound(l, Len(events))
  BY <1>1, <1>5 DEF RequestSound
<1> QED BY <1>1, <1>2, <1>4, <1>6, RequestKeeps

LEMMA SaveTaskKeeps ==
  ASSUME Inv, NEW p \in Publishers, SaveTask(p)
  PROVE  Inv'
<1>1. CASE pub[p].exists \/ task = NoTask
  <2> DEFINE l1 == [pub[p] EXCEPT !.pc = "specs"]
             l == [l1 EXCEPT !.exists = FALSE]
  <2>1. /\ pub[p] \in Requests
        /\ pub[p].pc = "saveTask" /\ RequestSound(pub[p], Len(events))
    BY DEF Inv, TypeOK, RequestsSound, SaveTask, At
  <2>2. pub[p].current \in Projections
    BY <2>1 DEF RequestSound
  <2>3. /\ pub' = [pub EXCEPT ![p] = l] /\ task' = pub[p].current
        /\ UNCHANGED <<job, events, client, crashes>>
    BY <1>1 DEF SaveTask
  <2>4. l1 \in Requests
    BY <2>1, FieldTypes DEF RequestPCs
  <2>5. l \in Requests
    BY <2>4, FieldTypes
  <2>6. l.pc = "specs" /\ l.current = pub[p].current
    BY <2>1 DEF Requests
  <2> HIDE DEF l
  <2>7. RequestSound(l, Len(events))
    BY <2>2, <2>6 DEF RequestSound
  <2> QED BY <2>2, <2>3, <2>5, <2>7, RequestKeeps
<1>2. CASE ~(pub[p].exists \/ task = NoTask)
  BY <1>2, ReturnKeeps DEF SaveTask
<1> QED BY <1>1, <1>2

LEMMA BuildSpecsKeeps ==
  ASSUME Inv, NEW p \in Publishers, BuildSpecs(p)
  PROVE  Inv'
<1>1. /\ pub[p] \in Requests /\ task \in Projections \union {NoTask}
      /\ pub[p].pc = "specs" /\ RequestSound(pub[p], Len(events))
  BY DEF Inv, TypeOK, RequestsSound, BuildSpecs, At
<1>2. pub[p].current \in Projections
  BY <1>1 DEF RequestSound
<1>3. PICK reviewRequested \in BOOLEAN :
        pub' = [pub EXCEPT ![p].pc = "append",
                           ![p].specs = EventSpecs(pub[p].previous,
                                          pub[p].current, reviewRequested),
                           ![p].previous = NoTask]
  BY DEF BuildSpecs
<1> DEFINE specs == EventSpecs(pub[p].previous, pub[p].current, reviewRequested)
           l1 == [pub[p] EXCEPT !.pc = "append"]
           l2 == [l1 EXCEPT !.specs = specs]
           l == [l2 EXCEPT !.previous = NoTask]
<1>4. specs \in Seq(Kinds)
  BY <1>2, SpecsTyped
<1> HIDE DEF specs
<1>5. pub' = [pub EXCEPT ![p] = l]
  BY <1>3 DEF specs
<1>6. l1 \in Requests
  BY <1>1, FieldTypes DEF RequestPCs
<1>7. l2 \in Requests
  BY <1>4, <1>6, FieldTypes
<1>8. l \in Requests
  BY <1>7, FieldTypes
<1>9. l.pc = "append" /\ l.current = pub[p].current
  BY <1>1 DEF Requests
<1> HIDE DEF l
<1>10. RequestSound(l, Len(events))
  BY <1>2, <1>9 DEF RequestSound
<1>11. UNCHANGED <<job, task, events, client, crashes>>
  BY DEF BuildSpecs
<1> QED BY <1>1, <1>5, <1>8, <1>10, <1>11, RequestKeeps

\* The number a request reads is the next one at the time it reads it.
LEMMA NextSequenceKeeps ==
  ASSUME Inv, NEW p \in Publishers, NextSequence(p)
  PROVE  Inv'
<1>1. /\ pub[p] \in Requests /\ task \in Projections \union {NoTask}
      /\ pub[p].pc = "append" /\ RequestSound(pub[p], Len(events))
      /\ pub[p].specs # <<>> /\ Len(events) \in Nat
  BY DEF Inv, TypeOK, RequestsSound, NextSequence, At
<1>2. Max(Numbers \union {0}) = Len(events)
  BY NumbersUsed DEF Inv, TypeOK
<1> DEFINE l1 == [pub[p] EXCEPT !.pc = "insert"]
           l == [l1 EXCEPT !.sequence = Len(events) + 1]
<1>3. /\ pub' = [pub EXCEPT ![p] = l]
      /\ UNCHANGED <<job, task, events, client, crashes>>
  BY <1>2 DEF NextSequence
<1>4. l1 \in Requests
  BY <1>1, FieldTypes DEF RequestPCs
<1>a. Len(events) + 1 \in Nat
  BY <1>1
<1>5. l \in Requests
  BY <1>a, <1>4, FieldTypes
<1>6. /\ l.pc = "insert" /\ l.current = pub[p].current
      /\ l.specs = pub[p].specs /\ l.sequence = Len(events) + 1
  BY <1>1 DEF Requests
<1> HIDE DEF l
<1>7. RequestSound(l, Len(events))
  BY <1>1, <1>6 DEF RequestSound
<1> QED BY <1>1, <1>3, <1>5, <1>7, RequestKeeps

----------------------------------------------------------------------------
(* The insert, the only step that changes the log *)

\* An insert that the UNIQUE constraint lets through uses the next number:
\* the number was at most one past the end of the log, and is not in it.
LEMMA InsertAppends ==
  ASSUME Inv, NEW p \in Publishers, Insert(p), pub[p].sequence \notin Numbers
  PROVE  \E row \in EventRow :
           /\ row.sequence = Len(events) + 1
           /\ events' = Append(events, row)
           /\ UNCHANGED <<job, task, client, crashes>>
<1> DEFINE row == [sequence |-> pub[p].sequence,
                   content |-> [kind |-> Head(pub[p].specs),
                                task |-> pub[p].current]]
<1>1. /\ pub[p] \in Requests /\ RequestSound(pub[p], Len(events))
      /\ pub[p].pc = "insert" /\ Len(events) \in Nat
  BY DEF Inv, TypeOK, RequestsSound, Insert, At
<1>2. /\ pub[p].sequence \in 1 .. Len(events) + 1
      /\ pub[p].specs # <<>> /\ pub[p].current \in Projections
  BY <1>1 DEF RequestSound
<1>3. Numbers = 1 .. Len(events)
  BY NumbersUsed DEF Inv, TypeOK
<1>4. pub[p].sequence = Len(events) + 1 /\ pub[p].sequence \in Nat
  BY <1>1, <1>2, <1>3
<1>5. Head(pub[p].specs) \in Kinds
  <2>1. pub[p].specs \in Seq(Kinds)
    BY <1>1 DEF Requests
  <2> QED BY <1>2, <2>1
<1>6. row \in EventRow
  BY <1>2, <1>4, <1>5 DEF EventRow, Content
<1>7. events' = Append(events, row) /\ UNCHANGED <<job, task, client, crashes>>
  BY DEF Insert
<1> QED BY <1>4, <1>6, <1>7

LEMMA InsertKeeps ==
  ASSUME Inv, NEW p \in Publishers, Insert(p)
  PROVE  Inv'
<1>1. CASE pub[p].sequence \in Numbers
  BY <1>1, ReturnKeeps DEF Insert
<1>2. CASE pub[p].sequence \notin Numbers
  <2>1. PICK row \in EventRow : /\ row.sequence = Len(events) + 1
                                /\ events' = Append(events, row)
                                /\ UNCHANGED <<job, task, client, crashes>>
    BY <1>2, InsertAppends
  <2> DEFINE l1 == [pub[p] EXCEPT !.pc = "append"]
             l2 == [l1 EXCEPT !.specs = Tail(@)]
             l3 == [l2 EXCEPT !.sequence = 0]
             l == [l3 EXCEPT !.saved = @ \union {pub[p].sequence}]
  <2>2. /\ pub[p] \in Requests /\ RequestSound(pub[p], Len(events))
        /\ pub[p].pc = "insert" /\ Len(events) \in Nat
        /\ events \in Seq(EventRow)
    BY DEF Inv, TypeOK, RequestsSound, Insert, At
  <2>3. /\ pub[p].current \in Projections /\ pub[p].specs # <<>>
        /\ pub[p].specs \in Seq(Kinds) /\ pub[p].sequence \in Nat
        /\ pub[p].saved \in SUBSET Nat
    BY <2>2 DEF RequestSound, Requests
  <2>4. Tail(pub[p].specs) \in Seq(Kinds)
    BY <2>3
  <2>5. pub' = [pub EXCEPT ![p] = l]
    BY <1>2, <2>2 DEF Insert, Requests
  <2>a. l1 \in Requests
    BY <2>2, FieldTypes DEF RequestPCs
  <2>6. l1 \in Requests /\ l1.specs = pub[p].specs
    BY <2>a, <2>2 DEF Requests
  <2>7. l2 \in Requests
    BY <2>4, <2>6, FieldTypes
  <2>8. l3 \in Requests /\ l3.saved \in SUBSET Nat
    BY <2>7, FieldTypes DEF Requests
  <2>9. l \in Requests
    BY <2>3, <2>8, FieldTypes
  <2>10. l.pc = "append" /\ l.current = pub[p].current
    BY <2>2 DEF Requests
  <2> HIDE DEF l
  <2>11. /\ events' \in Seq(EventRow) /\ Len(events') = Len(events) + 1
         /\ DOMAIN events' = 1 .. Len(events) + 1
         /\ \A i \in 1 .. Len(events) : events'[i] = events[i]
         /\ events'[Len(events) + 1] = row
    BY <2>1, <2>2
  <2>12. TypeOK'
    BY <2>1, <2>5, <2>9, <2>11 DEF Inv, TypeOK
  <2>13. NumbersDense'
    <3>1. \A i \in 1 .. Len(events) : events[i].sequence = i
      BY <2>2 DEF Inv, NumbersDense
    <3> QED BY <2>1, <2>2, <2>11, <3>1 DEF NumbersDense
  <2>14. RequestsSound'
    <3> SUFFICES ASSUME NEW q \in Publishers
                 PROVE  RequestSound(pub'[q], Len(events) + 1)
      BY <2>11 DEF RequestsSound
    <3>1. CASE q = p
      BY <2>3, <2>5, <2>10, <3>1 DEF RequestSound, Inv, TypeOK
    <3>2. CASE q # p
      <4>1. pub'[q] = pub[q] /\ RequestSound(pub[q], Len(events))
        BY <2>5, <3>2 DEF Inv, TypeOK, RequestsSound
      <4> QED BY <2>2, <4>1 DEF RequestSound
    <3> QED BY <3>1, <3>2
  <2>15. ReadersSound'
    <3> SUFFICES ASSUME NEW c \in Clients
                 PROVE  /\ client'[c].last <= Len(events')
                        /\ client'[c].open => client'[c].cursor = Position(c)'
      BY DEF ReadersSound
    <3>1. client' = client /\ Position(c)' = Position(c)
      BY <2>1 DEF Position
    <3>2. /\ client[c].last \in Nat /\ client[c].last <= Len(events)
          /\ client[c].open => client[c].cursor = Position(c)
      BY DEF Inv, TypeOK, ClientStates, ReadersSound
    <3> QED BY <2>2, <2>11, <3>1, <3>2
  <2>16. StreamsComplete'
    <3>1. Range(events') = Range(events) \union {row}
      BY <2>2, <2>11 DEF Range
    <3>2. ASSUME NEW c \in Clients
          PROVE  ~(row.sequence <= client[c].last)
      BY <2>1, <2>2 DEF Inv, TypeOK, ClientStates, ReadersSound
    <3> QED BY <2>1, <3>1, <3>2 DEF Inv, StreamsComplete
  <2> QED BY <2>12, <2>13, <2>14, <2>15, <2>16 DEF Inv
<1> QED BY <1>1, <1>2
----------------------------------------------------------------------------
(* Readers *)

\* Where a reader is, and where it is once it has read to the end of the log.
LEMMA Reading ==
  ASSUME Inv, NEW c \in Clients
  PROVE  /\ Position(c) \in Nat
         /\ Received(c, Position(c)) =
              [client[c] EXCEPT
                 !.got = @ \union {events[i] : i \in (Position(c) + 1) .. Len(events)},
                 !.cursor = IF Position(c) < Len(events) THEN Len(events)
                                                         ELSE Position(c),
                 !.last = IF Position(c) < Len(events) THEN Len(events) ELSE @]
<1>1. client[c] \in ClientStates /\ events \in Seq(EventRow) /\ NumbersDense
  BY DEF Inv, TypeOK
<1>2. client[c].start \in Nat /\ client[c].last \in Nat
  BY <1>1, BoundsAssumption DEF ClientStates
<1>3. Position(c) \in Nat
  BY <1>2, MaxOfTwo DEF Position
<1> QED BY <1>1, <1>3, RowsSince DEF Received
\* A reader that reads to the end of the log has every row from its start to
\* the last one it knows of, and its cursor is where it is.
LEMMA ReadKeeps ==
  ASSUME Inv, NEW c \in Clients,
         client' = [client EXCEPT ![c] = Received(c, Position(c))],
         UNCHANGED <<job, task, events, pub, crashes>>
  PROVE  Inv'
<1> DEFINE n == Position(c)
           rest == {events[i] : i \in (n + 1) .. Len(events)}
           k == client[c]
           next == IF n < Len(events) THEN Len(events) ELSE n
           last == IF n < Len(events) THEN Len(events) ELSE k.last
           l1 == [k EXCEPT !.got = k.got \union rest]
           l2 == [l1 EXCEPT !.cursor = next]
           l == [l2 EXCEPT !.last = last]
<1>1. /\ k \in ClientStates /\ events \in Seq(EventRow) /\ Len(events) \in Nat
      /\ DOMAIN events = 1 .. Len(events) /\ n \in Nat
      /\ \A i \in 1 .. Len(events) : events[i].sequence = i
  <2>1. k \in ClientStates /\ events \in Seq(EventRow) /\ NumbersDense
    BY DEF Inv, TypeOK
  <2>2. n \in Nat
    BY Reading
  <2>3. Len(events) \in Nat /\ DOMAIN events = 1 .. Len(events)
    BY <2>1
  <2> QED BY <2>1, <2>2, <2>3 DEF NumbersDense
<1>2. /\ k.start \in Nat /\ k.start \in Starts /\ k.last \in Nat
      /\ k.last <= Len(events)
      /\ k.got = {e \in Range(events) : e.sequence > k.start /\ e.sequence <= k.last}
      /\ k.got \in SUBSET EventRow
  BY <1>1, BoundsAssumption DEF ClientStates, Inv, ReadersSound, StreamsComplete
<1>3. n = IF k.start >= k.last THEN k.start ELSE k.last
  BY <1>2, MaxOfTwo DEF Position
<1>4. client' = [client EXCEPT ![c] = l]
  BY Reading
<1>5. rest \in SUBSET EventRow
  BY <1>1
<1>6. next \in Nat /\ last \in Nat /\ last <= Len(events)
  BY <1>1, <1>2
<1>7. l \in ClientStates
  <2>1. l1 \in ClientStates
    BY <1>1, <1>2, <1>5 DEF ClientStates
  <2>2. l2 \in ClientStates
    BY <1>6, <2>1 DEF ClientStates
  <2> QED BY <1>6, <2>2 DEF ClientStates
<1>8. /\ l.start = k.start /\ l.last = last /\ l.cursor = next
      /\ l.got = k.got \union rest
  BY <1>1 DEF ClientStates
<1>9. rest = {e \in Range(events) : e.sequence > n}
  BY <1>1 DEF Range
<1>10. k.got \union rest = {e \in Range(events) :
                              e.sequence > k.start /\ e.sequence <= last}
  <2>1. \A e \in Range(events) : e.sequence \in 1 .. Len(events)
    BY <1>1 DEF Range
  <2> HIDE DEF rest, k, n
  <2>2. CASE n < Len(events)
    BY <1>1, <1>2, <1>3, <1>9, <2>1, <2>2
  <2>3. CASE ~(n < Len(events))
    BY <1>1, <1>2, <1>3, <1>9, <2>1, <2>3
  <2> QED BY <2>2, <2>3
<1>11. Max({l.start, l.last}) = next
  <2> HIDE DEF k, n, l, l1, l2
  <2>1. CASE n < Len(events)
    BY <1>1, <1>2, <1>3, <1>6, <1>8, <2>1, MaxOfTwo
  <2>2. CASE ~(n < Len(events))
    BY <1>1, <1>2, <1>3, <1>6, <1>8, <2>2, MaxOfTwo
  <2> QED BY <2>1, <2>2
<1> HIDE DEF l, rest, k, n, last, next
<1>12. ASSUME NEW d \in Clients
       PROVE  client'[d] = IF d = c THEN l ELSE client[d]
  BY <1>4 DEF Inv, TypeOK
<1>13. TypeOK'
  BY <1>4, <1>7 DEF Inv, TypeOK
<1>14. NumbersDense' /\ RequestsSound'
  BY DEF Inv, NumbersDense, RequestsSound
<1>15. ReadersSound'
  <2> SUFFICES ASSUME NEW d \in Clients
               PROVE  /\ client'[d].last <= Len(events)
                      /\ client'[d].open => client'[d].cursor = Position(d)'
    BY DEF ReadersSound
  <2>1. Position(d)' = Max({client'[d].start, client'[d].last})
    BY DEF Position
  <2>2. CASE d = c
    BY <1>6, <1>8, <1>11, <1>12, <2>1, <2>2
  <2>3. CASE d # c
    BY <1>12, <2>1, <2>3 DEF Inv, ReadersSound, Position
  <2> QED BY <2>2, <2>3
<1>16. StreamsComplete'
  BY <1>8, <1>10, <1>12 DEF k, Inv, StreamsComplete
<1> QED BY <1>13, <1>14, <1>15, <1>16 DEF Inv

LEMMA FollowKeeps ==
  ASSUME Inv, NEW c \in Clients, Follow(c)
  PROVE  Inv'
<1>1. client[c] \in ClientStates /\ Position(c) \in Nat
  BY Reading DEF Inv, TypeOK
<1>2. CASE Poll(c)
  <2>1. client[c].cursor = Position(c)
    BY <1>2 DEF Poll, Inv, ReadersSound
  <2> QED BY <1>2, <2>1, ReadKeeps DEF Poll
<1>3. CASE Replay(c)
  BY <1>3, ReadKeeps DEF Replay
<1>4. ASSUME NEW l \in ClientStates,
             client' = [client EXCEPT ![c] = l],
             l.start = client[c].start, l.last = client[c].last,
             l.got = client[c].got, l.open => l.cursor = Position(c),
             UNCHANGED <<job, task, events, pub, crashes>>
      PROVE  Inv'
  <2>1. ASSUME NEW d \in Clients
        PROVE  /\ Position(d)' = Position(d)
               /\ client'[d] = IF d = c THEN l ELSE client[d]
    BY <1>4 DEF Inv, TypeOK, Position
  <2>2. TypeOK'
    BY <1>4 DEF Inv, TypeOK
  <2>3. NumbersDense' /\ RequestsSound'
    BY <1>4 DEF Inv, NumbersDense, RequestsSound
  <2>4. ReadersSound'
    BY <1>4, <2>1 DEF Inv, ReadersSound
  <2>5. StreamsComplete'
    BY <1>4, <2>1 DEF Inv, StreamsComplete
  <2> QED BY <2>2, <2>3, <2>4, <2>5 DEF Inv
<1>5. CASE Connect(c)
  <2> DEFINE l1 == [client[c] EXCEPT !.open = TRUE]
             l == [l1 EXCEPT !.cursor = Position(c)]
  <2>1. /\ client' = [client EXCEPT ![c] = l]
        /\ UNCHANGED <<job, task, events, pub, crashes>>
    BY <1>5 DEF Connect
  <2>2. l1 \in ClientStates
    BY <1>1 DEF ClientStates
  <2>3. l \in ClientStates
    BY <1>1, <2>2 DEF ClientStates
  <2>4. /\ l.start = client[c].start /\ l.last = client[c].last
        /\ l.got = client[c].got /\ l.cursor = Position(c)
    BY <1>1 DEF ClientStates
  <2> HIDE DEF l
  <2> QED BY <1>4, <2>1, <2>3, <2>4
<1>6. CASE Disconnect(c)
  <2> DEFINE l == [client[c] EXCEPT !.open = FALSE]
  <2>1. /\ client' = [client EXCEPT ![c] = l]
        /\ UNCHANGED <<job, task, events, pub, crashes>>
    BY <1>6 DEF Disconnect
  <2>2. l \in ClientStates
    BY <1>1 DEF ClientStates
  <2>3. /\ l.start = client[c].start /\ l.last = client[c].last
        /\ l.got = client[c].got /\ ~ l.open
    BY <1>1 DEF ClientStates
  <2> HIDE DEF l
  <2> QED BY <1>4, <2>1, <2>2, <2>3
<1> QED BY <1>2, <1>3, <1>5, <1>6 DEF Follow
----------------------------------------------------------------------------
(* The invariant *)

LEMMA InitInv ==
  ASSUME Init
  PROVE  Inv
<1> DEFINE Started(n) == [start |-> n, last |-> 0, open |-> FALSE,
                          cursor |-> 0, got |-> {}]
<1>1. \A n \in Starts : Started(n) \in ClientStates
  BY DEF ClientStates
<1>2. \A c \in Clients : \E n \in Starts : client[c] = Started(n)
  BY DEF Init
<1>3. /\ client \in [Clients -> ClientStates]
      /\ \A c \in Clients : /\ client[c].last = 0 /\ client[c].got = {}
                            /\ ~ client[c].open
  BY <1>1, <1>2 DEF Init
<1>4. /\ events = <<>> /\ events \in Seq(EventRow) /\ Len(events) = 0
      /\ DOMAIN events = {} /\ Range(events) = {}
  BY DEF Init, Range
<1>5. TypeOK
  BY <1>3, <1>4, NoRequestType DEF Init, TypeOK
<1>6. RequestsSound
  BY <1>4, NoRequestType DEF Init, RequestsSound
<1>7. NumbersDense /\ ReadersSound /\ StreamsComplete
  BY <1>3, <1>4 DEF NumbersDense, ReadersSound, StreamsComplete
<1> QED BY <1>5, <1>6, <1>7 DEF Inv

LEMMA JobMovesKeeps ==
  ASSUME Inv, JobMoves
  PROVE  Inv'
BY DEF JobMoves, Inv, TypeOK, NumbersDense, RequestsSound, ReadersSound,
       StreamsComplete, Position

\* A crash ends the requests and the connections; the log and what the
\* readers know are untouched.
LEMMA CrashKeeps ==
  ASSUME Inv, Crash
  PROVE  Inv'
<1>1. /\ UNCHANGED <<job, task, events>> /\ crashes' \in Nat
      /\ pub' = [p \in Publishers |-> NoRequest]
      /\ client' = [c \in Clients |-> [client[c] EXCEPT !.open = FALSE]]
  BY DEF Crash, Inv, TypeOK
<1>2. ASSUME NEW c \in Clients
      PROVE  /\ client'[c] \in ClientStates
             /\ client'[c].start = client[c].start
             /\ client'[c].last = client[c].last
             /\ client'[c].got = client[c].got
             /\ ~ client'[c].open
  BY <1>1 DEF Inv, TypeOK, ClientStates
<1>3. TypeOK'
  <2>1. client' \in [Clients -> ClientStates]
    BY <1>1, <1>2
  <2>2. pub' \in [Publishers -> Requests]
    BY <1>1, NoRequestType
  <2> QED BY <1>1, <2>1, <2>2 DEF Inv, TypeOK
<1>4. RequestsSound'
  <2>1. Len(events) \in Nat
    BY DEF Inv, TypeOK
  <2> QED BY <1>1, <2>1, NoRequestType DEF RequestsSound
<1>5. NumbersDense' /\ ReadersSound' /\ StreamsComplete'
  BY <1>1, <1>2 DEF Inv, NumbersDense, ReadersSound, StreamsComplete
<1> QED BY <1>3, <1>4, <1>5 DEF Inv

LEMMA StepInv ==
  ASSUME Inv, [Next]_vars
  PROVE  Inv'
<1>1. ASSUME NEW p \in Publishers, Publish(p) \/ Answer(p)
      PROVE  Inv'
  <2>1. CASE Abort(p)  BY <2>1, ReturnKeeps DEF Abort
  <2>2. CASE Answer(p)  BY <2>2, ReturnKeeps DEF Answer
  <2> QED BY <1>1, <2>1, <2>2, ReadPreviousKeeps, ReadJobKeeps, ReadPhaseKeeps,
             ReadArtifactsKeeps, ReadTaskKeeps, SaveTaskKeeps, BuildSpecsKeeps, NextSequenceKeeps, InsertKeeps
          DEF Publish
<1>2. ASSUME NEW c \in Clients, Follow(c)
      PROVE  Inv'
  BY <1>2, FollowKeeps
<1>3. CASE UNCHANGED vars
  BY <1>3 DEF vars, Inv, TypeOK, NumbersDense, RequestsSound, ReadersSound,
              StreamsComplete, Position
<1> QED BY <1>1, <1>2, <1>3, JobMovesKeeps, CrashKeeps DEF Next

THEOREM Invariance == Spec => []Inv
<1>1. Init => Inv
  BY InitInv
<1>2. Inv /\ [Next]_vars => Inv'
  BY StepInv
<1> QED BY <1>1, <1>2, PTL DEF Spec

\* Every variable always holds values of its kind, whatever the number of
\* requests and readers.
THEOREM TypeCorrect == Spec => []TypeOK
<1>1. Inv => TypeOK
  BY DEF Inv
<1> QED BY <1>1, Invariance, PTL

\* The numbering of events has no holes and no duplicates, for any number of
\* concurrent requests and crashes: the UNIQUE constraint is enough although
\* the number is read outside the transaction.
THEOREM DenseNumbering == Spec => []NumbersDense
<1>1. Inv => NumbersDense
  BY DEF Inv
<1> QED BY <1>1, Invariance, PTL

\* No reader ever misses an event or gets one it did not ask for, over any
\* number of lost connections and replays.
THEOREM NothingSkipped == Spec => []StreamsComplete
<1>1. Inv => StreamsComplete
  BY DEF Inv
<1> QED BY <1>1, Invariance, PTL
----------------------------------------------------------------------------
(* PublicEvents implements EventFeed *)

FeedLog == [i \in DOMAIN events |-> events[i].content]
FeedPos == [c \in Clients |-> Position(c)]
FeedSeen == [c \in Clients |->
               {<<e.sequence, e.content>> : e \in client[c].got}]

\* A step that leaves the log alone, and what readers know, is invisible.
LEMMA FeedStutters ==
  ASSUME UNCHANGED events,
         \A c \in Clients : /\ client'[c].start = client[c].start
                            /\ client'[c].last = client[c].last
                            /\ client'[c].got = client[c].got
  PROVE  UNCHANGED <<FeedLog, FeedPos, FeedSeen>>
BY DEF FeedLog, FeedPos, FeedSeen, Position

\* A reader that reads to the end of the log has read the next events.
LEMMA FeedReads ==
  ASSUME Inv, NEW c \in Clients,
         client' = [client EXCEPT ![c] = Received(c, Position(c))],
         UNCHANGED events
  PROVE  \/ Feed!Read(c)
         \/ UNCHANGED <<FeedLog, FeedPos, FeedSeen>>
<1> DEFINE n == Position(c)
           k == client[c]
<1>1. /\ k \in ClientStates /\ events \in Seq(EventRow) /\ NumbersDense
      /\ client \in [Clients -> ClientStates]
  BY DEF Inv, TypeOK
<1>2. n \in Nat
  BY Reading
<1>3. Len(events) \in Nat /\ DOMAIN events = 1 .. Len(events)
  BY <1>1
<1>4. \A i \in 1 .. Len(events) : events[i].sequence = i
  BY <1>1, <1>3 DEF NumbersDense
<1>5. k.start \in Nat /\ k.last \in Nat
  BY <1>1, BoundsAssumption DEF ClientStates
<1>6. n = IF k.start >= k.last THEN k.start ELSE k.last
  BY <1>5, MaxOfTwo DEF Position
<1>7. CASE n < Len(events)
  <2> DEFINE rest == {events[i] : i \in (n + 1) .. Len(events)}
             l == client'[c]
  <2>1. /\ l.start = k.start /\ l.last = Len(events)
        /\ l.got = k.got \union rest
        /\ \A d \in Clients \ {c} : client'[d] = client[d]
    BY <1>1, <1>7, Reading DEF ClientStates
  <2>2. Max({l.start, l.last}) = Len(events)
    BY <1>3, <1>5, <1>6, <1>7, <2>1, MaxOfTwo
  <2>3. /\ FeedPos' = [FeedPos EXCEPT ![c] = Len(events)]
        /\ FeedPos[c] = n
    <3>1. Position(c)' = Len(events)
      BY <2>2 DEF Position
    <3>2. \A d \in Clients \ {c} : Position(d)' = Position(d)
      BY <2>1 DEF Position
    <3>3. FeedPos' = [d \in Clients |-> Position(d)']
      BY DEF FeedPos
    <3> QED BY <3>1, <3>2, <3>3 DEF FeedPos
  <2>4. FeedLog' = FeedLog /\ DOMAIN FeedLog = 1 .. Len(events)
        /\ \A i \in 1 .. Len(events) : FeedLog[i] = events[i].content
    BY <1>3 DEF FeedLog
  <2>5. FeedLog \in Seq(Content) /\ Len(FeedLog) = Len(events)
    <3>1. \A i \in 1 .. Len(events) : events[i].content \in Content
      <4>1. \A i \in 1 .. Len(events) : events[i] \in EventRow
        BY <1>1
      <4> QED BY <4>1 DEF EventRow
    <3> QED BY <1>3, <3>1 DEF FeedLog
  <2>6. {<<e.sequence, e.content>> : e \in rest}
          = {<<i, FeedLog[i]>> : i \in (n + 1) .. Len(events)}
    <3>1. {<<e.sequence, e.content>> : e \in rest}
            = {<<events[i].sequence, events[i].content>> :
                 i \in (n + 1) .. Len(events)}
      OBVIOUS
    <3>2. \A i \in (n + 1) .. Len(events) :
             events[i].sequence = i /\ FeedLog[i] = events[i].content
      BY <1>2, <1>4, <2>4
    <3> QED BY <3>1, <3>2
  <2>7. FeedSeen' = [FeedSeen EXCEPT ![c] =
                       @ \union {<<i, FeedLog[i]>> : i \in (n + 1) .. Len(events)}]
    <3>1. {<<e.sequence, e.content>> : e \in l.got}
            = FeedSeen[c] \union {<<e.sequence, e.content>> : e \in rest}
      BY <2>1 DEF FeedSeen
    <3> HIDE DEF rest
    <3> QED BY <2>1, <2>6, <3>1 DEF FeedSeen
  <2>8. Len(events) \in (n + 1) .. Len(events)
    BY <1>2, <1>3, <1>7
  <2>9. /\ FeedPos' = [FeedPos EXCEPT ![c] = Len(events)]
        /\ FeedSeen' = [FeedSeen EXCEPT ![c] =
             @ \union {<<i, FeedLog[i]>> : i \in (FeedPos[c] + 1) .. Len(events)}]
        /\ Len(events) \in (FeedPos[c] + 1) .. Len(FeedLog)
        /\ FeedLog' = FeedLog
    BY <2>3, <2>4, <2>5, <2>7, <2>8
  <2> QED BY <2>9 DEF Feed!Read, FeedPos, FeedSeen, FeedLog
<1>8. CASE ~(n < Len(events))
  <2>1. (n + 1) .. Len(events) = {}
    BY <1>2, <1>3, <1>8
  <2>a. {events[i] : i \in (n + 1) .. Len(events)} = {}
    BY <2>1
  <2>b. client'[c] = [k EXCEPT !.got = k.got \union {}, !.cursor = n,
                               !.last = k.last]
    BY <1>1, <1>8, <2>a, Reading
  <2>c. /\ client'[c].start = k.start /\ client'[c].last = k.last
        /\ client'[c].got = k.got
    BY <1>1, <2>b DEF ClientStates
  <2>2. \A d \in Clients : /\ client'[d].start = client[d].start
                           /\ client'[d].last = client[d].last
                           /\ client'[d].got = client[d].got
    BY <1>1, <2>c
  <2> QED BY <2>2, FeedStutters
<1> QED BY <1>7, <1>8

\* An insert that succeeds publishes its event at the end of the log.
LEMMA FeedPublishes ==
  ASSUME Inv, NEW p \in Publishers, Insert(p)
  PROVE  Feed!Publish \/ UNCHANGED <<FeedLog, FeedPos, FeedSeen>>
<1>1. CASE pub[p].sequence \in Numbers
  BY <1>1, FeedStutters DEF Insert
<1>2. CASE pub[p].sequence \notin Numbers
  <2>1. PICK row \in EventRow : /\ row.sequence = Len(events) + 1
                                /\ events' = Append(events, row)
                                /\ UNCHANGED <<job, task, client, crashes>>
    BY <1>2, InsertAppends
  <2>2. events \in Seq(EventRow) /\ row.content \in Content
    BY DEF Inv, TypeOK, EventRow
  <2>3. FeedLog' = Append(FeedLog, row.content)
    <3>1. \A i \in 1 .. Len(events) : events[i].content \in Content
      <4>1. \A i \in 1 .. Len(events) : events[i] \in EventRow
        BY <2>2
      <4> QED BY <4>1 DEF EventRow
    <3>2. FeedLog \in Seq(Content) /\ Len(FeedLog) = Len(events)
      BY <2>2, <3>1 DEF FeedLog
    <3> QED BY <2>1, <2>2, <3>2 DEF FeedLog
  <2>4. FeedPos' = FeedPos /\ FeedSeen' = FeedSeen
    BY <2>1 DEF FeedPos, FeedSeen, Position
  <2> QED BY <2>2, <2>3, <2>4 DEF Feed!Publish, FeedLog, FeedPos, FeedSeen
<1> QED BY <1>1, <1>2

LEMMA FeedStep ==
  ASSUME Inv, [Next]_vars
  PROVE  [Feed!Next]_(Feed!vars)
<1>1. UNCHANGED <<FeedLog, FeedPos, FeedSeen>> => UNCHANGED Feed!vars
  BY DEF Feed!vars, FeedLog, FeedPos, FeedSeen
<1> SUFFICES Feed!Next \/ UNCHANGED <<FeedLog, FeedPos, FeedSeen>>
  BY <1>1
<1>2. ASSUME NEW p \in Publishers, Publish(p) \/ Answer(p)
      PROVE  Feed!Next \/ UNCHANGED <<FeedLog, FeedPos, FeedSeen>>
  <2>1. CASE Insert(p)
    BY <2>1, FeedPublishes DEF Feed!Next
  <2>2. CASE ~Insert(p)
    <3>1. UNCHANGED <<events, client>>
      BY <1>2, <2>2 DEF Publish, ReadPrevious, ReadJob, ReadPhase,
                        ReadArtifacts, ReadTask, SaveTask,
                        BuildSpecs, NextSequence, Abort, Answer
    <3> QED BY <3>1, FeedStutters
  <2> QED BY <2>1, <2>2
<1>3. ASSUME NEW c \in Clients, Follow(c)
      PROVE  Feed!Next \/ UNCHANGED <<FeedLog, FeedPos, FeedSeen>>
  <2>1. client \in [Clients -> ClientStates]
    BY DEF Inv, TypeOK
  <2>2. CASE Poll(c)
    <3>1. client[c].cursor = Position(c)
      BY <2>2 DEF Poll, Inv, ReadersSound
    <3> QED BY <2>2, <3>1, FeedReads DEF Poll, Feed!Next
  <2>3. CASE Replay(c)
    BY <2>3, FeedReads DEF Replay, Feed!Next
  <2>4. CASE Connect(c) \/ Disconnect(c)
    <3>1. UNCHANGED events
      BY <2>4 DEF Connect, Disconnect
    <3>2. \A d \in Clients : /\ client'[d].start = client[d].start
                             /\ client'[d].last = client[d].last
                             /\ client'[d].got = client[d].got
      BY <2>1, <2>4 DEF Connect, Disconnect, ClientStates
    <3> QED BY <3>1, <3>2, FeedStutters
  <2> QED BY <1>3, <2>2, <2>3, <2>4 DEF Follow
<1>4. CASE JobMoves
  BY <1>4, FeedStutters DEF JobMoves
<1>5. CASE Crash
  <2>1. UNCHANGED events
        /\ client' = [c \in Clients |-> [client[c] EXCEPT !.open = FALSE]]
    BY <1>5 DEF Crash
  <2>2. \A d \in Clients : /\ client'[d].start = client[d].start
                           /\ client'[d].last = client[d].last
                           /\ client'[d].got = client[d].got
    BY <2>1 DEF Inv, TypeOK, ClientStates
  <2> QED BY <2>1, <2>2, FeedStutters
<1>6. CASE UNCHANGED vars
  BY <1>6, FeedStutters DEF vars
<1> QED BY <1>2, <1>3, <1>4, <1>5, <1>6 DEF Next

LEMMA FeedInit ==
  ASSUME Init
  PROVE  Feed!Init
<1>1. /\ events = <<>> /\ FeedLog = <<>>
      /\ \A c \in Clients : /\ client[c].start \in Starts
                            /\ client[c].last = 0 /\ client[c].got = {}
  BY DEF Init, FeedLog
<1>2. ASSUME NEW c \in Clients
      PROVE  Position(c) \in Starts
  <2>1. client[c].start \in Nat /\ client[c].last = 0
    BY <1>1, BoundsAssumption
  <2>2. Max({client[c].start, client[c].last}) = client[c].start
    BY <2>1, MaxOfTwo
  <2> QED BY <1>1, <2>2 DEF Position
<1>3. FeedPos \in [Clients -> Starts] /\ FeedSeen = [c \in Clients |-> {}]
  BY <1>1, <1>2 DEF FeedPos, FeedSeen
<1> QED BY <1>1, <1>3 DEF Feed!Init, FeedLog, FeedPos, FeedSeen

\* The event surface implements the feed: what the program does with its
\* requests, numbers, connections and crashes is, to its readers, one log
\* that grows at its end and is read in order.
THEOREM FeedImplemented == Spec => ImplementsFeed
<1>1. Init => Feed!Init
  BY FeedInit
<1>2. Inv /\ [Next]_vars => [Feed!Next]_(Feed!vars)
  BY FeedStep
<1> QED BY <1>1, <1>2, Invariance, PTL DEF Spec, ImplementsFeed, Feed!Spec
=============================================================================
