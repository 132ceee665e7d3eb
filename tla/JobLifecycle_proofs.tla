------------------------- MODULE JobLifecycle_proofs -------------------------
(***************************************************************************)
(* Proofs about JobLifecycle, for any jobs, agents, requests and limits.   *)
(*                                                                         *)
(* The invariant says what makes stale writes harmless to the links        *)
(* between jobs, threads and turns: not only the rows of the database, but *)
(* every row and every id a handler still holds is sound, and what is      *)
(* sound stays so because Codex only ever adds threads and turns.          *)
(***************************************************************************)
EXTENDS JobLifecycle, FiniteSetTheorems, TLAPS

----------------------------------------------------------------------------
(* The inductive invariant *)

ThreadIn(t, a, ths) == t \in 1..Len(ths) /\ ths[t] = a
TurnIn(u, j, t, tns) == u \in 1..Len(tns) /\ tns[u].job = j /\ tns[u].thread = t

\* A row of job j that may be written at any later time
RowSound(j, row, ths, tns) ==
  /\ row.thread # 0 => ThreadIn(row.thread, AgentOf[j], ths)
  /\ row.turn # 0 => TurnIn(row.turn, j, row.thread, tns)
  /\ row.status = "completed" =>
       row.turn # 0 /\ tns[row.turn].status = "completed"

\* Places of a handler by what it holds there
JobFree == {"idle", "stale", "rehydrate", "listAgents", "listJobs", "next"}
AfterTurn == {"commit", "approval", "publish", "edge"}
OnThread == {"resumeThread", "turn"} \union AfterTurn
HasSnap == {"policy", "routed", "evaluate", "pauseJob", "thread",
            "resumeThread", "startThread", "turn", "commit", "requeue",
            "reread", "signal", "interrupted", "compacted", "cancel", "input",
            "decided"}

LocalSound(l, ths, tns, aps) ==
  /\ l.pc \notin JobFree => l.job \in Jobs
  /\ l.pc = "resolve" => l.approval \in 1..Len(aps)
  /\ l.pc \in OnThread => ThreadIn(l.thread, AgentOf[l.job], ths)
  /\ l.pc \in AfterTurn => TurnIn(l.turn, l.job, l.thread, tns)
  /\ l.pc \in HasSnap => RowSound(l.job, l.snap, ths, tns)
  /\ l.pc = "rehydrate" => \A m \in l.found : ThreadIn(m[2], m[1], ths)

Inv ==
  /\ TypeOK
  /\ \A j \in Jobs : RowSound(j, jobs[j], threads, turns)
  /\ \A a \in Agents : mapping[a] # 0 => ThreadIn(mapping[a], a, threads)
  /\ \A p \in Procs : LocalSound(h[p], threads, turns, approvals)

----------------------------------------------------------------------------
(* Types of the local variables, one field at a time *)

LEMMA IdleType == Idle \in Locals /\ NoRow \in Rows
  BY DEF Idle, Locals, Places, NoRow, Rows, JobStatuses, Markers

LEMMA MarkType ==
  ASSUME NEW row \in Rows, NEW s \in JobStatuses, NEW m \in Markers
  PROVE  /\ Mark(row, s, m) \in Rows
         /\ Mark(row, s, m).status = s
         /\ Mark(row, s, m).thread = row.thread
         /\ Mark(row, s, m).turn = row.turn
<1>1. [row EXCEPT !.status = s] \in Rows
  BY DEF Rows
<1>2. [[row EXCEPT !.status = s] EXCEPT !.marker = m] \in Rows
  BY <1>1 DEF Rows
<1>3. Mark(row, s, m) = [[row EXCEPT !.status = s] EXCEPT !.marker = m]
  BY DEF Mark
<1>4. Mark(row, s, m) \in Rows
  BY <1>2, <1>3
<1>5. /\ Mark(row, s, m).status = s
      /\ Mark(row, s, m).thread = row.thread
      /\ Mark(row, s, m).turn = row.turn
  BY DEF Mark, Rows
<1>. QED BY <1>4, <1>5

LEMMA FieldTypes ==
  ASSUME NEW l \in Locals
  PROVE  /\ \A v \in Places : [l EXCEPT !.pc = v] \in Locals
         /\ \A v \in Jobs : [l EXCEPT !.job = v] \in Locals
         /\ \A v \in Rows : [l EXCEPT !.snap = v] \in Locals
         /\ \A v \in BOOLEAN : [l EXCEPT !.saw = v] \in Locals
         /\ \A v \in Nat : [l EXCEPT !.thread = v] \in Locals
         /\ \A v \in Nat : [l EXCEPT !.turn = v] \in Locals
         /\ \A v \in Nat : [l EXCEPT !.approval = v] \in Locals
         /\ \A v \in BOOLEAN : [l EXCEPT !.accept = v] \in Locals
         /\ \A v \in Jobs \union {None} : [l EXCEPT !.route = v] \in Locals
         /\ \A v \in AllOps \union {"none", "sweep"} : [l EXCEPT !.op = v] \in Locals
         /\ \A v \in SUBSET (Agents \X Nat) : [l EXCEPT !.found = v] \in Locals
         /\ \A v \in SUBSET Agents : [l EXCEPT !.agents = v] \in Locals
         /\ \A v \in SUBSET Jobs : [l EXCEPT !.todo = v] \in Locals
<1>1. \A v \in Places : [l EXCEPT !.pc = v] \in Locals
  BY DEF Locals
<1>2. \A v \in Jobs : [l EXCEPT !.job = v] \in Locals
  BY DEF Locals
<1>3. \A v \in Rows : [l EXCEPT !.snap = v] \in Locals
  BY DEF Locals
<1>4. \A v \in BOOLEAN : [l EXCEPT !.saw = v] \in Locals
  BY DEF Locals
<1>5. \A v \in Nat : [l EXCEPT !.thread = v] \in Locals
  BY DEF Locals
<1>6. \A v \in Nat : [l EXCEPT !.turn = v] \in Locals
  BY DEF Locals
<1>7. \A v \in Nat : [l EXCEPT !.approval = v] \in Locals
  BY DEF Locals
<1>8. \A v \in BOOLEAN : [l EXCEPT !.accept = v] \in Locals
  BY DEF Locals
<1>9. \A v \in Jobs \union {None} : [l EXCEPT !.route = v] \in Locals
  BY DEF Locals
<1>10. \A v \in AllOps \union {"none", "sweep"} : [l EXCEPT !.op = v] \in Locals
  BY DEF Locals
<1>11. \A v \in SUBSET (Agents \X Nat) : [l EXCEPT !.found = v] \in Locals
  BY DEF Locals
<1>12. \A v \in SUBSET Agents : [l EXCEPT !.agents = v] \in Locals
  BY DEF Locals
<1>13. \A v \in SUBSET Jobs : [l EXCEPT !.todo = v] \in Locals
  BY DEF Locals
<1>. QED BY <1>1, <1>2, <1>3, <1>4, <1>5, <1>6, <1>7, <1>8, <1>9, <1>10,
            <1>11, <1>12, <1>13

LEMMA OverType ==
  ASSUME NEW l \in Locals
  PROVE  Over(l) \in Locals /\ Over(l).pc \in {"idle", "next"}
<1>1. /\ l.op \in AllOps \union {"none", "sweep"} /\ l.todo \in SUBSET Jobs
      /\ "next" \in Places
  BY DEF Locals, Places
<1>2. [Idle EXCEPT !.pc = "next"] \in Locals
  BY <1>1, IdleType, FieldTypes
<1>3. [[Idle EXCEPT !.pc = "next"] EXCEPT !.op = l.op] \in Locals
  BY <1>1, <1>2, FieldTypes
<1>4. [[[Idle EXCEPT !.pc = "next"] EXCEPT !.op = l.op] EXCEPT !.todo = l.todo]
        \in Locals
  BY <1>1, <1>3, FieldTypes
<1>5. Over(l) \in Locals
  BY <1>4, IdleType DEF Over
<1>6. Over(l).pc \in {"idle", "next"}
  BY DEF Over, Idle
<1>. QED BY <1>5, <1>6

----------------------------------------------------------------------------
(* What is sound stays sound when Codex and the approvals only grow. *)

Extends(s, t) == Len(s) <= Len(t) /\ \A i \in 1..Len(s) : t[i] = s[i]

LEMMA RowSoundGrows ==
  ASSUME NEW ths \in Seq(Agents), NEW ths2 \in Seq(Agents),
         NEW tns \in Seq(Turns), NEW tns2 \in Seq(Turns),
         Extends(ths, ths2), Extends(tns, tns2),
         NEW j, NEW row, RowSound(j, row, ths, tns)
  PROVE  RowSound(j, row, ths2, tns2)
  BY DEF RowSound, ThreadIn, TurnIn, Extends

LEMMA LocalSoundGrows ==
  ASSUME NEW ths \in Seq(Agents), NEW ths2 \in Seq(Agents),
         NEW tns \in Seq(Turns), NEW tns2 \in Seq(Turns),
         NEW aps \in Seq(Approvals), NEW aps2 \in Seq(Approvals),
         Extends(ths, ths2), Extends(tns, tns2), Len(aps) <= Len(aps2),
         NEW l, LocalSound(l, ths, tns, aps)
  PROVE  LocalSound(l, ths2, tns2, aps2)
<1>1. \A t, a : ThreadIn(t, a, ths) => ThreadIn(t, a, ths2)
  BY DEF ThreadIn, Extends
<1>2. \A u, j, t : TurnIn(u, j, t, tns) => TurnIn(u, j, t, tns2)
  BY DEF TurnIn, Extends
<1>3. RowSound(l.job, l.snap, ths, tns) => RowSound(l.job, l.snap, ths2, tns2)
  BY RowSoundGrows
<1>4. l.approval \in 1..Len(aps) => l.approval \in 1..Len(aps2)
  OBVIOUS
<1>. QED BY <1>1, <1>2, <1>3, <1>4 DEF LocalSound

LEMMA AppendExtends ==
  ASSUME NEW S, NEW s \in Seq(S), NEW e \in S
  PROVE  /\ Append(s, e) \in Seq(S)
         /\ Extends(s, Append(s, e))
         /\ Len(Append(s, e)) = Len(s) + 1
         /\ Append(s, e)[Len(s) + 1] = e
  BY DEF Extends

LEMMA SameExtends == ASSUME NEW S, NEW s \in Seq(S) PROVE Extends(s, s)
  BY DEF Extends

----------------------------------------------------------------------------
(* One step of a handler *)

Tables == <<jobs, paused, edges, approvals, threads, turns, mapping, online,
            serving, crashes>>

\* What a step must show: the new local variables l of the handler that moved
\* are sound, and so is what it wrote.
LEMMA StepKeeps ==
  ASSUME Inv, NEW p \in Procs, NEW l \in Locals, h' = [h EXCEPT ![p] = l],
         jobs' \in [Jobs -> Rows], paused' \in BOOLEAN,
         edges' \in [Agents -> Nat], approvals' \in Seq(Approvals),
         threads' \in Seq(Agents), turns' \in Seq(Turns),
         mapping' \in [Agents -> Nat], online' \in [Agents -> BOOLEAN],
         serving' \in BOOLEAN, crashes' \in Nat,
         Extends(threads, threads'), Extends(turns, turns'),
         Len(approvals) <= Len(approvals'),
         LocalSound(l, threads', turns', approvals'),
         \A j \in Jobs : \/ jobs'[j] = jobs[j]
                        \/ RowSound(j, jobs'[j], threads', turns'),
         \A a \in Agents : \/ mapping'[a] = mapping[a]
                          \/ ThreadIn(mapping'[a], a, threads')
  PROVE  Inv'
<1>1. /\ threads \in Seq(Agents) /\ turns \in Seq(Turns)
      /\ approvals \in Seq(Approvals) /\ h \in [Procs -> Locals]
  BY DEF Inv, TypeOK
<1>2. /\ h' \in [Procs -> Locals] /\ h'[p] = l
      /\ \A q \in Procs \ {p} : h'[q] = h[q]
  BY <1>1
<1>3. TypeOK'
  BY <1>2 DEF TypeOK
<1>4. \A j \in Jobs : RowSound(j, jobs'[j], threads', turns')
  <2>1. ASSUME NEW j \in Jobs, jobs'[j] = jobs[j]
        PROVE  RowSound(j, jobs'[j], threads', turns')
    <3>1. RowSound(j, jobs[j], threads, turns)
      BY DEF Inv
    <3>2. RowSound(j, jobs[j], threads', turns')
      BY <1>1, <3>1, RowSoundGrows
    <3>. QED BY <2>1, <3>2
  <2>. QED BY <2>1
<1>5. \A a \in Agents : mapping'[a] # 0 => ThreadIn(mapping'[a], a, threads')
  <2>1. ASSUME NEW a \in Agents, mapping[a] # 0
        PROVE  ThreadIn(mapping[a], a, threads')
    <3>1. ThreadIn(mapping[a], a, threads)
      BY <2>1 DEF Inv
    <3>2. \A t \in 1..Len(threads) : t \in 1..Len(threads') /\ threads'[t] = threads[t]
      BY <1>1 DEF Extends
    <3>. QED BY <3>1, <3>2 DEF ThreadIn
  <2>. QED BY <2>1
<1>6. \A q \in Procs : LocalSound(h'[q], threads', turns', approvals')
  <2>1. ASSUME NEW q \in Procs \ {p}
        PROVE  LocalSound(h'[q], threads', turns', approvals')
    <3>1. LocalSound(h[q], threads, turns, approvals)
      BY DEF Inv
    <3>2. LocalSound(h[q], threads', turns', approvals')
      BY <1>1, <3>1, LocalSoundGrows
    <3>3. h'[q] = h[q]
      BY <1>2
    <3>. QED BY <3>2, <3>3
  <2>. QED BY <1>2, <2>1
<1>. QED BY <1>3, <1>4, <1>5, <1>6 DEF Inv

\* A step that changes no table
LEMMA LocalKeeps ==
  ASSUME Inv, NEW p \in Procs, NEW l \in Locals, h' = [h EXCEPT ![p] = l],
         LocalSound(l, threads, turns, approvals), UNCHANGED Tables
  PROVE  Inv'
<1>1. TypeOK
  BY DEF Inv
<1>2. /\ jobs' = jobs /\ paused' = paused /\ edges' = edges
      /\ approvals' = approvals /\ threads' = threads /\ turns' = turns
      /\ mapping' = mapping /\ online' = online /\ serving' = serving
      /\ crashes' = crashes
  BY DEF Tables
<1>3. Extends(threads, threads) /\ Extends(turns, turns)
  BY <1>1, SameExtends DEF TypeOK
<1>4. /\ jobs' \in [Jobs -> Rows] /\ paused' \in BOOLEAN
      /\ edges' \in [Agents -> Nat] /\ approvals' \in Seq(Approvals)
      /\ threads' \in Seq(Agents) /\ turns' \in Seq(Turns)
      /\ mapping' \in [Agents -> Nat] /\ online' \in [Agents -> BOOLEAN]
      /\ serving' \in BOOLEAN /\ crashes' \in Nat
      /\ Len(approvals) <= Len(approvals')
  BY <1>1, <1>2 DEF TypeOK
<1>. QED BY <1>2, <1>3, <1>4, StepKeeps

\* A step that writes the handler's row
LEMMA WriteKeeps ==
  ASSUME Inv, NEW p \in Procs, NEW l \in Locals, h' = [h EXCEPT ![p] = l],
         LocalSound(l, threads, turns, approvals),
         NEW row \in Rows, Write(p, row), h[p].job \in Jobs,
         RowSound(h[p].job, row, threads, turns),
         UNCHANGED <<paused, edges, approvals, threads, turns, mapping, online,
                     serving, crashes>>
  PROVE  Inv'
<1>1. TypeOK
  BY DEF Inv
<1>3. Extends(threads, threads) /\ Extends(turns, turns)
  BY <1>1, SameExtends DEF TypeOK
<1>4. /\ jobs' \in [Jobs -> Rows]
      /\ \A j \in Jobs : \/ jobs'[j] = jobs[j]
                        \/ RowSound(j, jobs'[j], threads, turns)
  BY <1>1 DEF Write, TypeOK
<1>5. /\ paused' \in BOOLEAN
      /\ edges' \in [Agents -> Nat] /\ approvals' \in Seq(Approvals)
      /\ threads' \in Seq(Agents) /\ turns' \in Seq(Turns)
      /\ mapping' \in [Agents -> Nat] /\ online' \in [Agents -> BOOLEAN]
      /\ serving' \in BOOLEAN /\ crashes' \in Nat
      /\ Len(approvals) <= Len(approvals')
  BY <1>1 DEF TypeOK
<1>. QED BY <1>3, <1>4, <1>5, StepKeeps

\* Where a handler goes, and the row it read, when it only looks
Look(p, pc, row) == [[h[p] EXCEPT !.pc = pc] EXCEPT !.snap = row]

LEMMA HandlerType ==
  ASSUME Inv, NEW p \in Procs
  PROVE  /\ h[p] \in Locals /\ h[p].snap \in Rows /\ h[p].pc \in Places
         /\ h[p].thread \in Nat /\ h[p].turn \in Nat /\ h[p].saw \in BOOLEAN
         /\ LocalSound(h[p], threads, turns, approvals)
         /\ h[p].pc \notin JobFree =>
              /\ h[p].job \in Jobs /\ AgentOf[h[p].job] \in Agents
              /\ jobs[h[p].job] \in Rows
              /\ RowSound(h[p].job, jobs[h[p].job], threads, turns)
<1>1. h[p] \in Locals
  BY DEF Inv, TypeOK
<1>2. /\ h[p].snap \in Rows /\ h[p].pc \in Places
      /\ h[p].thread \in Nat /\ h[p].turn \in Nat /\ h[p].saw \in BOOLEAN
  BY <1>1 DEF Locals
<1>3. LocalSound(h[p], threads, turns, approvals)
  BY DEF Inv
<1>4. h[p].pc \notin JobFree => h[p].job \in Jobs
  BY <1>3 DEF LocalSound
<1>5. ASSUME h[p].job \in Jobs
      PROVE  /\ AgentOf[h[p].job] \in Agents
             /\ jobs[h[p].job] \in Rows
             /\ RowSound(h[p].job, jobs[h[p].job], threads, turns)
  BY <1>5, AgentsAssumption DEF Inv, TypeOK
<1>. QED BY <1>1, <1>2, <1>3, <1>4, <1>5

LEMMA LookType ==
  ASSUME Inv, NEW p \in Procs, NEW pc \in Places, NEW row \in Rows
  PROVE  /\ Look(p, pc, row) \in Locals
         /\ Look(p, pc, row).pc = pc /\ Look(p, pc, row).snap = row
         /\ Look(p, pc, row).job = h[p].job
<1>1. h[p] \in Locals
  BY HandlerType
<1>2. [h[p] EXCEPT !.pc = pc] \in Locals
  BY <1>1, FieldTypes
<1>3. Look(p, pc, row) \in Locals
  BY <1>2, FieldTypes DEF Look
<1>4. /\ Look(p, pc, row).pc = pc /\ Look(p, pc, row).snap = row
      /\ Look(p, pc, row).job = h[p].job
  BY <1>1 DEF Look, Locals
<1>. QED BY <1>3, <1>4

\* The same handler at another place
LEMMA GotoType ==
  ASSUME Inv, NEW p \in Procs, NEW pc \in Places
  PROVE  LET l == [h[p] EXCEPT !.pc = pc]
         IN /\ l \in Locals /\ l.pc = pc /\ l.job = h[p].job
            /\ l.snap = h[p].snap /\ l.thread = h[p].thread
            /\ l.turn = h[p].turn /\ l.approval = h[p].approval
            /\ l.found = h[p].found
<1>1. h[p] \in Locals
  BY HandlerType
<1>2. [h[p] EXCEPT !.pc = pc] \in Locals
  BY <1>1, FieldTypes
<1>. QED BY <1>1, <1>2 DEF Locals

LEMMA ReturnSound ==
  ASSUME NEW l \in Locals, NEW ths, NEW tns, NEW aps
  PROVE  Over(l) \in Locals /\ LocalSound(Over(l), ths, tns, aps)
  BY OverType DEF LocalSound, JobFree, OnThread, AfterTurn, HasSnap

\* A handler that ends, or that goes on with its sweep, holds nothing.
LEMMA ReturnKeeps ==
  ASSUME Inv, NEW p \in Procs, Return(p), UNCHANGED Tables
  PROVE  Inv'
<1>1. Over(h[p]) \in Locals /\ LocalSound(Over(h[p]), threads, turns, approvals)
  BY HandlerType, ReturnSound
<1>. QED BY <1>1, LocalKeeps DEF Return

\* A handler that moves on without taking anything up but what it holds
GoesOn(from, to) ==
  /\ to \in Places \ {"resolve", "rehydrate"}
  /\ to \notin JobFree => from \notin JobFree
  /\ to \in OnThread => from \in OnThread
  /\ to \in AfterTurn => from \in AfterTurn
  /\ to \in HasSnap => from \in HasSnap

LEMMA GotoSound ==
  ASSUME Inv, NEW p \in Procs, NEW pc, GoesOn(h[p].pc, pc)
  PROVE  /\ [h[p] EXCEPT !.pc = pc] \in Locals
         /\ LocalSound([h[p] EXCEPT !.pc = pc], threads, turns, approvals)
<1>. DEFINE l == [h[p] EXCEPT !.pc = pc]
<1>1. LocalSound(h[p], threads, turns, approvals)
  BY HandlerType
<1>2. /\ l \in Locals /\ l.pc = pc /\ l.job = h[p].job
      /\ l.snap = h[p].snap /\ l.thread = h[p].thread
      /\ l.turn = h[p].turn
  BY GotoType DEF GoesOn
<1>. HIDE DEF l
<1>3. LocalSound(l, threads, turns, approvals)
  BY <1>1, <1>2 DEF GoesOn, LocalSound
<1>. QED BY <1>2, <1>3 DEF l

LEMMA GotoKeeps ==
  ASSUME Inv, NEW p \in Procs, NEW pc, GoesOn(h[p].pc, pc), Goto(p, pc),
         UNCHANGED Tables
  PROVE  Inv'
  BY GotoSound, LocalKeeps DEF Goto

\* A handler that reads its job's row
LEMMA ReadKeeps ==
  ASSUME Inv, NEW p \in Procs, NEW pc \in HasSnap \ OnThread,
         h[p].pc \notin JobFree, UNCHANGED Tables,
         h' = [h EXCEPT ![p].pc = pc, ![p].snap = jobs[h[p].job]]
  PROVE  Inv'
<1>. DEFINE l == Look(p, pc, jobs[h[p].job])
<1>1. /\ h[p].job \in Jobs /\ jobs[h[p].job] \in Rows
      /\ RowSound(h[p].job, jobs[h[p].job], threads, turns)
  BY HandlerType
<1>2. /\ l \in Locals /\ l.pc = pc /\ l.snap = jobs[h[p].job]
      /\ l.job = h[p].job
  BY <1>1, LookType DEF Places, Executing, HasSnap
<1>3. h' = [h EXCEPT ![p] = l]
  BY DEF Look
<1>. HIDE DEF l
<1>4. LocalSound(l, threads, turns, approvals)
  BY <1>1, <1>2 DEF LocalSound, OnThread, AfterTurn, HasSnap
<1>. QED BY <1>2, <1>3, <1>4, LocalKeeps

\* A new status on the row it holds: sound unless it invents a completion
LEMMA MarkSound ==
  ASSUME Inv, NEW p \in Procs, h[p].pc \in HasSnap,
         NEW s \in JobStatuses, s = "completed" => h[p].snap.status = s,
         NEW m \in Markers
  PROVE  /\ h[p].job \in Jobs /\ Mark(h[p].snap, s, m) \in Rows
         /\ RowSound(h[p].job, Mark(h[p].snap, s, m), threads, turns)
<1>. DEFINE row == Mark(h[p].snap, s, m)
<1>1. /\ h[p].job \in Jobs /\ h[p].snap \in Rows
      /\ RowSound(h[p].job, h[p].snap, threads, turns)
  BY HandlerType DEF LocalSound, HasSnap, JobFree
<1>2. /\ row \in Rows /\ row.status = s
      /\ row.thread = h[p].snap.thread /\ row.turn = h[p].snap.turn
  BY <1>1, MarkType
<1>. HIDE DEF row
<1>3. RowSound(h[p].job, row, threads, turns)
  BY <1>1, <1>2 DEF RowSound
<1>. QED BY <1>1, <1>2, <1>3 DEF row

\* ... written before the handler moves on, or before it ends
LEMMA MarkKeeps ==
  ASSUME Inv, NEW p \in Procs, h[p].pc \in HasSnap,
         NEW s \in JobStatuses, s = "completed" => h[p].snap.status = s,
         NEW m \in Markers, Write(p, Mark(h[p].snap, s, m)),
         Return(p) \/ \E pc : GoesOn(h[p].pc, pc) /\ Goto(p, pc),
         UNCHANGED <<paused, edges, approvals, threads, turns, mapping, online,
                     serving, crashes>>
  PROVE  Inv'
<1>1. /\ h[p].job \in Jobs /\ Mark(h[p].snap, s, m) \in Rows
      /\ RowSound(h[p].job, Mark(h[p].snap, s, m), threads, turns)
  BY MarkSound
<1>2. CASE Return(p)
  <2>1. /\ Over(h[p]) \in Locals
        /\ LocalSound(Over(h[p]), threads, turns, approvals)
    BY HandlerType, ReturnSound
  <2>. QED BY <1>1, <1>2, <2>1, WriteKeeps DEF Return
<1>3. CASE \E pc : GoesOn(h[p].pc, pc) /\ Goto(p, pc)
  <2>1. PICK pc : GoesOn(h[p].pc, pc) /\ Goto(p, pc)
    BY <1>3
  <2>2. /\ [h[p] EXCEPT !.pc = pc] \in Locals
        /\ LocalSound([h[p] EXCEPT !.pc = pc], threads, turns, approvals)
    BY <2>1, GotoSound
  <2>. QED BY <1>1, <2>1, <2>2, WriteKeeps DEF Goto
<1>. QED BY <1>2, <1>3

----------------------------------------------------------------------------
(* schedule_job *)

LEMMA ScheduleKeeps ==
  ASSUME Inv, NEW p \in Procs, ScheduleStep(p)
  PROVE  Inv'
<1>. USE DEF session, codex, process, Tables, At
<1>1. CASE ScheduleRead(p)
  BY <1>1, ReadKeeps DEF ScheduleRead, HasSnap, OnThread, AfterTurn, JobFree
<1>2. CASE Reroute(p)
  <2>1. /\ h[p].job \in Jobs /\ h[p].snap \in Rows
        /\ RowSound(h[p].job, h[p].snap, threads, turns)
    BY <1>2, HandlerType DEF Reroute, JobFree, LocalSound, HasSnap
  <2>2. GoesOn(h[p].pc, "routed")
    BY <1>2 DEF Reroute, GoesOn, Places, JobFree, OnThread, AfterTurn, HasSnap
  <2>. QED BY <1>2, <2>1, <2>2, GotoSound, WriteKeeps DEF Reroute, Goto
<1>3. CASE Hold(p)
  <2>1. h[p].pc \in HasSnap
    BY <1>3 DEF Hold, HasSnap
  <2>. QED BY <1>3, <2>1, MarkKeeps
           DEF Hold, JobStatuses, TurnStatuses, Asked, Markers
<1>4. CASE CheckRuntime(p)
  <2>1. CASE Return(p)
    BY <1>4, <2>1, ReturnKeeps DEF CheckRuntime
  <2>2. CASE Goto(p, "execute")
    <3>1. GoesOn(h[p].pc, "execute")
      BY <1>4 DEF CheckRuntime, GoesOn, Places, Executing, JobFree, OnThread,
                  AfterTurn, HasSnap
    <3>. QED BY <1>4, <2>2, <3>1, GotoKeeps DEF CheckRuntime
  <2>. QED BY <1>4, <2>1, <2>2 DEF CheckRuntime
<1>. QED BY <1>1, <1>2, <1>3, <1>4 DEF ScheduleStep

----------------------------------------------------------------------------
(* execute_job *)

LEMMA TablesType ==
  ASSUME Inv
  PROVE  /\ jobs \in [Jobs -> Rows] /\ paused \in BOOLEAN
         /\ edges \in [Agents -> Nat] /\ approvals \in Seq(Approvals)
         /\ threads \in Seq(Agents) /\ turns \in Seq(Turns)
         /\ mapping \in [Agents -> Nat] /\ online \in [Agents -> BOOLEAN]
         /\ serving \in BOOLEAN /\ crashes \in Nat
         /\ Extends(threads, threads) /\ Extends(turns, turns)
         /\ Len(approvals) \in Nat
<1>1. TypeOK
  BY DEF Inv
<1>. QED BY <1>1, SameExtends DEF TypeOK

LEMMA EvaluateKeeps ==
  ASSUME Inv, NEW p \in Procs, Evaluate(p)
  PROVE  Inv'
<1>. DEFINE pc == IF edges[AgentOf[h[p].job]] + 1 >= MaxRelayEdges
                    THEN "pauseJob" ELSE "thread"
            l == [[h[p] EXCEPT !.saw = paused] EXCEPT !.pc = pc]
<1>1. /\ h[p] \in Locals /\ h[p].job \in Jobs
      /\ RowSound(h[p].job, h[p].snap, threads, turns)
  BY HandlerType DEF Evaluate, At, JobFree, LocalSound, HasSnap
<1>2. pc \in {"pauseJob", "thread"}
  OBVIOUS
<1>3. h' = [h EXCEPT ![p] = l]
  BY DEF Evaluate
<1>. HIDE DEF pc
<1>4. [h[p] EXCEPT !.saw = paused] \in Locals
  BY <1>1, FieldTypes, TablesType
<1>5. l \in Locals
  BY <1>2, <1>4, FieldTypes DEF Places, Executing
<1>6. l.pc = pc /\ l.job = h[p].job /\ l.snap = h[p].snap
  BY <1>1 DEF Locals
<1>. HIDE DEF l
<1>7. LocalSound(l, threads, turns, approvals)
  BY <1>1, <1>2, <1>6 DEF LocalSound, OnThread, AfterTurn, JobFree
<1>. QED BY <1>3, <1>5, <1>7, LocalKeeps
         DEF Evaluate, session, codex, process, Tables

LEMMA LookupThreadKeeps ==
  ASSUME Inv, NEW p \in Procs, LookupThread(p)
  PROVE  Inv'
<1>. DEFINE t == mapping[AgentOf[h[p].job]]
            pc == IF t # 0 THEN "resumeThread" ELSE "startThread"
            l == [[h[p] EXCEPT !.pc = pc] EXCEPT !.thread = t]
<1>1. /\ h[p] \in Locals /\ h[p].job \in Jobs /\ AgentOf[h[p].job] \in Agents
      /\ RowSound(h[p].job, h[p].snap, threads, turns)
  BY HandlerType DEF LookupThread, At, JobFree, LocalSound, HasSnap
<1>2. t \in Nat /\ (t # 0 => ThreadIn(t, AgentOf[h[p].job], threads))
  BY <1>1, TablesType DEF Inv
<1>3. h' = [h EXCEPT ![p] = l]
  BY DEF LookupThread
<1>. HIDE DEF t
<1>4. pc \in {"resumeThread", "startThread"} /\ (pc = "resumeThread" => t # 0)
  OBVIOUS
<1>. HIDE DEF pc
<1>5. [h[p] EXCEPT !.pc = pc] \in Locals
  BY <1>1, <1>4, FieldTypes DEF Places, Executing
<1>6. l \in Locals
  BY <1>2, <1>5, FieldTypes
<1>7. l.pc = pc /\ l.job = h[p].job /\ l.snap = h[p].snap /\ l.thread = t
  BY <1>1 DEF Locals
<1>. HIDE DEF l
<1>8. LocalSound(l, threads, turns, approvals)
  BY <1>1, <1>2, <1>4, <1>7 DEF LocalSound, OnThread, AfterTurn, JobFree
<1>. QED BY <1>3, <1>6, <1>8, LocalKeeps
         DEF LookupThread, session, codex, process, Tables

LEMMA ResumeThreadKeeps ==
  ASSUME Inv, NEW p \in Procs, ResumeThread(p)
  PROVE  Inv'
<1>1. /\ h[p].job \in Jobs /\ AgentOf[h[p].job] \in Agents
      /\ h[p].thread \in Nat
      /\ ThreadIn(h[p].thread, AgentOf[h[p].job], threads)
  BY HandlerType DEF ResumeThread, At, JobFree, LocalSound, OnThread
<1>2. GoesOn(h[p].pc, "turn")
  BY DEF ResumeThread, At, GoesOn, Places, Executing, JobFree, OnThread,
         AfterTurn, HasSnap
<1>3. /\ mapping' \in [Agents -> Nat]
      /\ \A a \in Agents : \/ mapping'[a] = mapping[a]
                          \/ ThreadIn(mapping'[a], a, threads)
  BY <1>1, TablesType DEF ResumeThread
<1>4. /\ h' = [h EXCEPT ![p] = [h[p] EXCEPT !.pc = "turn"]]
      /\ jobs' = jobs /\ paused' = paused /\ edges' = edges
      /\ approvals' = approvals /\ threads' = threads /\ turns' = turns
      /\ online' = online /\ serving' = serving /\ crashes' = crashes
  BY DEF ResumeThread, Goto, session, codex
<1>5. /\ [h[p] EXCEPT !.pc = "turn"] \in Locals
      /\ LocalSound([h[p] EXCEPT !.pc = "turn"], threads, turns, approvals)
  BY <1>2, GotoSound
<1>6. /\ jobs' \in [Jobs -> Rows] /\ paused' \in BOOLEAN
      /\ edges' \in [Agents -> Nat] /\ approvals' \in Seq(Approvals)
      /\ threads' \in Seq(Agents) /\ turns' \in Seq(Turns)
      /\ online' \in [Agents -> BOOLEAN] /\ serving' \in BOOLEAN
      /\ crashes' \in Nat /\ Len(approvals) <= Len(approvals')
      /\ Extends(threads, threads') /\ Extends(turns, turns')
  BY <1>4, TablesType
<1>7. /\ LocalSound([h[p] EXCEPT !.pc = "turn"], threads', turns', approvals')
      /\ \A a \in Agents : \/ mapping'[a] = mapping[a]
                          \/ ThreadIn(mapping'[a], a, threads')
      /\ \A j \in Jobs : jobs'[j] = jobs[j]
  BY <1>3, <1>4, <1>5
<1>. QED BY <1>3, <1>4, <1>5, <1>6, <1>7, StepKeeps

LEMMA StartThreadKeeps ==
  ASSUME Inv, NEW p \in Procs, StartThread(p)
  PROVE  Inv'
<1>. DEFINE a == AgentOf[h[p].job]
            t == Len(threads) + 1
            l == [[h[p] EXCEPT !.pc = "turn"] EXCEPT !.thread = t]
<1>1. /\ h[p] \in Locals /\ h[p].job \in Jobs /\ a \in Agents
      /\ RowSound(h[p].job, h[p].snap, threads, turns)
  BY HandlerType DEF StartThread, At, JobFree, LocalSound, HasSnap
<1>2. t \in Nat
  BY TablesType
<1>3. threads' = Append(threads, a) /\ mapping' = [mapping EXCEPT ![a] = t]
      /\ h' = [h EXCEPT ![p] = l]
  BY DEF StartThread
<1>4. /\ threads' \in Seq(Agents) /\ Extends(threads, threads')
      /\ ThreadIn(t, a, threads')
  BY <1>1, <1>3, TablesType, AppendExtends DEF ThreadIn
<1>5. [h[p] EXCEPT !.pc = "turn"] \in Locals
  BY <1>1, FieldTypes DEF Places, Executing
<1>6. l \in Locals
  BY <1>2, <1>5, FieldTypes
<1>7. /\ l.pc = "turn" /\ l.job = h[p].job /\ l.snap = h[p].snap
      /\ l.thread = t
  BY <1>1 DEF Locals
<1>8. /\ mapping' \in [Agents -> Nat]
      /\ \A b \in Agents : \/ mapping'[b] = mapping[b]
                          \/ ThreadIn(mapping'[b], b, threads')
  BY <1>1, <1>2, <1>3, <1>4, TablesType
<1>9. RowSound(h[p].job, h[p].snap, threads', turns)
  BY <1>1, <1>4, TablesType, RowSoundGrows
<1>. HIDE DEF l, t
<1>10. LocalSound(l, threads', turns, approvals)
  BY <1>1, <1>4, <1>7, <1>9 DEF LocalSound, OnThread, AfterTurn, JobFree
<1>11. /\ jobs' = jobs /\ paused' = paused /\ edges' = edges
       /\ approvals' = approvals /\ turns' = turns
       /\ online' = online /\ serving' = serving /\ crashes' = crashes
  BY DEF StartThread, session
<1>12. /\ jobs' \in [Jobs -> Rows] /\ paused' \in BOOLEAN
       /\ edges' \in [Agents -> Nat] /\ approvals' \in Seq(Approvals)
       /\ turns' \in Seq(Turns) /\ online' \in [Agents -> BOOLEAN]
       /\ serving' \in BOOLEAN /\ crashes' \in Nat
       /\ Len(approvals) <= Len(approvals') /\ Extends(turns, turns')
  BY <1>11, TablesType
<1>13. /\ LocalSound(l, threads', turns', approvals')
       /\ \A j \in Jobs : jobs'[j] = jobs[j]
  BY <1>10, <1>11
<1>. QED BY <1>3, <1>4, <1>6, <1>8, <1>12, <1>13, StepKeeps

LEMMA StartTurnKeeps ==
  ASSUME Inv, NEW p \in Procs, NEW status \in Answers, StartTurn(p, status)
  PROVE  Inv'
<1>. DEFINE turn == [job |-> h[p].job, thread |-> h[p].thread, status |-> status]
            u == Len(turns) + 1
            l == [[h[p] EXCEPT !.pc = "commit"] EXCEPT !.turn = u]
<1>1. /\ h[p] \in Locals /\ h[p].job \in Jobs /\ h[p].thread \in Nat
      /\ RowSound(h[p].job, h[p].snap, threads, turns)
      /\ ThreadIn(h[p].thread, AgentOf[h[p].job], threads)
  BY HandlerType DEF StartTurn, At, JobFree, LocalSound, HasSnap, OnThread
<1>2. u \in Nat
  BY TablesType
<1>3. turn \in Turns
  BY <1>1, BoundsAssumption DEF Turns
<1>4. turns' = Append(turns, turn) /\ h' = [h EXCEPT ![p] = l]
  BY DEF StartTurn
<1>5. turns' \in Seq(Turns) /\ Extends(turns, turns')
      /\ Len(turns') = u /\ turns'[u] = turn
  BY <1>3, <1>4, TablesType, AppendExtends
<1>6. TurnIn(u, h[p].job, h[p].thread, turns')
  BY <1>2, <1>5, TablesType DEF TurnIn
<1>7. [h[p] EXCEPT !.pc = "commit"] \in Locals
  BY <1>1, FieldTypes DEF Places, Executing
<1>8. l \in Locals
  BY <1>2, <1>7, FieldTypes
<1>9. /\ l.pc = "commit" /\ l.job = h[p].job /\ l.snap = h[p].snap
      /\ l.thread = h[p].thread /\ l.turn = u
  BY <1>1 DEF Locals
<1>10. RowSound(h[p].job, h[p].snap, threads, turns')
  BY <1>1, <1>5, TablesType, RowSoundGrows
<1>. HIDE DEF l, u, turn
<1>11. LocalSound(l, threads, turns', approvals)
  BY <1>1, <1>6, <1>9, <1>10 DEF LocalSound, JobFree
<1>12. /\ jobs' = jobs /\ paused' = paused /\ edges' = edges
       /\ approvals' = approvals /\ threads' = threads /\ mapping' = mapping
       /\ online' = online /\ serving' = serving /\ crashes' = crashes
  BY DEF StartTurn, session, process
<1>13. /\ jobs' \in [Jobs -> Rows] /\ paused' \in BOOLEAN
       /\ edges' \in [Agents -> Nat] /\ approvals' \in Seq(Approvals)
       /\ threads' \in Seq(Agents) /\ online' \in [Agents -> BOOLEAN]
       /\ mapping' \in [Agents -> Nat] /\ serving' \in BOOLEAN
       /\ crashes' \in Nat /\ Len(approvals) <= Len(approvals')
       /\ Extends(threads, threads')
  BY <1>12, TablesType
<1>14. /\ LocalSound(l, threads', turns', approvals')
       /\ \A j \in Jobs : jobs'[j] = jobs[j]
       /\ \A a \in Agents : mapping'[a] = mapping[a]
  BY <1>11, <1>12
<1>. QED BY <1>4, <1>5, <1>8, <1>13, <1>14, StepKeeps

\* The row written after a turn links the turn to the thread it ran on.
LEMMA CommitTurnKeeps ==
  ASSUME Inv, NEW p \in Procs, CommitTurn(p)
  PROVE  Inv'
<1>. DEFINE u == h[p].turn
            row == TurnRow(p)
            r1 == [h[p].snap EXCEPT !.status = turns[u].status]
            r2 == [r1 EXCEPT !.marker = "other"]
            r3 == [r2 EXCEPT !.thread = h[p].thread]
            r4 == [r3 EXCEPT !.turn = u]
<1>1. /\ h[p].job \in Jobs /\ h[p].snap \in Rows
      /\ h[p].thread \in Nat /\ u \in Nat
      /\ ThreadIn(h[p].thread, AgentOf[h[p].job], threads)
      /\ TurnIn(u, h[p].job, h[p].thread, turns)
  BY HandlerType
  DEF CommitTurn, At, JobFree, LocalSound, HasSnap, OnThread, AfterTurn
<1>2. turns[u] \in Turns
  BY <1>1, TablesType DEF TurnIn
<1>3. turns[u].status \in JobStatuses
  BY <1>2 DEF Turns, JobStatuses
<1>4. r1 \in Rows
  BY <1>1, <1>3 DEF Rows
<1>5. r2 \in Rows
  BY <1>4 DEF Rows, Markers
<1>6. r3 \in Rows
  BY <1>1, <1>5 DEF Rows
<1>7. r4 \in Rows
  BY <1>1, <1>6 DEF Rows
<1>8. row = r4
  BY DEF TurnRow
<1>9. row.status = turns[u].status /\ row.thread = h[p].thread /\ row.turn = u
  BY <1>1 DEF TurnRow, Rows
<1>10. row \in Rows
  BY <1>7, <1>8
<1>. HIDE DEF row, r1, r2, r3, r4
<1>11. RowSound(h[p].job, row, threads, turns)
  BY <1>1, <1>9 DEF RowSound, TurnIn
<1>12. PICK pc \in {"approval", "publish"} : Goto(p, pc)
  BY DEF CommitTurn
<1>13. GoesOn(h[p].pc, pc)
  BY DEF CommitTurn, At, GoesOn, Places, Executing, JobFree, OnThread,
         AfterTurn, HasSnap
<1>14. /\ [h[p] EXCEPT !.pc = pc] \in Locals
       /\ LocalSound([h[p] EXCEPT !.pc = pc], threads, turns, approvals)
  BY <1>13, GotoSound
<1>15. /\ Write(p, row)
       /\ UNCHANGED <<paused, edges, approvals, threads, turns, mapping, online,
                      serving, crashes>>
  BY DEF CommitTurn, row, session, codex, process
<1>. QED BY <1>1, <1>10, <1>11, <1>12, <1>14, <1>15, WriteKeeps DEF Goto

\* The steps that write a table nothing sound depends on
LEMMA OtherTablesKeep ==
  ASSUME Inv, NEW p \in Procs,
         Return(p) \/ \E pc : GoesOn(h[p].pc, pc) /\ Goto(p, pc),
         paused' \in BOOLEAN, edges' \in [Agents -> Nat],
         approvals' \in Seq(Approvals), Len(approvals) <= Len(approvals'),
         UNCHANGED <<jobs, threads, turns, mapping, online, serving, crashes>>
  PROVE  Inv'
<1>1. PICK l \in Locals : /\ h' = [h EXCEPT ![p] = l]
                          /\ LocalSound(l, threads, turns, approvals)
  <2>1. CASE Return(p)
    BY <2>1, HandlerType, ReturnSound DEF Return
  <2>2. CASE \E pc : GoesOn(h[p].pc, pc) /\ Goto(p, pc)
    <3>1. PICK pc : GoesOn(h[p].pc, pc) /\ Goto(p, pc)
      BY <2>2
    <3>2. /\ [h[p] EXCEPT !.pc = pc] \in Locals
          /\ LocalSound([h[p] EXCEPT !.pc = pc], threads, turns, approvals)
      BY <3>1, GotoSound
    <3>. QED BY <3>1, <3>2 DEF Goto
  <2>. QED BY <2>1, <2>2
<1>2. LocalSound(l, threads, turns, approvals')
  BY <1>1, TablesType, LocalSoundGrows
<1>3. /\ jobs' \in [Jobs -> Rows] /\ threads' \in Seq(Agents)
      /\ turns' \in Seq(Turns) /\ online' \in [Agents -> BOOLEAN]
      /\ mapping' \in [Agents -> Nat] /\ serving' \in BOOLEAN
      /\ crashes' \in Nat
      /\ Extends(threads, threads') /\ Extends(turns, turns')
  BY TablesType
<1>4. /\ LocalSound(l, threads', turns', approvals')
      /\ \A j \in Jobs : jobs'[j] = jobs[j]
      /\ \A a \in Agents : mapping'[a] = mapping[a]
  BY <1>2
<1>. QED BY <1>1, <1>3, <1>4, StepKeeps

LEMMA ExecuteKeeps ==
  ASSUME Inv, NEW p \in Procs, ExecuteStep(p)
  PROVE  Inv'
<1>. USE DEF session, codex, process, Tables, At
<1>1. CASE ExecuteRead(p)
  BY <1>1, ReadKeeps DEF ExecuteRead, HasSnap, OnThread, AfterTurn, JobFree
<1>2. CASE PauseJob(p)
  <2>1. GoesOn(h[p].pc, "pauseSession") /\ h[p].pc \in HasSnap
    BY <1>2 DEF PauseJob, GoesOn, Places, Executing, JobFree, OnThread,
                AfterTurn, HasSnap
  <2>. QED BY <1>2, <2>1, MarkKeeps DEF PauseJob, JobStatuses, Markers
<1>3. CASE PauseSession(p)
  BY <1>3, TablesType, OtherTablesKeep DEF PauseSession
<1>4. CASE RequestApproval(p)
  <2>. DEFINE new == [job |-> h[p].job, turn |-> h[p].turn, status |-> "pending"]
  <2>1. new \in Approvals
    BY <1>4, HandlerType DEF RequestApproval, JobFree, Approvals
  <2>2. approvals' = Append(approvals, new)
    BY <1>4 DEF RequestApproval
  <2>3. approvals' \in Seq(Approvals) /\ Len(approvals) <= Len(approvals')
    BY <2>1, <2>2, TablesType, AppendExtends DEF Extends
  <2>4. GoesOn(h[p].pc, "publish")
    BY <1>4 DEF RequestApproval, GoesOn, Places, Executing, JobFree, OnThread,
                AfterTurn, HasSnap
  <2>. QED BY <1>4, <2>3, <2>4, TablesType, OtherTablesKeep
           DEF RequestApproval
<1>5. CASE Publish(p)
  <2>1. GoesOn(h[p].pc, "edge") /\ h[p].saw \in BOOLEAN
    BY <1>5, HandlerType DEF Publish, GoesOn, Places, Executing, JobFree,
                             OnThread, AfterTurn, HasSnap
  <2>2. /\ paused' \in BOOLEAN /\ edges' \in [Agents -> Nat]
        /\ approvals' \in Seq(Approvals) /\ Len(approvals) <= Len(approvals')
        /\ UNCHANGED <<jobs, threads, turns, mapping, online, serving, crashes>>
    BY <1>5, <2>1, TablesType DEF Publish
  <2>. QED BY <1>5, <2>1, <2>2, OtherTablesKeep DEF Publish
<1>6. CASE RecordEdge(p)
  <2>1. AgentOf[h[p].job] \in Agents
    BY <1>6, HandlerType DEF RecordEdge, JobFree
  <2>2. edges' \in [Agents -> Nat]
    BY <1>6, <2>1, TablesType DEF RecordEdge
  <2>3. /\ paused' \in BOOLEAN
        /\ approvals' \in Seq(Approvals) /\ Len(approvals) <= Len(approvals')
        /\ UNCHANGED <<jobs, threads, turns, mapping, online, serving, crashes>>
    BY <1>6, TablesType DEF RecordEdge
  <2>. QED BY <1>6, <2>2, <2>3, OtherTablesKeep DEF RecordEdge
<1>. QED BY <1>1, <1>2, <1>3, <1>4, <1>5, <1>6, EvaluateKeeps,
            LookupThreadKeeps, ResumeThreadKeeps, StartThreadKeeps,
            StartTurnKeeps, CommitTurnKeeps DEF ExecuteStep

----------------------------------------------------------------------------
(* Retries, cancellations, input and approval decisions *)

LEMMA RereadKeeps ==
  ASSUME Inv, NEW p \in Procs, Reread(p)
  PROVE  Inv'
<1>. USE DEF session, codex, process, Tables, At
<1>1. h[p].pc = "reread"
  BY DEF Reread
<1>2. CASE Return(p)
  BY <1>2, ReturnKeeps DEF Reread
<1>3. CASE Goto(p, "cancel")
  <2>1. GoesOn(h[p].pc, "cancel")
    BY <1>1 DEF GoesOn, Places, JobFree, OnThread, AfterTurn, HasSnap
  <2>. QED BY <1>3, <2>1, GotoKeeps DEF Reread
<1>4. CASE h' = [h EXCEPT ![p].pc = "signal", ![p].snap = jobs[h[p].job]]
  BY <1>1, <1>4, ReadKeeps DEF Reread, HasSnap, OnThread, AfterTurn, JobFree
<1>. QED BY <1>2, <1>3, <1>4 DEF Reread

\* The decision of an approval, and the job that /input schedules after it
LEMMA WriteDecidedKeeps ==
  ASSUME Inv, NEW p \in Procs, WriteDecided(p)
  PROVE  Inv'
<1>. DEFINE s == DecidedStatus(h[p].snap.status, h[p].accept)
<1>1. h[p].pc = "decided" /\ h[p].pc \in HasSnap
  BY DEF WriteDecided, At, HasSnap
<1>2. s \in JobStatuses /\ s # "completed" /\ "other" \in Markers
  BY DEF DecidedStatus, JobStatuses, TurnStatuses, Markers
<1>3. /\ Write(p, Mark(h[p].snap, s, "other"))
      /\ UNCHANGED <<paused, edges, approvals, threads, turns, mapping, online,
                     serving, crashes>>
  BY DEF WriteDecided, session, codex, process
<1>. HIDE DEF s
<1>4. CASE Return(p)
  BY <1>1, <1>2, <1>3, <1>4, MarkKeeps
<1>5. CASE h[p].route # None
  <2>. DEFINE j == h[p].route
              l1 == [Idle EXCEPT !.pc = "schedule"]
              l2 == [l1 EXCEPT !.op = "answer"]
              l == [l2 EXCEPT !.job = j]
  <2>1. j \in Jobs
    BY <1>5, HandlerType DEF Locals
  <2>2. h' = [h EXCEPT ![p] = l]
    BY <1>5 DEF WriteDecided
  <2>3. l1 \in Locals
    BY IdleType, FieldTypes DEF Places
  <2>4. l2 \in Locals
    BY <2>3, FieldTypes DEF AllOps
  <2>5. l \in Locals /\ l.pc = "schedule" /\ l.job = j
    <3>1. l \in Locals
      BY <2>1, <2>4, FieldTypes
    <3>2. l.pc = "schedule" /\ l.job = j
      BY DEF Idle
    <3>. QED BY <3>1, <3>2
  <2>. HIDE DEF l
  <2>6. LocalSound(l, threads, turns, approvals)
    BY <2>1, <2>5 DEF LocalSound, OnThread, AfterTurn, HasSnap
  <2>7. /\ h[p].job \in Jobs /\ Mark(h[p].snap, s, "other") \in Rows
        /\ RowSound(h[p].job, Mark(h[p].snap, s, "other"), threads, turns)
    BY <1>1, <1>2, MarkSound
  <2>. QED BY <1>3, <2>2, <2>5, <2>6, <2>7, WriteKeeps
<1>. QED BY <1>4, <1>5 DEF WriteDecided

LEMMA ControlKeeps ==
  ASSUME Inv, NEW p \in Procs, ControlStep(p)
  PROVE  Inv'
<1>. USE DEF session, codex, process, Tables, At
<1>1. CASE Requeue(p)
  <2>1. GoesOn(h[p].pc, "schedule") /\ h[p].pc \in HasSnap
    BY <1>1 DEF Requeue, GoesOn, Places, JobFree, OnThread, AfterTurn, HasSnap
  <2>2. PICK m \in {"retry_requested", "resumed"} :
          Write(p, Mark(h[p].snap, "queued", m))
    BY <1>1 DEF Requeue
  <2>. QED BY <1>1, <2>1, <2>2, MarkKeeps DEF Requeue, JobStatuses, Markers
<1>2. CASE Signal(p)
  <2>1. CASE Return(p)
    BY <1>2, <2>1, ReturnKeeps DEF Signal
  <2>2. CASE \E pc \in {"compacted", "interrupted"} : Goto(p, pc)
    <3>1. PICK pc \in {"compacted", "interrupted"} : Goto(p, pc)
      BY <2>2
    <3>2. GoesOn(h[p].pc, pc)
      BY <1>2 DEF Signal, GoesOn, Places, JobFree, OnThread, AfterTurn, HasSnap
    <3>. QED BY <1>2, <3>1, <3>2, GotoKeeps DEF Signal
  <2>. QED BY <1>2, <2>1, <2>2 DEF Signal
<1>3. CASE WriteInterrupted(p)
  BY <1>3, MarkKeeps DEF WriteInterrupted, HasSnap, JobStatuses, Markers
<1>4. CASE WriteCompacted(p)
  <2>1. h[p].snap.status \in JobStatuses
    BY HandlerType DEF Rows
  <2>. QED BY <1>4, <2>1, MarkKeeps DEF WriteCompacted, HasSnap, Markers
<1>5. CASE CancelDirectly(p)
  BY <1>5, MarkKeeps DEF CancelDirectly, HasSnap, JobStatuses, Markers
<1>6. CASE TakeInput(p)
  <2>. DEFINE v == IF h[p].snap.status \in Asked THEN "queued"
                                                ELSE h[p].snap.status
  <2>1. /\ v \in JobStatuses /\ (v = "completed" => h[p].snap.status = v)
        /\ Write(p, Mark(h[p].snap, v, "other"))
    <3>1. h[p].snap.status \in JobStatuses
      BY HandlerType DEF Rows
    <3>2. v \in JobStatuses /\ (v = "completed" => h[p].snap.status = v)
      BY <3>1 DEF JobStatuses
    <3>. QED BY <1>6, <3>2 DEF TakeInput
  <2>. HIDE DEF v
  <2>2. GoesOn(h[p].pc, "schedule") /\ h[p].pc \in HasSnap
    BY <1>6 DEF TakeInput, GoesOn, Places, JobFree, OnThread, AfterTurn, HasSnap
  <2>3. Return(p) \/ Goto(p, "schedule")
    BY <1>6 DEF TakeInput
  <2>. QED BY <1>6, <2>1, <2>2, <2>3, MarkKeeps DEF TakeInput, Markers
<1>7. CASE ResolveApproval(p)
  <2>. DEFINE i == h[p].approval
              v == IF h[p].accept THEN "accepted" ELSE "declined"
  <2>1. i \in 1..Len(approvals)
    BY <1>7, HandlerType DEF ResolveApproval, LocalSound
  <2>2. [approvals[i] EXCEPT !.status = v] \in Approvals
    <3>1. approvals[i] \in Approvals
      BY <2>1, TablesType
    <3>2. v \in {"accepted", "declined"}
      OBVIOUS
    <3>. HIDE DEF i, v
    <3>. QED BY <3>1, <3>2 DEF Approvals
  <2>3. approvals' = [approvals EXCEPT ![i] = [approvals[i] EXCEPT !.status = v]]
    BY <1>7 DEF ResolveApproval
  <2>. HIDE DEF i, v
  <2>4. approvals' \in Seq(Approvals) /\ Len(approvals') = Len(approvals)
    BY <2>1, <2>2, <2>3, TablesType
  <2>5. GoesOn(h[p].pc, "readDecided")
    BY <1>7 DEF ResolveApproval, GoesOn, Places, JobFree, OnThread, AfterTurn,
                HasSnap
  <2>6. /\ paused' \in BOOLEAN /\ edges' \in [Agents -> Nat]
        /\ Len(approvals) <= Len(approvals')
        /\ UNCHANGED <<jobs, threads, turns, mapping, online, serving, crashes>>
    BY <1>7, <2>4, TablesType DEF ResolveApproval
  <2>. QED BY <1>7, <2>4, <2>5, <2>6, OtherTablesKeep DEF ResolveApproval
<1>8. CASE ReadDecided(p)
  BY <1>8, ReadKeeps DEF ReadDecided, HasSnap, OnThread, AfterTurn, JobFree
<1>. QED BY <1>1, <1>2, <1>3, <1>4, <1>5, <1>6, <1>7, <1>8, RereadKeeps,
            WriteDecidedKeeps DEF ControlStep

----------------------------------------------------------------------------
(* Sweeps, heartbeats and the start of a request *)

\* A handler that works on no job, or only lists them
LEMMA JobFreeKeeps ==
  ASSUME Inv, NEW p \in Procs, NEW l \in Locals, l.pc \in JobFree \ {"rehydrate"},
         h' = [h EXCEPT ![p] = l],
         online' \in [Agents -> BOOLEAN], serving' \in BOOLEAN,
         UNCHANGED <<jobs, paused, edges, approvals, threads, turns, mapping,
                     crashes>>
  PROVE  Inv'
<1>1. LocalSound(l, threads, turns, approvals)
  BY DEF LocalSound, JobFree, OnThread, AfterTurn, HasSnap
<1>2. /\ jobs' \in [Jobs -> Rows] /\ paused' \in BOOLEAN
      /\ edges' \in [Agents -> Nat] /\ approvals' \in Seq(Approvals)
      /\ threads' \in Seq(Agents) /\ turns' \in Seq(Turns)
      /\ mapping' \in [Agents -> Nat] /\ crashes' \in Nat
      /\ Len(approvals) <= Len(approvals')
      /\ Extends(threads, threads') /\ Extends(turns, turns')
  BY TablesType
<1>3. /\ LocalSound(l, threads', turns', approvals')
      /\ \A j \in Jobs : jobs'[j] = jobs[j]
      /\ \A a \in Agents : mapping'[a] = mapping[a]
  BY <1>1
<1>. QED BY <1>2, <1>3, StepKeeps

\* The mappings a sweep will restore are those of sound rows.
LEMMA ListMappedKeeps ==
  ASSUME Inv, NEW p \in Procs, ListMapped(p)
  PROVE  Inv'
<1>. DEFINE ms == {<<AgentOf[j], jobs[j].thread>> : j \in
                   {k \in Jobs : /\ jobs[k].thread # 0
                                 /\ jobs[k].status \notin NotRehydrated}}
            l == [[h[p] EXCEPT !.pc = "rehydrate"] EXCEPT !.found = ms]
<1>1. \A j \in Jobs : AgentOf[j] \in Agents /\ jobs[j].thread \in Nat
  BY AgentsAssumption, TablesType DEF Rows
<1>2. ms \in SUBSET (Agents \X Nat)
  BY <1>1
<1>3. \A m \in ms : ThreadIn(m[2], m[1], threads)
  BY DEF Inv, RowSound
<1>4. h' = [h EXCEPT ![p] = l]
  BY DEF ListMapped
<1>. HIDE DEF ms
<1>5. h[p] \in Locals
  BY HandlerType
<1>6. [h[p] EXCEPT !.pc = "rehydrate"] \in Locals
  BY <1>5, FieldTypes DEF Places
<1>7. l \in Locals
  BY <1>2, <1>6, FieldTypes
<1>8. l.pc = "rehydrate" /\ l.found = ms
  BY <1>5 DEF Locals
<1>. HIDE DEF l
<1>9. LocalSound(l, threads, turns, approvals)
  BY <1>3, <1>8 DEF LocalSound, JobFree, OnThread, AfterTurn, HasSnap
<1>. QED BY <1>4, <1>7, <1>9, LocalKeeps
         DEF ListMapped, session, codex, process, Tables

LEMMA RehydrateKeeps ==
  ASSUME Inv, NEW p \in Procs, Rehydrate(p)
  PROVE  Inv'
<1>1. PICK m \in h[p].found : /\ mapping' = [mapping EXCEPT ![m[1]] = m[2]]
                              /\ h' = [h EXCEPT ![p].found = @ \ {m}]
  BY DEF Rehydrate
<1>. DEFINE rest == h[p].found \ {m}
            l == [h[p] EXCEPT !.found = rest]
<1>2. /\ h[p] \in Locals /\ h[p].pc = "rehydrate"
      /\ \A n \in h[p].found : ThreadIn(n[2], n[1], threads)
  BY HandlerType DEF Rehydrate, At, LocalSound
<1>3. h[p].found \in SUBSET (Agents \X Nat)
  BY <1>2 DEF Locals
<1>4. m[1] \in Agents /\ m[2] \in Nat /\ ThreadIn(m[2], m[1], threads)
  BY <1>1, <1>2, <1>3
<1>5. /\ mapping' \in [Agents -> Nat]
      /\ \A a \in Agents : \/ mapping'[a] = mapping[a]
                          \/ ThreadIn(mapping'[a], a, threads)
  BY <1>1, <1>4, TablesType
<1>6. rest \in SUBSET (Agents \X Nat) /\ h' = [h EXCEPT ![p] = l]
  BY <1>1, <1>3
<1>7. l \in Locals
  BY <1>2, <1>6, FieldTypes
<1>8. l.pc = "rehydrate" /\ l.found = rest
  BY <1>2 DEF Locals
<1>9. \A n \in rest : ThreadIn(n[2], n[1], threads)
  BY <1>2
<1>. HIDE DEF l, rest
<1>10. LocalSound(l, threads, turns, approvals)
  BY <1>8, <1>9 DEF LocalSound, JobFree, OnThread, AfterTurn, HasSnap
<1>11. /\ jobs' = jobs /\ paused' = paused /\ edges' = edges
       /\ approvals' = approvals /\ threads' = threads /\ turns' = turns
       /\ online' = online /\ serving' = serving /\ crashes' = crashes
  BY DEF Rehydrate, session, codex
<1>12. /\ jobs' \in [Jobs -> Rows] /\ paused' \in BOOLEAN
       /\ edges' \in [Agents -> Nat] /\ approvals' \in Seq(Approvals)
       /\ threads' \in Seq(Agents) /\ turns' \in Seq(Turns)
       /\ online' \in [Agents -> BOOLEAN] /\ serving' \in BOOLEAN
       /\ crashes' \in Nat /\ Len(approvals) <= Len(approvals')
       /\ Extends(threads, threads') /\ Extends(turns, turns')
  BY <1>11, TablesType
<1>13. /\ LocalSound(l, threads', turns', approvals')
       /\ \A a \in Agents : \/ mapping'[a] = mapping[a]
                           \/ ThreadIn(mapping'[a], a, threads')
       /\ \A j \in Jobs : jobs'[j] = jobs[j]
  BY <1>5, <1>10, <1>11
<1>. QED BY <1>5, <1>6, <1>7, <1>12, <1>13, StepKeeps

\* A sweep lists agents, lists jobs, and takes one of them up.
LEMMA ListAgentsKeeps ==
  ASSUME Inv, NEW p \in Procs, ListAgents(p)
  PROVE  Inv'
<1>. DEFINE as == {a \in h[p].agents : online[a]}
            l == [[h[p] EXCEPT !.pc = "listJobs"] EXCEPT !.agents = as]
<1>1. h[p] \in Locals
  BY HandlerType
<1>2. as \in SUBSET Agents
  BY <1>1 DEF Locals
<1>3. h' = [h EXCEPT ![p] = l]
  BY DEF ListAgents
<1>. HIDE DEF as
<1>4. [h[p] EXCEPT !.pc = "listJobs"] \in Locals
  BY <1>1, FieldTypes DEF Places
<1>5. l \in Locals
  BY <1>2, <1>4, FieldTypes
<1>6. l.pc \in JobFree \ {"rehydrate"}
  BY <1>1 DEF Locals, JobFree
<1>. HIDE DEF l
<1>. QED BY <1>3, <1>5, <1>6, TablesType, JobFreeKeeps
         DEF ListAgents, session, codex, process

LEMMA ListQueuedKeeps ==
  ASSUME Inv, NEW p \in Procs, ListQueued(p)
  PROVE  Inv'
<1>. DEFINE js == {j \in Jobs : /\ jobs[j].status = "queued"
                                /\ AgentOf[j] \in h[p].agents}
            l1 == [h[p] EXCEPT !.pc = "next"]
            l2 == [l1 EXCEPT !.agents = {}]
            l == [l2 EXCEPT !.todo = js]
<1>1. h[p] \in Locals
  BY HandlerType
<1>2. js \in SUBSET Jobs
  OBVIOUS
<1>3. h' = [h EXCEPT ![p] = l]
  BY DEF ListQueued
<1>. HIDE DEF js
<1>4. l1 \in Locals
  BY <1>1, FieldTypes DEF Places
<1>5. l2 \in Locals
  BY <1>4, FieldTypes
<1>6. l \in Locals
  BY <1>2, <1>5, FieldTypes
<1>7. l.pc \in JobFree \ {"rehydrate"}
  BY <1>1 DEF Locals, JobFree
<1>. HIDE DEF l
<1>. QED BY <1>3, <1>6, <1>7, TablesType, JobFreeKeeps
         DEF ListQueued, session, codex, process

LEMMA TakeNextKeeps ==
  ASSUME Inv, NEW p \in Procs, TakeNext(p)
  PROVE  Inv'
<1>1. PICK j \in h[p].todo :
        h' = [h EXCEPT ![p].pc = "execute", ![p].job = j, ![p].todo = @ \ {j}]
  BY DEF TakeNext
<1>. DEFINE rest == h[p].todo \ {j}
            l1 == [h[p] EXCEPT !.pc = "execute"]
            l2 == [l1 EXCEPT !.job = j]
            l == [l2 EXCEPT !.todo = rest]
<1>2. h[p] \in Locals
  BY HandlerType
<1>3. h[p].todo \in SUBSET Jobs
  BY <1>2 DEF Locals
<1>4. j \in Jobs /\ rest \in SUBSET Jobs
  BY <1>3
<1>5. h' = [h EXCEPT ![p] = l]
  BY <1>1, <1>2 DEF Locals
<1>. HIDE DEF rest
<1>6. l1 \in Locals
  BY <1>2, FieldTypes DEF Places, Executing
<1>7. l2 \in Locals
  BY <1>4, <1>6, FieldTypes
<1>8. l \in Locals
  BY <1>4, <1>7, FieldTypes
<1>9. l.pc = "execute" /\ l.job = j
  BY <1>2 DEF Locals
<1>. HIDE DEF l
<1>10. LocalSound(l, threads, turns, approvals)
  BY <1>4, <1>9 DEF LocalSound, OnThread, AfterTurn, HasSnap
<1>. QED BY <1>5, <1>8, <1>10, LocalKeeps
         DEF TakeNext, session, codex, process, Tables

LEMMA SweepKeeps ==
  ASSUME Inv, NEW p \in Procs, SweepStep(p)
  PROVE  Inv'
<1>. USE DEF session, codex, process, Tables, At
<1>1. CASE EndRehydrate(p)
  <2>1. PICK pc \in {"listAgents", "next"} : Goto(p, pc)
    BY <1>1 DEF EndRehydrate
  <2>2. GoesOn(h[p].pc, pc)
    BY DEF GoesOn, Places, JobFree, OnThread, AfterTurn, HasSnap
  <2>. QED BY <1>1, <2>1, <2>2, GotoKeeps DEF EndRehydrate
<1>2. CASE EndSweep(p)
  <2>1. Idle.pc \in JobFree \ {"rehydrate"}
    BY DEF Idle, JobFree
  <2>2. h' = [h EXCEPT ![p] = Idle] /\ serving' = TRUE
    BY <1>2 DEF EndSweep
  <2>3. /\ online' \in [Agents -> BOOLEAN] /\ serving' \in BOOLEAN
        /\ UNCHANGED <<jobs, paused, edges, approvals, threads, turns, mapping,
                       crashes>>
    BY <1>2, TablesType DEF EndSweep
  <2>. QED BY <2>1, <2>2, <2>3, IdleType, JobFreeKeeps
<1>. QED BY <1>1, <1>2, ListMappedKeeps, RehydrateKeeps, ListAgentsKeeps,
            ListQueuedKeeps, TakeNextKeeps DEF SweepStep

----------------------------------------------------------------------------
(* Requests begin, runtimes come and go, and the process crashes *)

Started == {"schedule", "requeue", "signal", "reread", "cancel", "input"}

LEMMA BeginSound ==
  ASSUME Inv, NEW p \in Procs, NEW op, NEW j \in Jobs, NEW pc \in Started,
         Begin(p, op, j, pc)
  PROVE  \E l \in Locals : /\ h' = [h EXCEPT ![p] = l]
                           /\ LocalSound(l, threads, turns, approvals)
<1>. DEFINE l1 == [Idle EXCEPT !.pc = pc]
            l2 == [l1 EXCEPT !.op = op]
            l3 == [l2 EXCEPT !.job = j]
            l == [l3 EXCEPT !.snap = jobs[j]]
<1>1. /\ jobs[j] \in Rows /\ RowSound(j, jobs[j], threads, turns)
      /\ op \in AllOps
  BY TablesType, BoundsAssumption DEF Inv, Begin
<1>2. h' = [h EXCEPT ![p] = l]
  BY DEF Begin
<1>3. l1 \in Locals
  BY IdleType, FieldTypes DEF Places, Started
<1>4. l2 \in Locals
  BY <1>1, <1>3, FieldTypes
<1>5. l3 \in Locals
  BY <1>4, FieldTypes
<1>6. l \in Locals
  BY <1>1, <1>5, FieldTypes
<1>7. l.pc = pc /\ l.job = j /\ l.snap = jobs[j]
  BY DEF Idle
<1>. HIDE DEF l
<1>8. LocalSound(l, threads, turns, approvals)
  BY <1>1, <1>7 DEF LocalSound, OnThread, AfterTurn, HasSnap, Started
<1>. QED BY <1>2, <1>6, <1>8

LEMMA CreateJobKeeps ==
  ASSUME Inv, NEW p \in Procs, NEW j \in Jobs, CreateJob(p, j)
  PROVE  Inv'
<1>. DEFINE row == Mark(NoRow, "queued", "none")
<1>1. PICK l \in Locals : /\ h' = [h EXCEPT ![p] = l]
                          /\ LocalSound(l, threads, turns, approvals)
  BY BeginSound DEF CreateJob, Started
<1>2. /\ row \in Rows /\ row.status = "queued"
      /\ row.thread = NoRow.thread /\ row.turn = NoRow.turn
  BY IdleType, MarkType DEF JobStatuses, Markers
<1>3. jobs' = [jobs EXCEPT ![j] = row]
  BY DEF CreateJob
<1>. HIDE DEF row
<1>4. RowSound(j, row, threads, turns)
  BY <1>2 DEF RowSound, NoRow
<1>5. /\ jobs' \in [Jobs -> Rows]
      /\ \A k \in Jobs : \/ jobs'[k] = jobs[k]
                        \/ RowSound(k, jobs'[k], threads, turns)
  BY <1>2, <1>3, <1>4, TablesType
<1>6. /\ paused' = paused /\ edges' = edges /\ approvals' = approvals
      /\ threads' = threads /\ turns' = turns /\ mapping' = mapping
      /\ online' = online /\ serving' = serving /\ crashes' = crashes
  BY DEF CreateJob, session, codex, process
<1>7. /\ paused' \in BOOLEAN /\ edges' \in [Agents -> Nat]
      /\ approvals' \in Seq(Approvals) /\ threads' \in Seq(Agents)
      /\ turns' \in Seq(Turns) /\ mapping' \in [Agents -> Nat]
      /\ online' \in [Agents -> BOOLEAN] /\ serving' \in BOOLEAN
      /\ crashes' \in Nat /\ Len(approvals) <= Len(approvals')
      /\ Extends(threads, threads') /\ Extends(turns, turns')
  BY <1>6, TablesType
<1>8. /\ LocalSound(l, threads', turns', approvals')
      /\ \A k \in Jobs : \/ jobs'[k] = jobs[k]
                        \/ RowSound(k, jobs'[k], threads', turns')
      /\ \A a \in Agents : mapping'[a] = mapping[a]
  BY <1>1, <1>5, <1>6
<1>. QED BY <1>1, <1>5, <1>7, <1>8, StepKeeps

LEMMA StartDecisionKeeps ==
  ASSUME Inv, NEW p \in Procs, NEW op, NEW i \in 1..Len(approvals),
         NEW accept \in BOOLEAN, NEW route \in Jobs \union {None},
         StartDecision(p, op, i, accept, route)
  PROVE  Inv'
<1>. DEFINE l1 == [Idle EXCEPT !.pc = "resolve"]
            l2 == [l1 EXCEPT !.op = op]
            l3 == [l2 EXCEPT !.job = approvals[i].job]
            l4 == [l3 EXCEPT !.approval = i]
            l5 == [l4 EXCEPT !.accept = accept]
            l == [l5 EXCEPT !.route = route]
<1>1. approvals[i].job \in Jobs /\ i \in Nat
  <2>1. approvals[i] \in Approvals
    BY TablesType
  <2>. QED BY <2>1 DEF Approvals
<1>2. op \in AllOps
  BY BoundsAssumption DEF StartDecision
<1>3. h' = [h EXCEPT ![p] = l]
  BY DEF StartDecision
<1>4. l1 \in Locals
  BY IdleType, FieldTypes DEF Places
<1>5. l2 \in Locals
  BY <1>2, <1>4, FieldTypes
<1>6. l3 \in Locals
  BY <1>1, <1>5, FieldTypes
<1>7. l4 \in Locals
  BY <1>1, <1>6, FieldTypes
<1>8. l5 \in Locals
  BY <1>7, FieldTypes
<1>9. l \in Locals
  BY <1>8, FieldTypes
<1>10. l.pc = "resolve" /\ l.job = approvals[i].job /\ l.approval = i
  BY DEF Idle
<1>. HIDE DEF l
<1>11. LocalSound(l, threads, turns, approvals)
  BY <1>1, <1>10 DEF LocalSound, OnThread, AfterTurn, HasSnap
<1>. QED BY <1>3, <1>9, <1>11, LocalKeeps
         DEF StartDecision, session, codex, process, Tables

LEMMA HeartbeatKeeps ==
  ASSUME Inv, NEW p \in Procs, NEW a \in Agents, Heartbeat(p, a)
  PROVE  Inv'
<1>. DEFINE l1 == [Idle EXCEPT !.pc = "listAgents"]
            l2 == [l1 EXCEPT !.op = "heartbeat"]
            l == [l2 EXCEPT !.agents = {a}]
<1>1. h' = [h EXCEPT ![p] = l]
  BY DEF Heartbeat
<1>2. l1 \in Locals
  BY IdleType, FieldTypes DEF Places
<1>3. l2 \in Locals
  BY <1>2, FieldTypes DEF AllOps
<1>4. l \in Locals
  BY <1>3, FieldTypes
<1>5. l.pc = "listAgents"
  BY DEF Idle
<1>. HIDE DEF l
<1>6. online' \in [Agents -> BOOLEAN] /\ serving' \in BOOLEAN
  BY TablesType DEF Heartbeat, process
<1>. QED BY <1>1, <1>4, <1>5, <1>6, JobFreeKeeps
         DEF Heartbeat, JobFree, session, codex, process

LEMMA RequestKeeps ==
  ASSUME Inv, NEW p \in Procs, Request(p)
  PROVE  Inv'
<1>1. ASSUME NEW j \in Jobs, NEW op, NEW pc \in Started, Begin(p, op, j, pc),
             UNCHANGED Tables
      PROVE  Inv'
  <2>1. PICK l \in Locals : /\ h' = [h EXCEPT ![p] = l]
                            /\ LocalSound(l, threads, turns, approvals)
    BY <1>1, BeginSound
  <2>. QED BY <1>1, <2>1, LocalKeeps
<1>2. ASSUME NEW j \in Jobs,
             \/ Retry(p, j) \/ Resume(p, j) \/ Interrupt(p, j)
             \/ Compact(p, j) \/ OperatorCancel(p, j) \/ ProvideInput(p, j)
      PROVE  Inv'
  <2>1. UNCHANGED Tables
    BY <1>2 DEF Retry, Resume, Interrupt, Compact, OperatorCancel,
                ProvideInput, session, codex, process, Tables
  <2>2. \E op \in AllOps : \E pc \in Started : Begin(p, op, j, pc)
    BY <1>2 DEF Retry, Resume, Interrupt, Compact, OperatorCancel,
                ProvideInput, Started, AllOps
  <2>. QED BY <1>1, <2>1, <2>2
<1>3. ASSUME NEW i \in 1..Len(approvals), NEW accept \in BOOLEAN,
             DecideApproval(p, i, accept)
      PROVE  Inv'
  BY <1>3, StartDecisionKeeps DEF DecideApproval
<1>4. ASSUME NEW i \in 1..Len(approvals), NEW j \in Jobs,
             AnswerApproval(p, i, j)
      PROVE  Inv'
  BY <1>4, StartDecisionKeeps DEF AnswerApproval
<1>. QED BY <1>2, <1>3, <1>4, CreateJobKeeps, HeartbeatKeeps DEF Request

\* A runtime that goes offline, by its own word or by an old heartbeat
LEMMA OfflineKeeps ==
  ASSUME Inv, NEW a \in Agents, online' = [online EXCEPT ![a] = FALSE],
         UNCHANGED <<jobs, paused, edges, approvals, threads, turns, mapping,
                     serving, crashes, h>>
  PROVE  Inv'
<1>1. online' \in [Agents -> BOOLEAN]
  BY TablesType
<1>2. TypeOK'
  BY <1>1 DEF Inv, TypeOK
<1>. QED BY <1>2 DEF Inv

LEMMA SweepingSound ==
  ASSUME NEW ths, NEW tns, NEW aps
  PROVE  /\ Sweeping \in Locals /\ LocalSound(Sweeping, ths, tns, aps)
         /\ LocalSound(Idle, ths, tns, aps)
         /\ Sweeping.pc = "stale"
<1>1. [Idle EXCEPT !.pc = "stale"] \in Locals
  BY IdleType, FieldTypes DEF Places
<1>2. [[Idle EXCEPT !.pc = "stale"] EXCEPT !.op = "sweep"] \in Locals
  BY <1>1, FieldTypes
<1>3. [[[Idle EXCEPT !.pc = "stale"] EXCEPT !.op = "sweep"]
          EXCEPT !.agents = Agents] \in Locals
  BY <1>2, FieldTypes
<1>4. Sweeping \in Locals
  BY <1>3 DEF Sweeping
<1>5. Sweeping.pc = "stale" /\ Idle.pc = "idle"
  BY DEF Sweeping, Idle
<1>6. LocalSound(Sweeping, ths, tns, aps) /\ LocalSound(Idle, ths, tns, aps)
  BY <1>5 DEF LocalSound, JobFree, OnThread, AfterTurn, HasSnap
<1>. QED BY <1>4, <1>5, <1>6

LEMMA BeginSweepKeeps ==
  ASSUME Inv, NEW p \in Procs, BeginSweep(p)
  PROVE  Inv'
  BY SweepingSound, LocalKeeps
  DEF BeginSweep, session, codex, process, Tables

LEMMA AbortKeeps ==
  ASSUME Inv, NEW p \in Procs, Abort(p)
  PROVE  Inv'
<1>1. UNCHANGED Tables
  BY DEF Abort, session, codex, process, Tables
<1>2. CASE Return(p)
  BY <1>1, <1>2, ReturnKeeps
<1>3. CASE h' = [h EXCEPT ![p] = Idle]
  BY <1>1, <1>3, IdleType, SweepingSound, LocalKeeps
<1>. QED BY <1>2, <1>3 DEF Abort

\* A crash loses what the handlers held and the mapping, never a table.
LEMMA CrashKeeps ==
  ASSUME Inv, Crash
  PROVE  Inv'
<1>1. /\ h' = [p \in Procs |-> IF p \in Sweepers THEN Sweeping ELSE Idle]
      /\ mapping' = [a \in Agents |-> 0] /\ serving' = FALSE
      /\ crashes' = crashes + 1
      /\ UNCHANGED <<jobs, paused, edges, approvals, threads, turns, online>>
  BY DEF Crash, session, codex
<1>2. h' \in [Procs -> Locals]
  BY <1>1, IdleType, SweepingSound
<1>3. mapping' \in [Agents -> Nat] /\ crashes' \in Nat /\ serving' \in BOOLEAN
  <2>1. crashes \in Nat
    BY TablesType
  <2>2. crashes' \in Nat
    BY <1>1, <2>1
  <2>3. mapping' \in [Agents -> Nat]
    BY <1>1
  <2>. QED BY <1>1, <2>2, <2>3
<1>4. TypeOK'
  <2>1. /\ jobs' \in [Jobs -> Rows] /\ paused' \in BOOLEAN
        /\ edges' \in [Agents -> Nat] /\ approvals' \in Seq(Approvals)
        /\ threads' \in Seq(Agents) /\ turns' \in Seq(Turns)
        /\ online' \in [Agents -> BOOLEAN]
    BY <1>1, TablesType
  <2>. QED BY <1>2, <1>3, <2>1 DEF TypeOK
<1>5. \A p \in Procs : LocalSound(h'[p], threads, turns, approvals)
  BY <1>1, SweepingSound
<1>6. \A p \in Procs : LocalSound(h'[p], threads', turns', approvals')
  BY <1>1, <1>5
<1>7. \A a \in Agents : mapping'[a] # 0 => ThreadIn(mapping'[a], a, threads')
  BY <1>1
<1>8. \A j \in Jobs : RowSound(j, jobs'[j], threads', turns')
  BY <1>1 DEF Inv
<1>. QED BY <1>4, <1>6, <1>7, <1>8 DEF Inv

----------------------------------------------------------------------------
(* Theorems *)

LEMMA InvInit == Init => Inv
<1>. SUFFICES ASSUME Init PROVE Inv
  OBVIOUS
<1>1. /\ jobs = [j \in Jobs |-> NoRow] /\ paused = FALSE
      /\ edges = [a \in Agents |-> 0]
      /\ approvals = <<>> /\ threads = <<>> /\ turns = <<>>
      /\ mapping = [a \in Agents |-> 0] /\ online \in [Agents -> BOOLEAN]
      /\ serving = TRUE /\ crashes = 0 /\ h = [p \in Procs |-> Idle]
  BY DEF Init
<1>2. TypeOK
  <2>1. jobs \in [Jobs -> Rows] /\ h \in [Procs -> Locals]
    BY <1>1, IdleType
  <2>2. edges \in [Agents -> Nat] /\ mapping \in [Agents -> Nat]
    BY <1>1
  <2>3. /\ approvals \in Seq(Approvals) /\ threads \in Seq(Agents)
        /\ turns \in Seq(Turns)
    BY <1>1
  <2>. QED BY <1>1, <2>1, <2>2, <2>3 DEF TypeOK
<1>3. \A j \in Jobs : RowSound(j, jobs[j], threads, turns)
  BY <1>1 DEF RowSound, NoRow
<1>4. \A p \in Procs : LocalSound(h[p], threads, turns, approvals)
  BY <1>1, SweepingSound
<1>. QED BY <1>1, <1>2, <1>3, <1>4 DEF Inv

LEMMA InvNext == Inv /\ [Next]_vars => Inv'
<1>. SUFFICES ASSUME Inv, [Next]_vars PROVE Inv'
  OBVIOUS
<1>1. ASSUME NEW p \in Procs, Step(p) PROVE Inv'
  BY <1>1, ScheduleKeeps, ExecuteKeeps, ControlKeeps, SweepKeeps DEF Step
<1>2. ASSUME NEW p \in Procs, NEW a \in Agents, MarkStale(p, a) PROVE Inv'
  BY <1>2, OfflineKeeps DEF MarkStale, session, codex, process
<1>3. ASSUME NEW a \in Agents, GoOffline(a) PROVE Inv'
  BY <1>3, OfflineKeeps DEF GoOffline, session, codex, process
<1>4. CASE UNCHANGED vars
  BY <1>4 DEF vars, Inv, TypeOK
<1>. QED BY <1>1, <1>2, <1>3, <1>4, RequestKeeps, BeginSweepKeeps, AbortKeeps,
            CrashKeeps DEF Next

LEMMA Invariance == Spec => []Inv
  BY InvInit, InvNext, PTL DEF Spec

\* The rows, the tables and the local variables of every request keep their
\* types, whatever requests run at the same time and whenever they crash.
THEOREM TypeCorrect == Spec => []TypeOK
<1>1. Inv => TypeOK
  BY DEF Inv
<1>. QED BY <1>1, Invariance, PTL

\* A job, and the mapping of an agent, only name threads of that agent.
THEOREM ThreadsIsolated == Spec => []ThreadIsolation
<1>1. Inv => ThreadIsolation
  BY DEF Inv, RowSound, ThreadIn, ThreadIsolation, ThreadOf
<1>. QED BY <1>1, Invariance, PTL

\* A job's active turn is its own, and ran on the thread its row names.
THEOREM TurnsOnThread == Spec => []TurnOnThread
<1>1. Inv => TurnOnThread
  BY DEF Inv, RowSound, TurnIn, TurnOnThread
<1>. QED BY <1>1, Invariance, PTL

\* A job is completed only when Codex answered that its active turn is.
THEOREM CompletionsJustified == Spec => []CompletionJustified
<1>1. Inv => CompletionJustified
  BY DEF Inv, RowSound, TurnIn, CompletionJustified
<1>. QED BY <1>1, Invariance, PTL

----------------------------------------------------------------------------
(* The loop guard: a relay enters at Evaluate and leaves once it is counted *)

\* A step of p that counts no edge and takes up no relay
Steady(p) ==
  /\ edges' = edges
  /\ \A q \in Procs \ {p} : h'[q] = h[q]
  /\ h'[p].pc \in Relaying => h[p].pc \in Relaying /\ h'[p].job = h[p].job

LEMMA MoveSteady ==
  ASSUME Inv, NEW p \in Procs, NEW l, h' = [h EXCEPT ![p] = l],
         edges' = edges, l.pc \notin Relaying
  PROVE  Steady(p)
<1>1. h \in [Procs -> Locals]
  BY DEF Inv, TypeOK
<1>. QED BY <1>1 DEF Steady

LEMMA ReturnSteady ==
  ASSUME Inv, NEW p \in Procs, Return(p), edges' = edges
  PROVE  Steady(p)
<1>1. Over(h[p]).pc \notin Relaying
  BY HandlerType, OverType DEF Relaying, Executing
<1>. QED BY <1>1, MoveSteady DEF Return

LEMMA GotoSteady ==
  ASSUME Inv, NEW p \in Procs, NEW pc \in Places, Goto(p, pc), edges' = edges,
         pc \in Relaying => h[p].pc \in Relaying
  PROVE  Steady(p)
<1>1. h \in [Procs -> Locals]
  BY DEF Inv, TypeOK
<1>2. /\ h'[p].pc = pc /\ h'[p].job = h[p].job
      /\ \A q \in Procs \ {p} : h'[q] = h[q]
  BY <1>1, GotoType DEF Goto
<1>. QED BY <1>2 DEF Steady

LEMMA ScheduleSteady ==
  ASSUME Inv, NEW p \in Procs, ScheduleStep(p)
  PROVE  Steady(p)
<1>1. edges' = edges
  BY DEF ScheduleStep, ScheduleRead, Reroute, Hold, CheckRuntime, session
<1>2. CASE ScheduleRead(p)
  <2>. DEFINE l == Look(p, "policy", jobs[h[p].job])
  <2>1. h' = [h EXCEPT ![p] = l]
    BY <1>2 DEF ScheduleRead, Look
  <2>2. l.pc \notin Relaying
    BY HandlerType DEF Look, Locals, Relaying, Executing
  <2>. QED BY <1>1, <2>1, <2>2, MoveSteady
<1>3. CASE Return(p)
  BY <1>1, <1>3, ReturnSteady
<1>4. CASE \E pc \in {"routed", "execute"} : Goto(p, pc)
  BY <1>1, <1>4, GotoSteady DEF Places, Relaying, Executing
<1>. QED BY <1>2, <1>3, <1>4 DEF ScheduleStep, Reroute, Hold, CheckRuntime

LEMMA ControlSteady ==
  ASSUME Inv, NEW p \in Procs, ControlStep(p)
  PROVE  Steady(p)
<1>1. edges' = edges
  BY DEF ControlStep, Requeue, Reread, Signal, WriteInterrupted, WriteCompacted,
         CancelDirectly, TakeInput, ResolveApproval, ReadDecided, WriteDecided,
         session
<1>2. ASSUME NEW pc \in {"signal", "decided"},
             h' = [h EXCEPT ![p].pc = pc, ![p].snap = jobs[h[p].job]]
      PROVE  Steady(p)
  <2>. DEFINE l == Look(p, pc, jobs[h[p].job])
  <2>1. h' = [h EXCEPT ![p] = l]
    BY <1>2 DEF Look
  <2>2. l.pc \notin Relaying
    BY HandlerType DEF Look, Locals, Relaying, Executing
  <2>. QED BY <1>1, <2>1, <2>2, MoveSteady
<1>3. CASE Return(p)
  BY <1>1, <1>3, ReturnSteady
<1>4. CASE \E pc \in {"schedule", "cancel", "compacted", "interrupted",
                      "readDecided"} : Goto(p, pc)
  BY <1>1, <1>4, GotoSteady DEF Places, Relaying, Executing
<1>5. CASE h' = [h EXCEPT ![p] = [Idle EXCEPT !.pc = "schedule",
                                    !.op = "answer", !.job = h[p].route]]
  <2>1. [Idle EXCEPT !.pc = "schedule", !.op = "answer",
                     !.job = h[p].route].pc \notin Relaying
    BY DEF Idle, Relaying, Executing
  <2>. QED BY <1>1, <1>5, <2>1, MoveSteady
<1>. QED BY <1>2, <1>3, <1>4, <1>5
         DEF ControlStep, Requeue, Reread, Signal, WriteInterrupted,
             WriteCompacted, CancelDirectly, TakeInput, ResolveApproval,
             ReadDecided, WriteDecided

LEMMA SweepSteady ==
  ASSUME Inv, NEW p \in Procs, SweepStep(p)
  PROVE  Steady(p)
<1>1. edges' = edges
  BY DEF SweepStep, ListMapped, Rehydrate, EndRehydrate, ListAgents, ListQueued,
         TakeNext, EndSweep, session
<1>2. h[p] \in Locals
  BY HandlerType
<1>3. CASE ListMapped(p)
  <2>. DEFINE l == [h[p] EXCEPT !.pc = "rehydrate", !.found =
                      {<<AgentOf[j], jobs[j].thread>> : j \in
                        {k \in Jobs : /\ jobs[k].thread # 0
                                      /\ jobs[k].status \notin NotRehydrated}}]
  <2>1. h' = [h EXCEPT ![p] = l]
    BY <1>3 DEF ListMapped
  <2>2. l.pc \notin Relaying
    BY <1>2 DEF Locals, Relaying, Executing
  <2>. QED BY <1>1, <2>1, <2>2, MoveSteady
<1>4. CASE Rehydrate(p)
  <2>1. PICK m \in h[p].found : h' = [h EXCEPT ![p].found = @ \ {m}]
    BY <1>4 DEF Rehydrate
  <2>. DEFINE l == [h[p] EXCEPT !.found = h[p].found \ {m}]
  <2>2. h' = [h EXCEPT ![p] = l]
    BY <2>1
  <2>3. l.pc \notin Relaying
    BY <1>2, <1>4 DEF Rehydrate, At, Locals, Relaying, Executing
  <2>. QED BY <1>1, <2>2, <2>3, MoveSteady
<1>5. CASE EndRehydrate(p)
  BY <1>1, <1>5, GotoSteady DEF EndRehydrate, Places, Relaying, Executing
<1>6. CASE ListAgents(p)
  <2>. DEFINE l == [h[p] EXCEPT !.pc = "listJobs",
                                !.agents = {a \in h[p].agents : online[a]}]
  <2>1. h' = [h EXCEPT ![p] = l]
    BY <1>6 DEF ListAgents
  <2>2. l.pc \notin Relaying
    BY <1>2 DEF Locals, Relaying, Executing
  <2>. QED BY <1>1, <2>1, <2>2, MoveSteady
<1>7. CASE ListQueued(p)
  <2>. DEFINE l == [h[p] EXCEPT !.pc = "next", !.agents = {}, !.todo =
                      {j \in Jobs : /\ jobs[j].status = "queued"
                                    /\ AgentOf[j] \in h[p].agents}]
  <2>1. h' = [h EXCEPT ![p] = l]
    BY <1>7 DEF ListQueued
  <2>2. l.pc \notin Relaying
    BY <1>2 DEF Locals, Relaying, Executing
  <2>. QED BY <1>1, <2>1, <2>2, MoveSteady
<1>8. CASE TakeNext(p)
  <2>1. PICK j \in h[p].todo :
          h' = [h EXCEPT ![p].pc = "execute", ![p].job = j, ![p].todo = @ \ {j}]
    BY <1>8 DEF TakeNext
  <2>. DEFINE l == [h[p] EXCEPT !.pc = "execute", !.job = j, !.todo = @ \ {j}]
  <2>2. h' = [h EXCEPT ![p] = l]
    BY <2>1
  <2>3. l.pc \notin Relaying
    BY <1>2 DEF Locals, Relaying, Executing
  <2>. QED BY <1>1, <2>2, <2>3, MoveSteady
<1>9. CASE EndSweep(p)
  BY <1>1, <1>9, MoveSteady DEF EndSweep, Idle, Relaying, Executing
<1>. QED BY <1>3, <1>4, <1>5, <1>6, <1>7, <1>8, <1>9 DEF SweepStep

LEMMA RequestSteady ==
  ASSUME Inv, NEW p \in Procs, Request(p)
  PROVE  Steady(p)
<1>1. edges' = edges
  BY DEF Request, CreateJob, Retry, Resume, Interrupt, Compact, OperatorCancel,
         ProvideInput, DecideApproval, AnswerApproval, StartDecision, Heartbeat,
         session
<1>2. ASSUME NEW op, NEW j, NEW pc \in Started, Begin(p, op, j, pc)
      PROVE  Steady(p)
  <2>. DEFINE l == [Idle EXCEPT !.pc = pc, !.op = op, !.job = j, !.snap = jobs[j]]
  <2>1. h' = [h EXCEPT ![p] = l]
    BY <1>2 DEF Begin
  <2>2. l.pc \notin Relaying
    BY DEF Idle, Started, Relaying, Executing
  <2>. QED BY <1>1, <2>1, <2>2, MoveSteady
<1>3. ASSUME NEW op, NEW i, NEW accept, NEW route,
             StartDecision(p, op, i, accept, route)
      PROVE  Steady(p)
  <2>. DEFINE l == [Idle EXCEPT !.pc = "resolve", !.op = op,
                      !.job = approvals[i].job, !.approval = i,
                      !.accept = accept, !.route = route]
  <2>1. h' = [h EXCEPT ![p] = l]
    BY <1>3 DEF StartDecision
  <2>2. l.pc \notin Relaying
    BY DEF Idle, Relaying, Executing
  <2>. QED BY <1>1, <2>1, <2>2, MoveSteady
<1>4. ASSUME NEW a, Heartbeat(p, a)
      PROVE  Steady(p)
  <2>. DEFINE l == [Idle EXCEPT !.pc = "listAgents", !.op = "heartbeat",
                                !.agents = {a}]
  <2>1. h' = [h EXCEPT ![p] = l]
    BY <1>4 DEF Heartbeat
  <2>2. l.pc \notin Relaying
    BY DEF Idle, Relaying, Executing
  <2>. QED BY <1>1, <2>1, <2>2, MoveSteady
<1>5. ASSUME NEW j, \/ CreateJob(p, j) \/ Retry(p, j) \/ Resume(p, j)
                    \/ Interrupt(p, j) \/ Compact(p, j)
                    \/ OperatorCancel(p, j) \/ ProvideInput(p, j)
      PROVE  Steady(p)
  <2>1. \E op, pc : pc \in Started /\ Begin(p, op, j, pc)
    BY <1>5 DEF CreateJob, Retry, Resume, Interrupt, Compact, OperatorCancel,
                ProvideInput, Started
  <2>. QED BY <1>2, <2>1
<1>. QED BY <1>3, <1>4, <1>5 DEF Request, DecideApproval, AnswerApproval

LEMMA AbortSteady ==
  ASSUME Inv, NEW p \in Procs, Abort(p) \/ BeginSweep(p)
  PROVE  Steady(p)
<1>1. edges' = edges
  BY DEF Abort, BeginSweep, session
<1>2. CASE Return(p)
  BY <1>1, <1>2, ReturnSteady
<1>3. CASE h' = [h EXCEPT ![p] = Idle]
  BY <1>1, <1>3, MoveSteady DEF Idle, Relaying, Executing
<1>4. CASE h' = [h EXCEPT ![p] = Sweeping]
  BY <1>1, <1>4, MoveSteady, SweepingSound DEF Relaying, Executing
<1>. QED BY <1>2, <1>3, <1>4 DEF Abort, BeginSweep

\* Within execute_job a relay goes on or ends, but for its two end points.
LEMMA ExecuteSteady ==
  ASSUME Inv, NEW p \in Procs, ExecuteStep(p), ~Evaluate(p), ~RecordEdge(p)
  PROVE  Steady(p)
<1>0. h \in [Procs -> Locals] /\ h[p] \in Locals
  BY HandlerType DEF Inv, TypeOK
<1>1. edges' = edges
  BY DEF ExecuteStep, ExecuteRead, PauseJob, PauseSession, LookupThread,
         ResumeThread, StartThread, StartTurn, CommitTurn, RequestApproval,
         Publish, session
<1>2. CASE ExecuteRead(p)
  <2>. DEFINE l == Look(p, "evaluate", jobs[h[p].job])
  <2>1. h' = [h EXCEPT ![p] = l]
    BY <1>2 DEF ExecuteRead, Look
  <2>2. l.pc \notin Relaying
    BY HandlerType DEF Look, Locals, Relaying, Executing
  <2>. QED BY <1>1, <2>1, <2>2, MoveSteady
<1>3. CASE PauseJob(p) \/ PauseSession(p)
  BY <1>1, <1>3, ReturnSteady, GotoSteady
  DEF PauseJob, PauseSession, Places, Relaying, Executing
<1>4. CASE ResumeThread(p) \/ CommitTurn(p) \/ RequestApproval(p) \/ Publish(p)
  <2>1. h[p].pc \in Relaying
    BY <1>4 DEF ResumeThread, CommitTurn, RequestApproval, Publish, At,
                Relaying, Executing
  <2>2. \E pc \in {"turn", "approval", "publish", "edge"} : Goto(p, pc)
    BY <1>4 DEF ResumeThread, CommitTurn, RequestApproval, Publish
  <2>. QED BY <1>1, <2>1, <2>2, GotoSteady DEF Places, Executing
<1>5. ASSUME NEW l, h' = [h EXCEPT ![p] = l], l.job = h[p].job,
             h[p].pc \in Relaying
      PROVE  Steady(p)
  BY <1>0, <1>1, <1>5 DEF Steady
<1>6. CASE LookupThread(p)
  <2>. DEFINE t == mapping[AgentOf[h[p].job]]
              pc == IF t # 0 THEN "resumeThread" ELSE "startThread"
              l == [h[p] EXCEPT !.pc = pc, !.thread = t]
  <2>1. h' = [h EXCEPT ![p] = l]
    BY <1>6 DEF LookupThread
  <2>2. l.job = h[p].job
    BY <1>0 DEF Locals
  <2>3. h[p].pc \in Relaying
    BY <1>6 DEF LookupThread, At, Relaying, Executing
  <2>. QED BY <1>5, <2>1, <2>2, <2>3
<1>7. CASE StartThread(p)
  <2>. DEFINE l == [h[p] EXCEPT !.pc = "turn", !.thread = Len(threads) + 1]
  <2>1. h' = [h EXCEPT ![p] = l]
    BY <1>7 DEF StartThread
  <2>2. l.job = h[p].job
    BY <1>0 DEF Locals
  <2>3. h[p].pc \in Relaying
    BY <1>7 DEF StartThread, At, Relaying, Executing
  <2>. QED BY <1>5, <2>1, <2>2, <2>3
<1>8. ASSUME NEW status, StartTurn(p, status)
      PROVE  Steady(p)
  <2>. DEFINE l == [h[p] EXCEPT !.pc = "commit", !.turn = Len(turns) + 1]
  <2>1. h' = [h EXCEPT ![p] = l]
    BY <1>8 DEF StartTurn
  <2>2. l.job = h[p].job
    BY <1>0 DEF Locals
  <2>3. h[p].pc \in Relaying
    BY <1>8 DEF StartTurn, At, Relaying, Executing
  <2>. QED BY <1>5, <2>1, <2>2, <2>3
<1>. QED BY <1>2, <1>3, <1>4, <1>6, <1>7, <1>8 DEF ExecuteStep

\* The relays in flight are among the handlers, which are finitely many.
LEMMA InFlightFinite ==
  ASSUME NEW S \in SUBSET Procs
  PROVE  /\ IsFiniteSet(S) /\ Cardinality(S) \in Nat
         /\ Cardinality(S) <= Cardinality(Procs)
         /\ Cardinality(Procs) \in Nat \ {0}
         /\ \A T \in SUBSET S : IsFiniteSet(T) /\ Cardinality(T) <= Cardinality(S)
<1>1. IsFiniteSet(Procs) /\ Procs # {}
  BY ProcsAssumption
<1>2. Cardinality(Procs) \in Nat
  BY <1>1, FS_CardinalityType
<1>3. Cardinality(Procs) # 0
  BY <1>1, FS_EmptySet
<1>4. IsFiniteSet(S) /\ Cardinality(S) <= Cardinality(Procs)
  BY <1>1, FS_Subset
<1>5. Cardinality(S) \in Nat
  BY <1>4, FS_CardinalityType
<1>6. \A T \in SUBSET S : IsFiniteSet(T) /\ Cardinality(T) <= Cardinality(S)
  BY <1>4, FS_Subset
<1>. QED BY <1>2, <1>3, <1>4, <1>5, <1>6

\* No relay was added and no edge: the bound stays.
LEMMA FewerInFlight ==
  ASSUME Inv, LoopGuardOvershoot, edges' = edges,
         \A a \in Agents : InFlight(a)' \subseteq InFlight(a)
  PROVE  LoopGuardOvershoot'
<1>. SUFFICES ASSUME NEW a \in Agents
              PROVE  edges'[a] + Cardinality(InFlight(a)')
                        <= MaxRelayEdges - 2 + Cardinality(Procs)
  BY DEF LoopGuardOvershoot
<1>1. InFlight(a) \in SUBSET Procs /\ InFlight(a)' \in SUBSET Procs
      /\ InFlight(a)' \in SUBSET InFlight(a)
  BY DEF InFlight
<1>2. /\ Cardinality(InFlight(a)') <= Cardinality(InFlight(a))
      /\ Cardinality(InFlight(a)') \in Nat /\ Cardinality(InFlight(a)) \in Nat
      /\ Cardinality(Procs) \in Nat
  BY <1>1, InFlightFinite
<1>3. edges[a] \in Nat /\ MaxRelayEdges \in Nat
  BY TablesType, LimitAssumption
<1>4. edges[a] + Cardinality(InFlight(a))
         <= MaxRelayEdges - 2 + Cardinality(Procs)
  BY DEF LoopGuardOvershoot
<1>. QED BY <1>2, <1>3, <1>4

LEMMA SteadyKeepsBound ==
  ASSUME Inv, LoopGuardOvershoot, NEW p \in Procs, Steady(p)
  PROVE  LoopGuardOvershoot'
<1>1. \A a \in Agents : InFlight(a)' \subseteq InFlight(a)
  <2>. SUFFICES ASSUME NEW a \in Agents, NEW q \in Procs,
                       h'[q].pc \in Relaying, AgentOf[h'[q].job] = a
                PROVE  h[q].pc \in Relaying /\ AgentOf[h[q].job] = a
    BY DEF InFlight
  <2>. QED BY DEF Steady
<1>. QED BY <1>1, FewerInFlight DEF Steady

\* The guard lets a relay through only two edges below the limit.
LEMMA EvaluateKeepsBound ==
  ASSUME Inv, LoopGuardOvershoot, NEW p \in Procs, Evaluate(p)
  PROVE  LoopGuardOvershoot'
<1>. DEFINE b == AgentOf[h[p].job]
            pc == IF edges[b] + 1 >= MaxRelayEdges THEN "pauseJob" ELSE "thread"
            l == [h[p] EXCEPT !.saw = paused, !.pc = pc]
<1>1. h \in [Procs -> Locals] /\ h[p] \in Locals /\ b \in Agents
      /\ h[p].pc = "evaluate"
  BY HandlerType DEF Inv, TypeOK, Evaluate, At, JobFree
<1>2. h' = [h EXCEPT ![p] = l] /\ edges' = edges
  BY DEF Evaluate, session
<1>3. l.pc = pc /\ l.job = h[p].job
  BY <1>1 DEF Locals
<1>4. CASE edges[b] + 1 >= MaxRelayEdges
  <2>1. l.pc \notin Relaying
    BY <1>3, <1>4 DEF Relaying, Executing
  <2>2. Steady(p)
    BY <1>2, <2>1, MoveSteady
  <2>. QED BY <2>2, SteadyKeepsBound
<1>5. CASE ~(edges[b] + 1 >= MaxRelayEdges)
  <2>1. h'[p].job = h[p].job /\ \A q \in Procs \ {p} : h'[q] = h[q]
    BY <1>1, <1>2, <1>3
  <2>. SUFFICES ASSUME NEW a \in Agents
                PROVE  edges'[a] + Cardinality(InFlight(a)')
                          <= MaxRelayEdges - 2 + Cardinality(Procs)
    BY DEF LoopGuardOvershoot
  <2>2. edges[a] \in Nat /\ edges[b] \in Nat /\ MaxRelayEdges \in Nat
    BY <1>1, TablesType, LimitAssumption
  <2>3. InFlight(a)' \in SUBSET Procs /\ InFlight(a) \in SUBSET Procs
    BY DEF InFlight
  <2>4. CASE a = b
    <3>1. /\ Cardinality(InFlight(a)') <= Cardinality(Procs)
          /\ Cardinality(InFlight(a)') \in Nat /\ Cardinality(Procs) \in Nat
      BY <2>3, InFlightFinite
    <3>. QED BY <1>2, <1>5, <2>2, <2>4, <3>1
  <2>5. CASE a # b
    <3>1. InFlight(a)' \in SUBSET InFlight(a)
      BY <2>1, <2>5 DEF InFlight
    <3>2. /\ Cardinality(InFlight(a)') <= Cardinality(InFlight(a))
          /\ Cardinality(InFlight(a)') \in Nat
          /\ Cardinality(InFlight(a)) \in Nat /\ Cardinality(Procs) \in Nat
      BY <2>3, <3>1, InFlightFinite
    <3>3. edges[a] + Cardinality(InFlight(a))
             <= MaxRelayEdges - 2 + Cardinality(Procs)
      BY DEF LoopGuardOvershoot
    <3>. QED BY <1>2, <2>2, <3>2, <3>3
  <2>. QED BY <2>4, <2>5
<1>. QED BY <1>4, <1>5

\* A relay that is counted is no longer in flight.
LEMMA RecordEdgeKeepsBound ==
  ASSUME Inv, LoopGuardOvershoot, NEW p \in Procs, RecordEdge(p)
  PROVE  LoopGuardOvershoot'
<1>. DEFINE b == AgentOf[h[p].job]
<1>1. /\ h \in [Procs -> Locals] /\ b \in Agents
      /\ h[p].pc = "edge" /\ edges \in [Agents -> Nat]
      /\ edges' = [edges EXCEPT ![b] = @ + 1] /\ Return(p)
  BY HandlerType, TablesType DEF Inv, TypeOK, RecordEdge, At, JobFree
<1>2. h'[p].pc \notin Relaying /\ \A q \in Procs \ {p} : h'[q] = h[q]
  BY <1>1, HandlerType, OverType DEF Return, Relaying, Executing
<1>. HIDE DEF b
<1>. SUFFICES ASSUME NEW a \in Agents
              PROVE  edges'[a] + Cardinality(InFlight(a)')
                        <= MaxRelayEdges - 2 + Cardinality(Procs)
  BY DEF LoopGuardOvershoot
<1>3. /\ InFlight(a)' \in SUBSET Procs /\ InFlight(a) \in SUBSET Procs
      /\ InFlight(a)' \in SUBSET (InFlight(a) \ {p})
  BY <1>2 DEF InFlight
<1>4. edges[a] \in Nat /\ MaxRelayEdges \in Nat
  BY <1>1, LimitAssumption
<1>5. edges[a] + Cardinality(InFlight(a))
         <= MaxRelayEdges - 2 + Cardinality(Procs)
  BY DEF LoopGuardOvershoot
<1>6. CASE a = b
  <2>1. p \in InFlight(a)
    BY <1>1, <1>6 DEF InFlight, Relaying, Executing, b
  <2>2. /\ IsFiniteSet(InFlight(a)) /\ Cardinality(InFlight(a)) \in Nat
        /\ Cardinality(Procs) \in Nat
    BY <1>3, InFlightFinite
  <2>3. /\ Cardinality(InFlight(a) \ {p}) = Cardinality(InFlight(a)) - 1
    BY <2>1, <2>2, FS_RemoveElement
  <2>4. /\ Cardinality(InFlight(a)') <= Cardinality(InFlight(a) \ {p})
        /\ Cardinality(InFlight(a)') \in Nat
    <3>1. InFlight(a) \ {p} \in SUBSET Procs
      BY <1>3
    <3>. QED BY <1>3, <3>1, InFlightFinite
  <2>5. edges'[a] = edges[a] + 1
    BY <1>1, <1>6
  <2>. QED BY <1>4, <1>5, <2>2, <2>3, <2>4, <2>5
<1>7. CASE a # b
  <2>1. edges'[a] = edges[a]
    BY <1>1, <1>7
  <2>2. InFlight(a)' \in SUBSET InFlight(a)
    BY <1>3
  <2>3. /\ Cardinality(InFlight(a)') <= Cardinality(InFlight(a))
        /\ Cardinality(InFlight(a)') \in Nat
        /\ Cardinality(InFlight(a)) \in Nat /\ Cardinality(Procs) \in Nat
    BY <1>3, <2>2, InFlightFinite
  <2>. QED BY <1>4, <1>5, <2>1, <2>3
<1>. QED BY <1>6, <1>7

LEMMA OvershootInit == Init => LoopGuardOvershoot
<1>. SUFFICES ASSUME Init, NEW a \in Agents
              PROVE  edges[a] + Cardinality(InFlight(a))
                        <= MaxRelayEdges - 2 + Cardinality(Procs)
  BY DEF LoopGuardOvershoot
<1>1. InFlight(a) = {} /\ edges[a] = 0
  BY DEF Init, InFlight, Idle, Relaying, Executing
<1>2. Cardinality(InFlight(a)) = 0
  BY <1>1, FS_EmptySet
<1>3. Cardinality(Procs) \in Nat \ {0}
  BY InFlightFinite
<1>. QED BY <1>1, <1>2, <1>3, LimitAssumption

LEMMA OvershootNext ==
  ASSUME Inv, LoopGuardOvershoot, [Next]_vars
  PROVE  LoopGuardOvershoot'
<1>1. ASSUME NEW p \in Procs, Step(p)
      PROVE  LoopGuardOvershoot'
  <2>1. CASE Evaluate(p) \/ RecordEdge(p)
    BY <2>1, EvaluateKeepsBound, RecordEdgeKeepsBound
  <2>2. CASE ~Evaluate(p) /\ ~RecordEdge(p)
    <3>1. Steady(p)
      BY <1>1, <2>2, ScheduleSteady, ExecuteSteady, ControlSteady, SweepSteady
      DEF Step
    <3>. QED BY <3>1, SteadyKeepsBound
  <2>. QED BY <2>1, <2>2
<1>2. ASSUME NEW p \in Procs, Request(p) \/ BeginSweep(p) \/ Abort(p)
      PROVE  LoopGuardOvershoot'
  BY <1>2, RequestSteady, AbortSteady, SteadyKeepsBound
<1>3. CASE Crash
  <2>1. \A p \in Procs : h'[p].pc \notin Relaying
    BY <1>3, SweepingSound DEF Crash, Idle, Relaying, Executing
  <2>2. \A a \in Agents : InFlight(a)' \subseteq InFlight(a)
    BY <2>1 DEF InFlight
  <2>. QED BY <1>3, <2>2, FewerInFlight DEF Crash, session
<1>4. CASE UNCHANGED <<edges, h>>
  <2>1. \A a \in Agents : InFlight(a)' \subseteq InFlight(a)
    BY <1>4 DEF InFlight
  <2>. QED BY <1>4, <2>1, FewerInFlight
<1>5. ASSUME NEW p, NEW a \in Agents, MarkStale(p, a) \/ GoOffline(a)
      PROVE  LoopGuardOvershoot'
  <2>1. UNCHANGED <<edges, h>>
    BY <1>5 DEF MarkStale, GoOffline, session
  <2>. QED BY <1>4, <2>1
<1>6. CASE UNCHANGED vars
  BY <1>4, <1>6 DEF vars
<1>. QED BY <1>1, <1>2, <1>3, <1>5, <1>6 DEF Next

\* Concurrent relays to an agent exceed the loop guard's limit by at most one
\* relay for each request or sweep besides the one the guard let through.
THEOREM OvershootBounded == Spec => []LoopGuardOvershoot
<1>1. Inv /\ LoopGuardOvershoot /\ [Next]_vars => LoopGuardOvershoot'
  BY OvershootNext
<1>. QED BY <1>1, OvershootInit, Invariance, PTL DEF Spec

----------------------------------------------------------------------------
(* When nothing fails, a turn that asks has its approval request *)

Owing == {"commit", "approval"}

\* A step that neither accepts a turn nor pays what a request owes
Calm ==
  /\ turns' = turns /\ Len(approvals') = Len(approvals)
  /\ \A i \in 1..Len(approvals) : approvals'[i].turn = approvals[i].turn
  /\ \A q \in Procs : h[q].pc \in Owing => h'[q] = h[q]

LEMMA CalmKeepsAsked ==
  ASSUME AskedTurnHasApproval, Calm
  PROVE  AskedTurnHasApproval'
BY DEF AskedTurnHasApproval, Calm, Owing

\* Whoever moves, moves alone.
LEMMA MovesAlone ==
  ASSUME Inv, NEW p \in Procs, Step(p) \/ Request(p) \/ BeginSweep(p) \/ Abort(p)
  PROVE  \A q \in Procs \ {p} : h'[q] = h[q]
<1>0. h \in [Procs -> Locals]
  BY DEF Inv, TypeOK
<1>1. CASE Evaluate(p) \/ RecordEdge(p)
  BY <1>0, <1>1 DEF Evaluate, RecordEdge, Return
<1>2. CASE Abort(p) \/ BeginSweep(p)
  BY <1>2, AbortSteady DEF Steady
<1>3. CASE Request(p)
  BY <1>3, RequestSteady DEF Steady
<1>4. CASE Step(p) /\ ~Evaluate(p) /\ ~RecordEdge(p)
  BY <1>4, ScheduleSteady, ExecuteSteady, ControlSteady, SweepSteady DEF Step, Steady
<1>. QED BY <1>1, <1>2, <1>3, <1>4

LEMMA TurnsAndApprovals ==
  ASSUME Inv, NEW p \in Procs, Step(p) \/ Request(p) \/ BeginSweep(p) \/ Abort(p),
         h[p].pc \notin Owing, \A status \in Answers : ~StartTurn(p, status)
  PROVE  Calm
<1>1. \A q \in Procs : h[q].pc \in Owing => h'[q] = h[q]
  BY MovesAlone
<1>2. turns' = turns
  BY DEF Step, ScheduleStep, ScheduleRead, Reroute, Hold, CheckRuntime,
         ExecuteStep, ExecuteRead, Evaluate, PauseJob, PauseSession, LookupThread, ResumeThread,
         StartThread, CommitTurn, RequestApproval, Publish, RecordEdge,
         ControlStep, Requeue, Reread, Signal, WriteInterrupted, WriteCompacted, CancelDirectly,
         TakeInput, ResolveApproval, ReadDecided, WriteDecided,
         SweepStep, ListMapped, Rehydrate, EndRehydrate, ListAgents, ListQueued, TakeNext, EndSweep,
         Request, CreateJob, Retry, Resume, Interrupt, Compact, OperatorCancel, ProvideInput,
         DecideApproval, AnswerApproval, StartDecision, Heartbeat, BeginSweep, Abort, codex
<1>3. CASE ResolveApproval(p)
  <2>1. approvals \in Seq(Approvals) /\ h[p].approval \in 1..Len(approvals)
    BY <1>3, HandlerType DEF Inv, TypeOK, ResolveApproval, At, LocalSound
  <2>2. /\ Len(approvals') = Len(approvals)
        /\ \A i \in 1..Len(approvals) : approvals'[i].turn = approvals[i].turn
    BY <1>3, <2>1 DEF ResolveApproval, Approvals
  <2>. QED BY <1>1, <1>2, <2>2 DEF Calm
<1>4. CASE ~ResolveApproval(p)
  <2>1. ~RequestApproval(p)
    BY DEF RequestApproval, At, Owing
  <2>2. approvals' = approvals
    BY <1>4, <2>1 DEF Step, ScheduleStep, ScheduleRead, Reroute, Hold, CheckRuntime,
         ExecuteStep, ExecuteRead, Evaluate, PauseJob, PauseSession, LookupThread, ResumeThread,
         StartThread, StartTurn, CommitTurn, Publish, RecordEdge,
         ControlStep, Requeue, Reread, Signal, WriteInterrupted, WriteCompacted, CancelDirectly,
         TakeInput, ReadDecided, WriteDecided,
         SweepStep, ListMapped, Rehydrate, EndRehydrate, ListAgents, ListQueued, TakeNext, EndSweep,
         Request, CreateJob, Retry, Resume, Interrupt, Compact, OperatorCancel, ProvideInput,
         DecideApproval, AnswerApproval, StartDecision, Heartbeat, BeginSweep, Abort
  <2>. QED BY <1>1, <1>2, <2>2 DEF Calm
<1>. QED BY <1>3, <1>4

LEMMA AskedNext ==
  ASSUME Inv, AskedTurnHasApproval, [Next]_vars, {"abort", "crash"} \intersect Ops = {}
  PROVE  AskedTurnHasApproval'
<1>0. /\ h \in [Procs -> Locals] /\ turns \in Seq(Turns) /\ approvals \in Seq(Approvals)
  BY DEF Inv, TypeOK
<1>1. ASSUME NEW p \in Procs, NEW status \in Answers, StartTurn(p, status)
      PROVE  AskedTurnHasApproval'
  <2>1. /\ turns' = Append(turns, [job |-> h[p].job, thread |-> h[p].thread, status |-> status])
        /\ approvals' = approvals /\ h[p].pc = "turn"
        /\ h' = [h EXCEPT ![p].pc = "commit", ![p].turn = Len(turns) + 1]
    BY <1>1 DEF StartTurn, At
  <2>2. Len(turns') = Len(turns) + 1 /\ \A u \in 1..Len(turns) : turns'[u] = turns[u]
    BY <1>0, <2>1
  <2>3. h'[p].pc = "commit" /\ h'[p].turn = Len(turns) + 1
    BY <1>0, <2>1 DEF Locals
  <2>4. \A q \in Procs : h[q].pc \in Owing => h'[q] = h[q]
    BY <1>0, <2>1 DEF Owing
  <2>5. SUFFICES ASSUME NEW u \in 1..Len(turns'), turns'[u].status \in Asked
                 PROVE  \/ \E i \in 1..Len(approvals) : approvals[i].turn = u
                        \/ \E q \in Procs : h'[q].pc \in Owing /\ h'[q].turn = u
    BY <2>1 DEF AskedTurnHasApproval, Owing
  <2>6. CASE u = Len(turns) + 1
    BY <2>3, <2>6 DEF Owing
  <2>7. CASE u # Len(turns) + 1
    <3>1. u \in 1..Len(turns) /\ turns[u].status \in Asked
      BY <1>0, <2>2, <2>5, <2>7
    <3>. QED BY <2>4, <3>1 DEF AskedTurnHasApproval, Owing
  <2>. QED BY <2>6, <2>7
<1>2. ASSUME NEW p \in Procs, CommitTurn(p)
      PROVE  AskedTurnHasApproval'
  <2>1. /\ turns' = turns /\ approvals' = approvals /\ h[p].turn \in 1..Len(turns)
        /\ Goto(p, IF turns[h[p].turn].status \in Asked THEN "approval" ELSE "publish")
    BY <1>2, HandlerType DEF CommitTurn, At, codex, LocalSound, AfterTurn, TurnIn
  <2>2. /\ h'[p].turn = h[p].turn
        /\ turns[h[p].turn].status \in Asked => h'[p].pc = "approval"
    BY <1>0, <2>1 DEF Goto, Locals
  <2>3. \A q \in Procs \ {p} : h'[q] = h[q]
    BY <1>0, <2>1 DEF Goto
  <2>. QED BY <2>1, <2>2, <2>3 DEF AskedTurnHasApproval
<1>3. ASSUME NEW p \in Procs, RequestApproval(p)
      PROVE  AskedTurnHasApproval'
  <2>1. /\ turns' = turns /\ Goto(p, "publish")
        /\ approvals' = Append(approvals, [job |-> h[p].job, turn |-> h[p].turn, status |-> "pending"])
    BY <1>3 DEF RequestApproval, codex
  <2>2. /\ Len(approvals') = Len(approvals) + 1 /\ approvals'[Len(approvals) + 1].turn = h[p].turn
        /\ \A i \in 1..Len(approvals) : approvals'[i] = approvals[i]
    BY <1>0, <2>1
  <2>3. \A q \in Procs \ {p} : h'[q] = h[q]
    BY <1>0, <2>1 DEF Goto
  <2>4. \A i \in 1..Len(approvals) : i \in 1..Len(approvals') /\ approvals'[i].turn = approvals[i].turn
    BY <1>0, <2>2
  <2>5. \E i \in 1..Len(approvals') : approvals'[i].turn = h[p].turn
    BY <1>0, <2>2
  <2>6. \A q \in Procs : h[q].pc \in Owing => h'[q] = h[q] \/ q = p
    BY <2>3
  <2>. QED BY <2>1, <2>4, <2>5, <2>6 DEF AskedTurnHasApproval, Owing
<1>4. ASSUME NEW p \in Procs, Step(p) \/ Request(p) \/ BeginSweep(p) \/ Abort(p),
             h[p].pc \in Owing
      PROVE  AskedTurnHasApproval'
  <2>1. CommitTurn(p) \/ RequestApproval(p)
    BY <1>4, HandlerType DEF Owing, Step, ScheduleStep, ScheduleRead, Reroute, Hold, CheckRuntime,
         ExecuteStep, ExecuteRead, Evaluate, PauseJob, PauseSession, LookupThread, ResumeThread,
         StartThread, StartTurn, Publish, RecordEdge,
         ControlStep, Requeue, Reread, Signal, WriteInterrupted, WriteCompacted, CancelDirectly,
         TakeInput, ResolveApproval, ReadDecided, WriteDecided,
         SweepStep, ListMapped, Rehydrate, EndRehydrate, ListAgents, ListQueued, TakeNext, EndSweep,
         Request, CreateJob, Retry, Resume, Interrupt, Compact, OperatorCancel, ProvideInput, Begin,
         DecideApproval, AnswerApproval, StartDecision, Heartbeat, BeginSweep, Abort, BridgeRefuses, At
  <2>. QED BY <2>1, <1>2, <1>3
<1>5. ASSUME NEW p \in Procs, Step(p) \/ Request(p) \/ BeginSweep(p) \/ Abort(p)
      PROVE  AskedTurnHasApproval'
  <2>1. CASE \E status \in Answers : StartTurn(p, status)
    BY <1>1, <2>1
  <2>2. CASE h[p].pc \in Owing
    BY <1>4, <1>5, <2>2
  <2>3. CASE h[p].pc \notin Owing /\ \A status \in Answers : ~StartTurn(p, status)
    BY <1>5, <2>3, TurnsAndApprovals, CalmKeepsAsked
  <2>. QED BY <2>1, <2>2, <2>3
<1>6. CASE (\E p \in Procs, a \in Agents : MarkStale(p, a)) \/ (\E a \in Agents : GoOffline(a))
           \/ UNCHANGED vars
  BY <1>6, CalmKeepsAsked DEF MarkStale, GoOffline, vars, codex, Calm
<1>. QED BY <1>5, <1>6 DEF Next, Crash

\* As long as no call fails and the process lives, a turn that asks for input or
\* authorisation has its approval request or is about to get it, with any number
\* of requests (execute_job).
THEOREM AskedTurnsHaveApprovals ==
  ASSUME {"abort", "crash"} \intersect Ops = {}
  PROVE  Spec => []AskedTurnHasApproval
<1>1. Init => AskedTurnHasApproval
  BY DEF Init, AskedTurnHasApproval
<1>. QED BY <1>1, AskedNext, Invariance, PTL DEF Spec

----------------------------------------------------------------------------
(* One request at a time: the handler q is alone *)

\* What the handler does with a job that is still queued
Queued == {"schedule", "policy", "routed", "execute", "evaluate", "pauseJob", "thread",
           "resumeThread", "startThread", "turn", "commit"}
Deciding == {"resolve", "readDecided", "decided"}

Accepted(j) == \E i \in 1..Len(approvals) : approvals[i].job = j /\ approvals[i].status = "accepted"
Mapped(j) == jobs[j].status = "running" => mapping[AgentOf[j]] # 0 \/ Accepted(j)

\* The row the handler holds is the row of the table, and the jobs it has listed
\* are queued: nobody else writes.
Fresh(l) ==
  /\ l.pc \in HasSnap => l.snap = jobs[l.job]
  /\ l.pc \in Queued => jobs[l.job].status = "queued" /\ l.job \notin l.todo
  /\ \A k \in l.todo : jobs[k].status = "queued" /\ l.pc \in Executing \union {"next"}
  /\ l.pc = "requeue" => l.op = "retry" \/ jobs[l.job].status # "canceled"

\* An approval is pending until the one request that decides it does.
Decides(l) ==
  l.pc \in Deciding =>
    /\ l.op = "decide" /\ l.route = None
    /\ l.approval \in 1..Len(approvals) /\ approvals[l.approval].job = l.job
    /\ l.pc = "resolve" => approvals[l.approval].status = "pending"
    /\ l.pc # "resolve" /\ l.accept => approvals[l.approval].status = "accepted"

\* A running job has a thread, and its agent too once the startup sweep has passed.
Remaps(l) ==
  /\ l.pc \in OnThread => mapping[AgentOf[l.job]] # 0
  /\ \A j \in Jobs : jobs[j].status = "running" => jobs[j].thread # 0 \/ Accepted(j)
  /\ serving \/ l.pc \notin {"idle", "stale", "rehydrate"} => \A j \in Jobs : Mapped(j)
  /\ l.pc = "rehydrate" =>
       \A j \in Jobs : Mapped(j) \/ \E m \in l.found : m[1] = AgentOf[j]

Serial(l) == Fresh(l) /\ Decides(l) /\ Remaps(l)

\* An accepted approval stays accepted, and an agent keeps a thread.
Kept ==
  /\ \A j \in Jobs : Accepted(j) => Accepted(j)'
  /\ \A j \in Jobs : mapping[AgentOf[j]] # 0 => mapping'[AgentOf[j]] # 0

LEMMA SameKept ==
  ASSUME UNCHANGED <<approvals, mapping>>
  PROVE  Kept
BY DEF Kept, Accepted

\* A step that writes no row
LEMMA QuietSerial ==
  ASSUME NEW k, NEW l, Serial(k), UNCHANGED <<jobs, serving>>, Kept,
         k.pc \notin {"idle", "stale", "rehydrate"},
         l.pc \notin Deciding \union {"stale", "rehydrate", "requeue"},
         l.pc \in HasSnap => l.snap = jobs[l.job],
         l.pc \in Queued => k.pc \in Queued /\ l.job = k.job /\ l.todo = k.todo,
         l.todo \subseteq k.todo, l.todo = {} \/ l.pc \in Executing \union {"next"},
         l.pc \in OnThread => mapping'[AgentOf[l.job]] # 0
  PROVE  Serial(l)'
<1>1. Fresh(l)'
  BY DEF Serial, Fresh
<1>2. Decides(l)'
  BY DEF Decides
<1>3. Remaps(l)'
  BY DEF Serial, Remaps, Mapped, Kept
<1>. QED BY <1>1, <1>2, <1>3 DEF Serial

\* A step that writes the row of the handler's job
LEMMA WriteSerial ==
  ASSUME NEW k, NEW l, NEW row, Serial(k), UNCHANGED <<approvals, mapping, serving>>,
         jobs \in [Jobs -> Rows], k.job \in Jobs, jobs' = [jobs EXCEPT ![k.job] = row],
         k.pc \notin {"idle", "stale", "rehydrate"}, k.todo = {} \/ k.job \notin k.todo,
         l.pc \notin Deciding \union {"stale", "rehydrate", "requeue"} \union HasSnap,
         l.pc \in OnThread => k.pc \in OnThread /\ l.job = k.job,
         l.pc \in Queued => row.status = "queued" /\ l.job = k.job /\ l.job \notin l.todo,
         l.todo \subseteq k.todo, l.todo = {} \/ l.pc \in Executing \union {"next"},
         row.status = "running" => \/ Accepted(k.job)
                                   \/ row.thread # 0 /\ mapping[AgentOf[k.job]] # 0
  PROVE  Serial(l)'
<1>1. Fresh(l)'
  BY DEF Serial, Fresh, HasSnap
<1>2. Decides(l)'
  BY DEF Decides, Deciding
<1>3. jobs'[k.job] = row /\ \A j \in Jobs \ {k.job} : jobs'[j] = jobs[j]
  OBVIOUS
<1>4. \A j \in Jobs : Accepted(j)' <=> Accepted(j)
  BY DEF Accepted
<1>5. Remaps(l)'
  BY <1>3, <1>4 DEF Serial, Remaps, Mapped, OnThread, AfterTurn
<1>. QED BY <1>1, <1>2, <1>5 DEF Serial

LEMMA SerialAs ==
  ASSUME NEW q, NEW l, h'[q] = l, Serial(l)'
  PROVE  Serial(h[q])'
BY DEF Serial, Fresh, Decides, Remaps, Mapped, Accepted

\* A handler that moves to another place, or ends, holding what it held
LEMMA GotoSerial ==
  ASSUME Inv, NEW q \in Procs, Serial(h[q]), NEW pc \in Places, Goto(q, pc),
         UNCHANGED <<jobs, serving>>, Kept,
         h[q].pc \notin {"idle", "stale", "rehydrate"},
         pc \notin Deciding \union {"stale", "rehydrate", "requeue"},
         pc \in HasSnap => h[q].pc \in HasSnap, pc \in Queued => h[q].pc \in Queued,
         h[q].todo = {} \/ pc \in Executing \union {"next"},
         pc \in OnThread => mapping'[AgentOf[h[q].job]] # 0
  PROVE  Serial(h[q])'
<1>. PICK l : l = [h[q] EXCEPT !.pc = pc]
  OBVIOUS
<1>1. h \in [Procs -> Locals] /\ h[q] \in Locals
  BY HandlerType DEF Inv, TypeOK
<1>2. /\ h'[q] = l /\ l.pc = pc /\ l.job = h[q].job /\ l.snap = h[q].snap
      /\ l.todo = h[q].todo
  BY <1>1 DEF Goto, Locals
<1>3. pc \in HasSnap => l.snap = jobs[l.job]
  BY <1>2 DEF Serial, Fresh
<1>4. Serial(l)'
  BY <1>2, <1>3, QuietSerial
<1>. QED BY <1>2, <1>4, SerialAs

LEMMA OverFields ==
  ASSUME NEW l \in Locals
  PROVE  \/ Over(l).pc = "idle" /\ Over(l).todo = {}
         \/ Over(l).pc = "next" /\ Over(l).todo = l.todo
BY OverType DEF Over, Idle

LEMMA ReturnSerial ==
  ASSUME Inv, NEW q \in Procs, Serial(h[q]), Return(q), UNCHANGED <<jobs, serving>>, Kept,
         h[q].pc \notin {"idle", "stale", "rehydrate"}
  PROVE  Serial(h[q])'
<1>. PICK l : l = Over(h[q])
  OBVIOUS
<1>1. h \in [Procs -> Locals] /\ h[q] \in Locals
  BY HandlerType DEF Inv, TypeOK
<1>2. h'[q] = l
  BY <1>1 DEF Return
<1>3. l.pc \in {"idle", "next"} /\ l.todo \subseteq h[q].todo /\ (l.todo = {} \/ l.pc = "next")
  BY <1>1, OverFields
<1>4. Serial(l)'
  BY <1>3, QuietSerial DEF Deciding, HasSnap, Queued, OnThread, AfterTurn
<1>. QED BY <1>2, <1>4, SerialAs

\* A handler that reads its job's row: nothing but the queue is asked of it.
LEMMA LookSerial ==
  ASSUME Inv, NEW q \in Procs, Serial(h[q]), UNCHANGED <<jobs, approvals, mapping, serving>>,
         NEW pc \in HasSnap \ ({"requeue", "decided"} \union OnThread),
         h' = [h EXCEPT ![q].pc = pc, ![q].snap = jobs[h[q].job]],
         h[q].pc \notin {"idle", "stale", "rehydrate"},
         pc \in Queued => h[q].pc \in Queued, h[q].todo = {} \/ pc \in Executing
  PROVE  Serial(h[q])'
<1>. PICK l : l = Look(q, pc, jobs[h[q].job])
  OBVIOUS
<1>1. h \in [Procs -> Locals] /\ h[q] \in Locals
  BY HandlerType DEF Inv, TypeOK
<1>2. /\ h'[q] = l /\ l.pc = pc /\ l.job = h[q].job /\ l.snap = jobs[h[q].job]
      /\ l.todo = h[q].todo
  BY <1>1 DEF Look, Locals
<1>3. Serial(l)'
  BY <1>2, SameKept, QuietSerial DEF HasSnap, Deciding
<1>. QED BY <1>2, <1>3, SerialAs

\* The row is written, and the handler ends or goes on.
LEMMA WriteReturnSerial ==
  ASSUME Inv, NEW q \in Procs, Serial(h[q]), NEW row, Write(q, row), Return(q),
         UNCHANGED <<approvals, mapping, serving>>, h[q].pc \notin JobFree,
         h[q].todo = {} \/ h[q].job \notin h[q].todo,
         row.status = "running" => \/ Accepted(h[q].job)
                                   \/ row.thread # 0 /\ mapping[AgentOf[h[q].job]] # 0
  PROVE  Serial(h[q])'
<1>. PICK l : l = Over(h[q])
  OBVIOUS
<1>1. h \in [Procs -> Locals] /\ h[q] \in Locals /\ jobs \in [Jobs -> Rows] /\ h[q].job \in Jobs
  BY HandlerType DEF Inv, TypeOK
<1>2. h'[q] = l
  BY <1>1 DEF Return
<1>3. l.pc \in {"idle", "next"} /\ l.todo \subseteq h[q].todo /\ (l.todo = {} \/ l.pc = "next")
  BY <1>1, OverFields
<1>4. Serial(l)'
  BY <1>1, <1>3, WriteSerial DEF Write, JobFree, Deciding, HasSnap, Queued, OnThread, AfterTurn
<1>. QED BY <1>2, <1>4, SerialAs

LEMMA WriteGotoSerial ==
  ASSUME Inv, NEW q \in Procs, Serial(h[q]), NEW row, Write(q, row),
         NEW pc \in {"schedule", "pauseSession", "approval", "publish"}, Goto(q, pc),
         UNCHANGED <<approvals, mapping, serving>>, h[q].pc \notin JobFree,
         h[q].todo = {} \/ h[q].job \notin h[q].todo,
         h[q].todo = {} \/ pc \in Executing,
         pc = "schedule" => row.status = "queued",
         pc \in {"approval", "publish"} => h[q].pc \in OnThread,
         row.status = "running" => \/ Accepted(h[q].job)
                                   \/ row.thread # 0 /\ mapping[AgentOf[h[q].job]] # 0
  PROVE  Serial(h[q])'
<1>. PICK l : l = [h[q] EXCEPT !.pc = pc]
  OBVIOUS
<1>1. h \in [Procs -> Locals] /\ h[q] \in Locals /\ jobs \in [Jobs -> Rows] /\ h[q].job \in Jobs
  BY HandlerType DEF Inv, TypeOK
<1>2. h'[q] = l /\ l.pc = pc /\ l.job = h[q].job /\ l.todo = h[q].todo
  BY <1>1 DEF Goto, Locals
<1>3. Serial(l)'
  BY <1>1, <1>2, WriteSerial
  DEF Write, JobFree, Deciding, HasSnap, Queued, OnThread, AfterTurn, Executing
<1>. QED BY <1>2, <1>3, SerialAs

LEMMA ScheduleSerial ==
  ASSUME Inv, NEW q \in Procs, Serial(h[q]), ScheduleStep(q)
  PROVE  Serial(h[q])'
<1>. USE DEF session, codex, process
<1>0. /\ h[q].pc \in {"schedule", "policy", "routed"} /\ h[q].todo = {}
      /\ h[q].pc \in {"policy", "routed"} => h[q].snap = jobs[h[q].job]
  BY DEF ScheduleStep, ScheduleRead, Reroute, Hold, CheckRuntime, At, Serial, Fresh, Executing,
         HasSnap
<1>1. CASE ScheduleRead(q)
  BY <1>0, <1>1, LookSerial DEF ScheduleRead, HasSnap, OnThread, AfterTurn, Queued
<1>2. CASE Reroute(q)
  <2>1. jobs' = jobs
    BY <1>0, <1>2 DEF Reroute, Write, Inv, TypeOK, At
  <2>. QED BY <1>0, <1>2, <2>1, SameKept, GotoSerial
       DEF Reroute, At, Places, Deciding, HasSnap, Queued, OnThread, AfterTurn
<1>3. CASE Hold(q)
  <2>1. Mark(h[q].snap, "input_required", "other").status = "input_required"
    BY HandlerType, MarkType DEF JobStatuses, Asked, TurnStatuses, Markers
  <2>. QED BY <1>0, <1>3, <2>1, WriteReturnSerial DEF Hold, JobFree
<1>4. CASE CheckRuntime(q)
  <2>1. CASE Return(q)
    BY <1>0, <1>4, <2>1, SameKept, ReturnSerial DEF CheckRuntime
  <2>2. CASE Goto(q, "execute")
    BY <1>0, <1>4, <2>2, SameKept, GotoSerial
    DEF CheckRuntime, Places, Executing, Deciding, HasSnap, Queued, OnThread, AfterTurn
  <2>. QED BY <1>4, <2>1, <2>2 DEF CheckRuntime
<1>. QED BY <1>1, <1>2, <1>3, <1>4 DEF ScheduleStep

LEMMA ExecuteSerial ==
  ASSUME Inv, NEW q \in Procs, Serial(h[q]), ExecuteStep(q)
  PROVE  Serial(h[q])'
<1>. USE DEF session, codex, process
<1>0. /\ h \in [Procs -> Locals] /\ h[q] \in Locals /\ mapping \in [Agents -> Nat]
      /\ \A j \in Jobs : AgentOf[j] \in Agents
  BY HandlerType, AgentsAssumption DEF Inv, TypeOK
<1>1. CASE ExecuteRead(q)
  BY <1>1, LookSerial DEF ExecuteRead, At, HasSnap, OnThread, AfterTurn, Queued, Executing
\* The places of a relay, and what it takes up on the way
<1>2. ASSUME NEW pc \in {"pauseJob", "thread", "resumeThread", "startThread", "turn", "commit"},
             NEW l, h' = [h EXCEPT ![q] = l], l.pc = pc, l.job = h[q].job, l.snap = h[q].snap,
             l.todo = h[q].todo, UNCHANGED <<jobs, serving>>, Kept,
             h[q].pc \in {"evaluate", "thread", "resumeThread", "startThread", "turn"},
             pc \in OnThread => mapping'[AgentOf[h[q].job]] # 0
      PROVE  Serial(h[q])'
  <2>1. h'[q] = l
    BY <1>0, <1>2
  <2>2. l.snap = jobs[l.job]
    BY <1>2 DEF Serial, Fresh, HasSnap
  <2>3. Serial(l)'
    BY <1>2, <2>2, QuietSerial DEF Deciding, Queued, Executing
  <2>. QED BY <2>1, <2>3, SerialAs
<1>3. CASE Evaluate(q)
  <2>1. PICK pc \in {"pauseJob", "thread"} : h' = [h EXCEPT ![q].saw = paused, ![q].pc = pc]
    BY <1>3 DEF Evaluate
  <2>2. PICK l : l = [h[q] EXCEPT !.saw = paused, !.pc = pc]
    OBVIOUS
  <2>3. /\ l.pc = pc /\ l.job = h[q].job /\ l.snap = h[q].snap /\ l.todo = h[q].todo
        /\ h' = [h EXCEPT ![q] = l]
    BY <1>0, <2>1, <2>2 DEF Locals
  <2>. QED BY <1>2, <1>3, <2>1, <2>3, SameKept DEF Evaluate, At, OnThread, AfterTurn
<1>4. CASE PauseJob(q)
  <2>1. Mark(h[q].snap, "paused_by_loop_guard", "other").status = "paused_by_loop_guard"
    BY HandlerType, MarkType DEF JobStatuses, Asked, TurnStatuses, Markers
  <2>. QED BY <1>4, <2>1, WriteGotoSerial DEF PauseJob, At, JobFree, Executing, Serial, Fresh, Queued
<1>5. CASE PauseSession(q)
  BY <1>5, SameKept, ReturnSerial DEF PauseSession, At
<1>6. CASE LookupThread(q)
  <2>1. PICK pc \in {"resumeThread", "startThread"}, t \in Nat :
          /\ h' = [h EXCEPT ![q].pc = pc, ![q].thread = t]
          /\ pc = "resumeThread" => mapping[AgentOf[h[q].job]] # 0
    <3>1. mapping[AgentOf[h[q].job]] \in Nat
      BY <1>6, HandlerType, <1>0 DEF LookupThread, At, JobFree
    <3>. QED BY <1>6, <3>1 DEF LookupThread
  <2>2. PICK l : l = [h[q] EXCEPT !.pc = pc, !.thread = t]
    OBVIOUS
  <2>3. /\ l.pc = pc /\ l.job = h[q].job /\ l.snap = h[q].snap /\ l.todo = h[q].todo
        /\ h' = [h EXCEPT ![q] = l]
    BY <1>0, <2>1, <2>2 DEF Locals
  <2>. QED BY <1>2, <1>6, <2>1, <2>3, SameKept DEF LookupThread, At, OnThread, AfterTurn
<1>7. CASE ResumeThread(q)
  <2>1. h[q].thread # 0 /\ h[q].job \in Jobs
    BY <1>7, HandlerType DEF ResumeThread, At, LocalSound, OnThread, ThreadIn, JobFree
  <2>2. mapping'[AgentOf[h[q].job]] # 0 /\ \A j \in Jobs : mapping[AgentOf[j]] # 0 => mapping'[AgentOf[j]] # 0
    BY <1>0, <1>7, <2>1 DEF ResumeThread
  <2>3. Kept
    BY <1>7, <2>2 DEF ResumeThread, Kept, Accepted
  <2>. QED BY <1>7, <2>2, <2>3, GotoSerial
       DEF ResumeThread, At, Places, Executing, Deciding, HasSnap, Queued
<1>8. CASE StartThread(q)
  <2>0. threads \in Seq(Agents)
    BY DEF Inv, TypeOK
  <2>1. h[q].job \in Jobs /\ Len(threads) \in Nat
    BY <1>8, <2>0, HandlerType DEF StartThread, At, JobFree
  <2>2. mapping'[AgentOf[h[q].job]] # 0 /\ \A j \in Jobs : mapping[AgentOf[j]] # 0 => mapping'[AgentOf[j]] # 0
    BY <1>0, <1>8, <2>1 DEF StartThread
  <2>3. Kept
    BY <1>8, <2>2 DEF StartThread, Kept, Accepted
  <2>4. PICK l : l = [h[q] EXCEPT !.pc = "turn", !.thread = Len(threads) + 1]
    OBVIOUS
  <2>5. /\ l.pc = "turn" /\ l.job = h[q].job /\ l.snap = h[q].snap /\ l.todo = h[q].todo
        /\ h' = [h EXCEPT ![q] = l]
    BY <1>0, <1>8, <2>4 DEF Locals, StartThread
  <2>. QED BY <1>2, <1>8, <2>2, <2>3, <2>5 DEF StartThread, At
<1>9. ASSUME NEW status \in Answers, StartTurn(q, status) PROVE Serial(h[q])'
  <2>1. PICK l : l = [h[q] EXCEPT !.pc = "commit", !.turn = Len(turns) + 1]
    OBVIOUS
  <2>2. /\ l.pc = "commit" /\ l.job = h[q].job /\ l.snap = h[q].snap /\ l.todo = h[q].todo
        /\ h' = [h EXCEPT ![q] = l]
    BY <1>0, <1>9, <2>1 DEF Locals, StartTurn
  <2>3. mapping'[AgentOf[h[q].job]] # 0
    BY <1>9 DEF StartTurn, At, Serial, Remaps, OnThread
  <2>. QED BY <1>2, <1>9, <2>2, <2>3, SameKept DEF StartTurn, At
<1>10. CASE CommitTurn(q)
  <2>1. PICK pc \in {"approval", "publish"} : Goto(q, pc) /\ Write(q, TurnRow(q))
    BY <1>10 DEF CommitTurn
  <2>2. TurnRow(q).thread = h[q].thread
    BY HandlerType DEF TurnRow, Rows
  <2>3. h[q].thread # 0 /\ mapping[AgentOf[h[q].job]] # 0 /\ h[q].job \notin h[q].todo
    BY <1>10, HandlerType
    DEF CommitTurn, At, LocalSound, OnThread, AfterTurn, ThreadIn, Serial, Remaps, Fresh, Queued
  <2>. QED BY <1>10, <2>1, <2>2, <2>3, WriteGotoSerial
       DEF CommitTurn, At, JobFree, Executing, OnThread, AfterTurn
<1>11. CASE RequestApproval(q)
  <2>1. Kept
    <3>1. approvals \in Seq(Approvals) /\ mapping' = mapping
      BY <1>11 DEF RequestApproval, Inv, TypeOK
    <3>2. /\ Len(approvals) \in Nat /\ Len(approvals') = Len(approvals) + 1
          /\ \A i \in 1..Len(approvals) : approvals'[i] = approvals[i]
      BY <1>11, <3>1 DEF RequestApproval
    <3>. QED BY <3>1, <3>2 DEF Kept, Accepted
  <2>. QED BY <1>11, <2>1, GotoSerial
       DEF RequestApproval, At, Places, Executing, Deciding, HasSnap, Queued, Serial, Remaps, OnThread,
           AfterTurn
<1>12. CASE Publish(q)
  BY <1>12, SameKept, GotoSerial
  DEF Publish, At, Places, Executing, Deciding, HasSnap, Queued, Serial, Remaps, OnThread, AfterTurn
<1>13. CASE RecordEdge(q)
  BY <1>13, SameKept, ReturnSerial DEF RecordEdge, At
<1>. QED BY <1>1, <1>3, <1>4, <1>5, <1>6, <1>7, <1>8, <1>9, <1>10, <1>11, <1>12, <1>13
         DEF ExecuteStep

LEMMA DecideSerial ==
  ASSUME Inv, NEW q \in Procs, Serial(h[q]), ResolveApproval(q) \/ ReadDecided(q) \/ WriteDecided(q)
  PROVE  Serial(h[q])'
<1>. USE DEF session, codex, process
<1>0. /\ h \in [Procs -> Locals] /\ h[q] \in Locals /\ approvals \in Seq(Approvals)
      /\ h[q].pc \in Deciding /\ h[q].todo = {} /\ h[q].job \in Jobs
  BY HandlerType DEF Inv, TypeOK, ResolveApproval, ReadDecided, WriteDecided, At, Deciding, Serial,
     Fresh, Executing, JobFree
<1>i. PICK i \in 1..Len(approvals) :
        /\ h[q].approval = i /\ approvals[i].job = h[q].job /\ h[q].route = None /\ h[q].op = "decide"
        /\ h[q].pc = "resolve" => approvals[i].status = "pending"
        /\ h[q].pc # "resolve" /\ h[q].accept => approvals[i].status = "accepted"
  BY <1>0 DEF Serial, Decides
\* What a decision keeps until it has written the job
<1>1. ASSUME NEW l, h'[q] = l, l.pc \in {"readDecided", "decided"}, l.todo = {}, Kept,
             l.job = h[q].job, l.op = "decide", l.route = None, l.approval = i,
             approvals'[i].job = h[q].job, i \in 1..Len(approvals'),
             l.accept => approvals'[i].status = "accepted",
             l.pc = "decided" => l.snap = jobs[l.job], UNCHANGED <<jobs, serving>>
      PROVE  Serial(h[q])'
  <2>1. Fresh(l)'
    BY <1>1 DEF Fresh, HasSnap, Queued
  <2>2. Decides(l)'
    BY <1>1 DEF Decides
  <2>3. Remaps(l)'
    BY <1>0, <1>1 DEF Serial, Remaps, Mapped, Kept, OnThread, AfterTurn, Deciding
  <2>. QED BY <1>1, <2>1, <2>2, <2>3, SerialAs DEF Serial
<1>2. CASE ResolveApproval(q)
  <2>1. PICK l : l = [h[q] EXCEPT !.pc = "readDecided"]
    OBVIOUS
  <2>2. /\ h'[q] = l /\ l.pc = "readDecided" /\ l.job = h[q].job /\ l.todo = h[q].todo
        /\ l.op = h[q].op /\ l.route = h[q].route /\ l.approval = h[q].approval /\ l.accept = h[q].accept
    BY <1>0, <1>2, <2>1 DEF Locals, ResolveApproval, Goto
  <2>3. /\ Len(approvals') = Len(approvals) /\ \A k \in 1..Len(approvals) \ {i} : approvals'[k] = approvals[k]
        /\ approvals'[i].job = approvals[i].job
        /\ approvals'[i].status = IF h[q].accept THEN "accepted" ELSE "declined"
    BY <1>0, <1>i, <1>2 DEF ResolveApproval, Approvals
  <2>4. approvals[i].status = "pending"
    BY <1>i, <1>2 DEF ResolveApproval, At
  <2>5. Kept
    BY <1>2, <2>3, <2>4 DEF Kept, Accepted, ResolveApproval
  <2>. QED BY <1>0, <1>i, <1>1, <1>2, <2>2, <2>3, <2>5 DEF ResolveApproval
<1>3. CASE ReadDecided(q)
  <2>1. PICK l : l = Look(q, "decided", jobs[h[q].job])
    OBVIOUS
  <2>2. /\ h'[q] = l /\ l.pc = "decided" /\ l.job = h[q].job /\ l.todo = h[q].todo
        /\ l.op = h[q].op /\ l.route = h[q].route /\ l.approval = h[q].approval /\ l.accept = h[q].accept
        /\ l.snap = jobs[h[q].job]
    BY <1>0, <1>3, <2>1 DEF Locals, ReadDecided, Look
  <2>. QED BY <1>0, <1>i, <1>1, <1>3, <2>2, SameKept DEF ReadDecided, At
<1>4. CASE WriteDecided(q)
  <2> DEFINE status == DecidedStatus(h[q].snap.status, h[q].accept)
             row == Mark(h[q].snap, status, "other")
  <2>1. status \in JobStatuses /\ (status = "running" => h[q].accept)
    BY DEF DecidedStatus, JobStatuses, TurnStatuses
  <2>2. row.status = status
    BY <2>1, HandlerType, MarkType DEF Markers
  <2>3. row.status = "running" => Accepted(h[q].job)
    BY <1>i, <1>4, <2>1, <2>2 DEF WriteDecided, At, Accepted
  <2>4. Write(q, row) /\ Return(q) /\ UNCHANGED <<approvals, mapping, serving>>
    BY <1>i, <1>4 DEF WriteDecided
  <2> HIDE DEF row
  <2>. QED BY <1>0, <2>3, <2>4, WriteReturnSerial DEF Deciding, JobFree
<1>. QED BY <1>2, <1>3, <1>4

LEMMA ControlSerial ==
  ASSUME Inv, NEW q \in Procs, Serial(h[q]), ControlStep(q)
  PROVE  Serial(h[q])'
<1>. USE DEF session, codex, process
<1>0. CASE ResolveApproval(q) \/ ReadDecided(q) \/ WriteDecided(q)
  BY <1>0, DecideSerial
<1>. SUFFICES ASSUME ~(ResolveApproval(q) \/ ReadDecided(q) \/ WriteDecided(q)) PROVE Serial(h[q])'
  BY <1>0
<1>1. /\ h[q].pc \in {"requeue", "reread", "signal", "interrupted", "compacted", "cancel", "input"}
      /\ h[q].todo = {} /\ h[q].job \in Jobs /\ h[q].snap \in Rows /\ h[q].snap = jobs[h[q].job]
  BY HandlerType DEF ControlStep, Requeue, Reread, Signal, WriteInterrupted, WriteCompacted,
     CancelDirectly, TakeInput, At, Serial, Fresh, Executing, JobFree, HasSnap
<1>2. ASSUME NEW status \in JobStatuses, NEW marker \in Markers
      PROVE  /\ Mark(h[q].snap, status, marker).status = status
             /\ Mark(h[q].snap, status, marker).thread = jobs[h[q].job].thread
  BY <1>1, MarkType
<1>3. jobs[h[q].job].status = "running" =>
        Accepted(h[q].job) \/ (jobs[h[q].job].thread # 0 /\ mapping[AgentOf[h[q].job]] # 0)
  BY <1>1 DEF Serial, Remaps, Mapped
<1>4. h[q].snap.status \in JobStatuses
  BY <1>1 DEF Rows
<1>5. CASE Requeue(q)
  BY <1>1, <1>2, <1>5, WriteGotoSerial DEF Requeue, JobFree, JobStatuses, Markers
<1>6. CASE Reread(q)
  <2>1. CASE Return(q)
    BY <1>1, <1>6, <2>1, SameKept, ReturnSerial DEF Reread
  <2>2. CASE Goto(q, "cancel")
    BY <1>1, <1>6, <2>2, SameKept, GotoSerial
    DEF Reread, Places, HasSnap, Deciding, Queued, OnThread, AfterTurn
  <2>3. CASE h' = [h EXCEPT ![q].pc = "signal", ![q].snap = jobs[h[q].job]]
    BY <1>1, <1>6, <2>3, LookSerial DEF Reread, HasSnap, Queued, OnThread, AfterTurn
  <2>. QED BY <1>6, <2>1, <2>2, <2>3 DEF Reread
<1>7. CASE Signal(q)
  <2>1. CASE Return(q)
    BY <1>1, <1>7, <2>1, SameKept, ReturnSerial DEF Signal
  <2>2. CASE \E pc \in {"compacted", "interrupted"} : Goto(q, pc)
    BY <1>1, <1>7, <2>2, SameKept, GotoSerial
    DEF Signal, Places, HasSnap, Deciding, Queued, OnThread, AfterTurn
  <2>. QED BY <1>7, <2>1, <2>2 DEF Signal
<1>8. CASE WriteInterrupted(q)
  BY <1>1, <1>2, <1>8, WriteReturnSerial DEF WriteInterrupted, JobFree, JobStatuses, Markers
<1>9. CASE WriteCompacted(q)
  BY <1>1, <1>2, <1>3, <1>4, <1>9, WriteReturnSerial DEF WriteCompacted, JobFree, Markers
<1>10. CASE CancelDirectly(q)
  BY <1>1, <1>2, <1>10, WriteReturnSerial DEF CancelDirectly, JobFree, JobStatuses, Markers
<1>11. CASE TakeInput(q)
  <2>1. CASE h[q].snap.status \in Asked
    BY <1>1, <1>2, <1>11, <2>1, WriteGotoSerial DEF TakeInput, JobFree, JobStatuses, Markers
  <2>2. CASE h[q].snap.status \notin Asked
    BY <1>1, <1>2, <1>3, <1>4, <1>11, <2>2, WriteReturnSerial DEF TakeInput, JobFree, Markers
  <2>. QED BY <2>1, <2>2
<1>. QED BY <1>5, <1>6, <1>7, <1>8, <1>9, <1>10, <1>11 DEF ControlStep

LEMMA SweepSerial ==
  ASSUME Inv, NEW q \in Procs, Serial(h[q]), SweepStep(q)
  PROVE  Serial(h[q])'
<1>. USE DEF session, codex, process
<1>0. /\ h \in [Procs -> Locals] /\ h[q] \in Locals /\ mapping \in [Agents -> Nat]
      /\ \A j \in Jobs : AgentOf[j] \in Agents
  BY HandlerType, AgentsAssumption DEF Inv, TypeOK
<1>1. CASE ListMapped(q)
  <2> DEFINE found == {<<AgentOf[j], jobs[j].thread>> : j \in
                         {k \in Jobs : jobs[k].thread # 0 /\ jobs[k].status \notin NotRehydrated}}
  <2>1. PICK l : l = [h[q] EXCEPT !.pc = "rehydrate", !.found = found]
    OBVIOUS
  <2>2. h'[q] = l /\ l.pc = "rehydrate" /\ l.todo = h[q].todo /\ l.found = found
    BY <1>0, <1>1, <2>1 DEF Locals, ListMapped
  <2>3. h[q].todo = {} /\ h[q].pc = "stale"
    BY <1>1 DEF ListMapped, At, Serial, Fresh, Executing
  <2>4. \A j \in Jobs : jobs[j].status = "running" /\ jobs[j].thread # 0 =>
          \E m \in found : m[1] = AgentOf[j]
    <3>1. ASSUME NEW j \in Jobs, jobs[j].status = "running", jobs[j].thread # 0
          PROVE  <<AgentOf[j], jobs[j].thread>> \in found
      BY <3>1 DEF NotRehydrated, Terminal
    <3> HIDE DEF found
    <3>. QED BY <3>1
  <2> HIDE DEF found
  <2>5. Fresh(l)'
    BY <2>2, <2>3 DEF Fresh, HasSnap, Queued
  <2>6. Decides(l)'
    BY <2>2 DEF Decides, Deciding
  <2>7. Remaps(l)'
    BY <1>1, <2>2, <2>3, <2>4, SameKept DEF ListMapped, Serial, Remaps, Mapped, Kept, OnThread, AfterTurn
  <2>. QED BY <2>2, <2>5, <2>6, <2>7, SerialAs DEF Serial
<1>2. CASE Rehydrate(q)
  <2>1. PICK m \in h[q].found : /\ mapping' = [mapping EXCEPT ![m[1]] = m[2]]
                                /\ h' = [h EXCEPT ![q].found = h[q].found \ {m}]
    BY <1>2 DEF Rehydrate
  <2>2. PICK l : l = [h[q] EXCEPT !.found = h[q].found \ {m}]
    OBVIOUS
  <2>3. /\ h'[q] = l /\ l.pc = h[q].pc /\ l.todo = h[q].todo /\ l.found = h[q].found \ {m}
    BY <1>0, <2>1, <2>2 DEF Locals
  <2>4. h[q].todo = {} /\ h[q].pc = "rehydrate"
    BY <1>2 DEF Rehydrate, At, Serial, Fresh, Executing
  <2>5. m[2] # 0 /\ m[1] \in Agents
    BY <1>0, <2>4, HandlerType DEF LocalSound, ThreadIn, Locals
  <2>6. mapping'[m[1]] # 0 /\ \A a \in Agents : mapping[a] # 0 => mapping'[a] # 0
    BY <1>0, <2>1, <2>5
  <2>7. Kept
    BY <1>0, <1>2, <2>6 DEF Rehydrate, Kept, Accepted
  <2>8. Fresh(l)'
    BY <2>3, <2>4 DEF Fresh, HasSnap, Queued
  <2>9. Decides(l)'
    BY <2>3, <2>4 DEF Decides, Deciding
  <2>10. Remaps(l)'
    BY <1>2, <2>3, <2>4, <2>6, <2>7 DEF Rehydrate, Serial, Remaps, Mapped, Kept, OnThread, AfterTurn
  <2>. QED BY <2>3, <2>8, <2>9, <2>10, SerialAs DEF Serial
<1>3. CASE EndRehydrate(q)
  <2>1. PICK pc \in {"listAgents", "next"} : Goto(q, pc)
    BY <1>3 DEF EndRehydrate
  <2>2. PICK l : l = [h[q] EXCEPT !.pc = pc]
    OBVIOUS
  <2>3. h'[q] = l /\ l.pc = pc /\ l.todo = h[q].todo
    BY <1>0, <2>1, <2>2 DEF Locals, Goto
  <2>4. h[q].todo = {} /\ h[q].pc = "rehydrate" /\ h[q].found = {}
    BY <1>3 DEF EndRehydrate, At, Serial, Fresh, Executing
  <2>5. Fresh(l)'
    BY <2>3, <2>4 DEF Fresh, HasSnap, Queued
  <2>6. Decides(l)'
    BY <2>3, <2>4 DEF Decides, Deciding
  <2>7. Remaps(l)'
    BY <1>3, <2>3, <2>4, SameKept DEF EndRehydrate, Serial, Remaps, Mapped, Kept, OnThread, AfterTurn
  <2>. QED BY <2>3, <2>5, <2>6, <2>7, SerialAs DEF Serial
<1>4. CASE ListAgents(q)
  <2>1. PICK l : l = [h[q] EXCEPT !.pc = "listJobs", !.agents = {a \in h[q].agents : online[a]}]
    OBVIOUS
  <2>2. h'[q] = l /\ l.pc = "listJobs" /\ l.todo = h[q].todo
    BY <1>0, <1>4, <2>1 DEF Locals, ListAgents
  <2>3. h[q].todo = {} /\ h[q].pc = "listAgents"
    BY <1>4 DEF ListAgents, At, Serial, Fresh, Executing
  <2>4. Serial(l)'
    BY <1>4, <2>2, <2>3, SameKept, QuietSerial
    DEF ListAgents, Deciding, HasSnap, Queued, OnThread, AfterTurn
  <2>. QED BY <2>2, <2>4, SerialAs
<1>5. CASE ListQueued(q)
  <2> DEFINE todo == {j \in Jobs : jobs[j].status = "queued" /\ AgentOf[j] \in h[q].agents}
  <2>1. PICK l : l = [h[q] EXCEPT !.pc = "next", !.agents = {}, !.todo = todo]
    OBVIOUS
  <2>2. h'[q] = l /\ l.pc = "next" /\ l.todo = todo
    BY <1>0, <1>5, <2>1 DEF Locals, ListQueued
  <2>3. Fresh(l)'
    BY <1>5, <2>2 DEF ListQueued, Fresh, HasSnap, Queued
  <2>4. Decides(l)'
    BY <2>2 DEF Decides, Deciding
  <2>5. Remaps(l)'
    BY <1>5, <2>2, SameKept DEF ListQueued, At, Serial, Remaps, Mapped, Kept, OnThread, AfterTurn
  <2>. QED BY <2>2, <2>3, <2>4, <2>5, SerialAs DEF Serial
<1>6. CASE TakeNext(q)
  <2>1. PICK j \in h[q].todo :
          h' = [h EXCEPT ![q].pc = "execute", ![q].job = j, ![q].todo = h[q].todo \ {j}]
    BY <1>6 DEF TakeNext
  <2>2. PICK l : l = [h[q] EXCEPT !.pc = "execute", !.job = j, !.todo = h[q].todo \ {j}]
    OBVIOUS
  <2>3. h'[q] = l /\ l.pc = "execute" /\ l.job = j /\ l.todo = h[q].todo \ {j}
    BY <1>0, <2>1, <2>2 DEF Locals
  <2>4. Fresh(l)'
    BY <1>6, <2>3 DEF TakeNext, Serial, Fresh, HasSnap, Executing
  <2>5. Decides(l)'
    BY <2>3 DEF Decides, Deciding
  <2>6. Remaps(l)'
    BY <1>6, <2>3, SameKept DEF TakeNext, At, Serial, Remaps, Mapped, Kept, OnThread, AfterTurn
  <2>. QED BY <2>3, <2>4, <2>5, <2>6, SerialAs DEF Serial
<1>7. CASE EndSweep(q)
  <2>1. PICK l : l = Idle
    OBVIOUS
  <2>2. h'[q] = l /\ l.pc = "idle" /\ l.todo = {}
    BY <1>0, <1>7, <2>1 DEF EndSweep, Idle
  <2>3. Fresh(l)'
    BY <2>2 DEF Fresh, HasSnap, Queued
  <2>4. Decides(l)'
    BY <2>2 DEF Decides, Deciding
  <2>5. Remaps(l)'
    BY <1>7, <2>2, SameKept DEF EndSweep, At, Serial, Remaps, Mapped, Kept, OnThread, AfterTurn, Accepted
  <2>. QED BY <2>2, <2>3, <2>4, <2>5, SerialAs DEF Serial
<1>. QED BY <1>1, <1>2, <1>3, <1>4, <1>5, <1>6, <1>7 DEF SweepStep

\* A request that begins, on its own
LEMMA BegunSerial ==
  ASSUME NEW l, NEW k, Serial(k), serving, UNCHANGED <<approvals, mapping, serving>>,
         k.pc = "idle", l.todo = {}, l.pc \notin OnThread \union {"rehydrate"},
         Fresh(l)', Decides(l)',
         \A j \in Jobs : jobs'[j] = jobs[j] \/ jobs'[j].status # "running"
  PROVE  Serial(l)'
<1>1. Remaps(l)'
  BY SameKept DEF Serial, Remaps, Mapped, Kept
<1>. QED BY <1>1 DEF Serial

LEMMA RequestSerial ==
  ASSUME Inv, NEW q \in Procs, Serial(h[q]), Request(q), "answer" \notin Ops
  PROVE  Serial(h[q])'
<1>. USE DEF session, codex, process
<1>0. h \in [Procs -> Locals] /\ jobs \in [Jobs -> Rows] /\ approvals \in Seq(Approvals)
  BY DEF Inv, TypeOK
<1>1. ASSUME NEW op, NEW j, NEW pc \in Started, Begin(q, op, j, pc)
      PROVE  \E l : /\ h'[q] = l /\ l.pc = pc /\ l.op = op /\ l.job = j /\ l.snap = jobs[j]
                    /\ l.todo = {} /\ serving /\ h[q].pc = "idle"
  <2>1. PICK l : l = [Idle EXCEPT !.pc = pc, !.op = op, !.job = j, !.snap = jobs[j]]
    OBVIOUS
  <2>2. h'[q] = l
    BY <1>0, <1>1, <2>1 DEF Begin
  <2>3. l.pc = pc /\ l.op = op /\ l.job = j /\ l.snap = jobs[j] /\ l.todo = {}
    BY <2>1 DEF Idle
  <2>. QED BY <1>1, <2>2, <2>3 DEF Begin, At
<1>2. ASSUME NEW j \in Jobs, CreateJob(q, j) PROVE Serial(h[q])'
  <2>1. PICK l : /\ h'[q] = l /\ l.pc = "schedule" /\ l.job = j /\ l.todo = {}
                 /\ serving /\ h[q].pc = "idle"
    BY <1>1, <1>2 DEF CreateJob, Started
  <2>2. Mark(NoRow, "queued", "none").status = "queued"
    BY IdleType, MarkType DEF JobStatuses, Markers
  <2>3. jobs'[j].status = "queued" /\ \A k \in Jobs \ {j} : jobs'[k] = jobs[k]
    BY <1>0, <1>2, <2>2 DEF CreateJob
  <2>4. Fresh(l)' /\ Decides(l)'
    BY <2>1, <2>3 DEF Fresh, Decides, HasSnap, Deciding
  <2>5. Serial(l)'
    BY <1>2, <2>1, <2>3, <2>4, BegunSerial DEF CreateJob, OnThread, AfterTurn
  <2>. QED BY <2>1, <2>5, SerialAs
<1>3. ASSUME NEW j \in Jobs, \/ Retry(q, j) \/ Resume(q, j) \/ Interrupt(q, j) \/ Compact(q, j)
                             \/ OperatorCancel(q, j) \/ ProvideInput(q, j)
      PROVE Serial(h[q])'
  <2>1. PICK op \in AllOps, pc \in Started \ {"schedule"} :
          /\ Begin(q, op, j, pc)
          /\ pc = "requeue" => op = "retry" \/ jobs[j].status \in RESUMABLE_JOB_STATUSES
    <3>1. CASE Retry(q, j)
      BY <3>1, "requeue" \in Started \ {"schedule"} DEF Retry, AllOps, Started
    <3>2. CASE Resume(q, j)
      BY <3>2, "requeue" \in Started \ {"schedule"} DEF Resume, AllOps, Started
    <3>3. CASE Interrupt(q, j)
      BY <3>3, "signal" \in Started \ {"schedule"} DEF Interrupt, AllOps, Started
    <3>4. CASE Compact(q, j)
      BY <3>4, "signal" \in Started \ {"schedule"} DEF Compact, AllOps, Started
    <3>5. CASE OperatorCancel(q, j)
      BY <3>5, {"reread", "cancel"} \subseteq Started \ {"schedule"} DEF OperatorCancel, AllOps, Started
    <3>6. CASE ProvideInput(q, j)
      BY <3>6, "input" \in Started \ {"schedule"} DEF ProvideInput, AllOps, Started
    <3>. QED BY <1>3, <3>1, <3>2, <3>3, <3>4, <3>5, <3>6
  <2>2. PICK l : /\ h'[q] = l /\ l.pc = pc /\ l.op = op /\ l.job = j /\ l.snap = jobs[j]
                 /\ l.todo = {} /\ serving /\ h[q].pc = "idle"
    BY <1>1, <2>1
  <2>3. UNCHANGED <<jobs, approvals, mapping, serving>>
    BY <1>3 DEF Retry, Resume, Interrupt, Compact, OperatorCancel, ProvideInput
  <2>4. Fresh(l)' /\ Decides(l)'
    BY <2>1, <2>2, <2>3
    DEF Fresh, Decides, Queued, Deciding, Started, RESUMABLE_JOB_STATUSES, Asked
  <2>5. Serial(l)'
    BY <2>2, <2>3, <2>4, BegunSerial DEF Started, OnThread, AfterTurn
  <2>. QED BY <2>2, <2>5, SerialAs
<1>4. ASSUME NEW i \in 1..Len(approvals), NEW accept \in BOOLEAN, DecideApproval(q, i, accept)
      PROVE Serial(h[q])'
  <2>1. PICK l : l = [Idle EXCEPT !.pc = "resolve", !.op = "decide", !.job = approvals[i].job,
                                  !.approval = i, !.accept = accept, !.route = None]
    OBVIOUS
  <2>2. h'[q] = l
    BY <1>0, <1>4, <2>1 DEF DecideApproval, StartDecision
  <2>3. /\ l.pc = "resolve" /\ l.op = "decide" /\ l.job = approvals[i].job /\ l.approval = i
        /\ l.route = None /\ l.todo = {}
    BY <2>1 DEF Idle
  <2>4. /\ UNCHANGED <<jobs, approvals, mapping, serving>> /\ serving /\ h[q].pc = "idle"
        /\ approvals[i].status = "pending"
    BY <1>4 DEF DecideApproval, StartDecision, At
  <2>5. Fresh(l)' /\ Decides(l)'
    BY <2>3, <2>4 DEF Fresh, Decides, HasSnap, Queued, Deciding
  <2>6. Serial(l)'
    BY <2>3, <2>4, <2>5, BegunSerial DEF OnThread, AfterTurn
  <2>. QED BY <2>2, <2>6, SerialAs
<1>5. ASSUME NEW a \in Agents, Heartbeat(q, a) PROVE Serial(h[q])'
  <2>1. PICK l : l = [Idle EXCEPT !.pc = "listAgents", !.op = "heartbeat", !.agents = {a}]
    OBVIOUS
  <2>2. h'[q] = l
    BY <1>0, <1>5, <2>1 DEF Heartbeat
  <2>3. l.pc = "listAgents" /\ l.todo = {}
    BY <2>1 DEF Idle
  <2>4. UNCHANGED <<jobs, approvals, mapping, serving>> /\ serving /\ h[q].pc = "idle"
    BY <1>5 DEF Heartbeat, At
  <2>5. Fresh(l)' /\ Decides(l)'
    BY <2>3 DEF Fresh, Decides, HasSnap, Queued, Deciding
  <2>6. Serial(l)'
    BY <2>3, <2>4, <2>5, BegunSerial DEF OnThread, AfterTurn
  <2>. QED BY <2>2, <2>6, SerialAs
<1>6. ASSUME NEW i \in 1..Len(approvals), NEW j \in Jobs, AnswerApproval(q, i, j) PROVE FALSE
  BY <1>6 DEF AnswerApproval, StartDecision
<1>. QED BY <1>2, <1>3, <1>4, <1>5, <1>6 DEF Request

\* A handler that starts anew, idle or with a sweep
LEMMA RestartSerial ==
  ASSUME NEW l \in {Idle, Sweeping}, NEW k, Serial(k), UNCHANGED <<jobs, approvals>>,
         \/ ~serving'
         \/ serving' = serving /\ mapping' = mapping
  PROVE  Serial(l)'
<1>1. l.pc \in {"idle", "stale"} /\ l.todo = {}
  <2>1. Idle.pc = "idle" /\ Idle.todo = {}
    BY DEF Idle
  <2>2. Sweeping.pc = "stale" /\ Sweeping.todo = {}
    BY DEF Sweeping, Idle
  <2>. QED BY <2>1, <2>2
<1>2. Fresh(l)' /\ Decides(l)'
  BY <1>1 DEF Fresh, Decides, HasSnap, Queued, Deciding
<1>3. Remaps(l)'
  BY <1>1 DEF Serial, Remaps, Mapped, Accepted, OnThread, AfterTurn
<1>. QED BY <1>2, <1>3 DEF Serial

LEMMA SerialInit == ASSUME Init, NEW q \in Procs PROVE Serial(h[q])
<1>1. h[q] = Idle /\ jobs = [j \in Jobs |-> NoRow] /\ serving
  BY DEF Init
<1>2. h[q].pc = "idle" /\ h[q].todo = {} /\ \A j \in Jobs : jobs[j].status = "absent"
  BY <1>1 DEF Idle, NoRow
<1>3. Fresh(h[q]) /\ Decides(h[q])
  BY <1>2 DEF Fresh, Decides, HasSnap, Queued, Deciding
<1>4. Remaps(h[q])
  BY <1>2 DEF Remaps, Mapped, OnThread, AfterTurn
<1>. QED BY <1>3, <1>4 DEF Serial

LEMMA SerialNext ==
  ASSUME NEW q, Procs = {q}, "answer" \notin Ops, Inv, Serial(h[q]), [Next]_vars
  PROVE  Serial(h[q])'
<1>. USE DEF session, codex, process
<1>0. h \in [Procs -> Locals]
  BY DEF Inv, TypeOK
<1>1. CASE Step(q)
  BY <1>1, ScheduleSerial, ExecuteSerial, ControlSerial, SweepSerial DEF Step
<1>2. CASE Request(q)
  BY <1>2, RequestSerial
<1>3. CASE BeginSweep(q)
  <2>1. h'[q] = Sweeping /\ UNCHANGED <<jobs, approvals, mapping, serving>>
    BY <1>0, <1>3 DEF BeginSweep
  <2>. QED BY <2>1, RestartSerial, SerialAs
<1>4. CASE Abort(q)
  <2>1. UNCHANGED <<jobs, approvals, mapping, serving>>
    BY <1>4 DEF Abort
  <2>2. CASE Return(q) /\ h[q].pc \in Executing
    BY <2>1, <2>2, SameKept, ReturnSerial DEF Executing
  <2>3. CASE h' = [h EXCEPT ![q] = Idle]
    <3>1. h'[q] = Idle
      BY <1>0, <2>3
    <3>. QED BY <2>1, <3>1, RestartSerial, SerialAs
  <2>. QED BY <1>4, <2>2, <2>3 DEF Abort
<1>5. CASE Crash
  <2>1. h'[q] \in {Idle, Sweeping} /\ ~serving' /\ UNCHANGED <<jobs, approvals>>
    BY <1>0, <1>5 DEF Crash
  <2>. QED BY <2>1, RestartSerial, SerialAs
<1>6. CASE (\E a \in Agents : MarkStale(q, a) \/ GoOffline(a)) \/ UNCHANGED vars
  <2>1. UNCHANGED <<h, jobs, approvals, mapping, serving>>
    BY <1>6 DEF MarkStale, GoOffline, vars
  <2>. QED BY <2>1 DEF Serial, Fresh, Decides, Remaps, Mapped, Accepted
<1>. QED BY <1>1, <1>2, <1>3, <1>4, <1>5, <1>6 DEF Next

\* With one handler at a time, and no approval answered with the input of a job
\* (that one schedules a job it may not belong to), the invariant of the handler
\* is one of the specification.
LEMMA SerialInvariance ==
  ASSUME NEW q, Procs = {q}, "answer" \notin Ops
  PROVE  Spec => [](Inv /\ Serial(h[q]))
<1>1. Init => Serial(h[q])
  BY SerialInit
<1>2. Inv /\ Serial(h[q]) /\ [Next]_vars => Serial(h[q])'
  BY SerialNext
<1>. QED BY <1>1, <1>2, InvInit, InvNext, PTL DEF Spec

\* Whenever the server takes requests, a job that is running has a thread and its
\* agent a mapping to one, or an accepted approval is what made it running: the
\* sweep after a restart has mapped every agent that needs it again.
THEOREM RunningJobsAreMapped ==
  ASSUME NEW q, Procs = {q}, "answer" \notin Ops
  PROVE  Spec => []RunningJobsMapped
<1>1. Inv /\ Serial(h[q]) => RunningJobsMapped
  BY DEF Serial, Remaps, Mapped, Accepted, RunningJobsMapped
<1>. QED BY <1>1, SerialInvariance, PTL

\* A sweep writes no row and starts no turn of its own, and a request no more
\* than the row it creates.
LEMMA SweepLeaves ==
  ASSUME NEW q, SweepStep(q)
  PROVE  UNCHANGED <<jobs, turns, approvals>>
<1>. USE DEF session, codex, process
<1>1. CASE ListMapped(q) \/ Rehydrate(q) \/ EndRehydrate(q)
  BY <1>1 DEF ListMapped, Rehydrate, EndRehydrate
<1>2. CASE ListAgents(q) \/ ListQueued(q)
  BY <1>2 DEF ListAgents, ListQueued
<1>3. CASE TakeNext(q)
  BY <1>3 DEF TakeNext
<1>4. CASE EndSweep(q)
  BY <1>4 DEF EndSweep
<1>. QED BY <1>1, <1>2, <1>3, <1>4 DEF SweepStep

LEMMA RequestLeaves ==
  ASSUME NEW q, Request(q)
  PROVE  /\ UNCHANGED <<turns, approvals>>
         /\ jobs' = jobs \/ \E j \in Jobs : CreateJob(q, j)
<1>. USE DEF session, codex, process
<1>1. ASSUME NEW j \in Jobs, Retry(q, j) \/ Resume(q, j) \/ Interrupt(q, j) \/ Compact(q, j)
      PROVE  UNCHANGED <<jobs, turns, approvals>>
  BY <1>1 DEF Retry, Resume, Interrupt, Compact
<1>2. ASSUME NEW j \in Jobs, OperatorCancel(q, j) \/ ProvideInput(q, j)
      PROVE  UNCHANGED <<jobs, turns, approvals>>
  BY <1>2 DEF OperatorCancel, ProvideInput
<1>3. ASSUME NEW i, NEW accept, NEW j, DecideApproval(q, i, accept) \/ AnswerApproval(q, i, j)
      PROVE  UNCHANGED <<jobs, turns, approvals>>
  BY <1>3 DEF DecideApproval, AnswerApproval, StartDecision
<1>4. ASSUME NEW a, Heartbeat(q, a) PROVE UNCHANGED <<jobs, turns, approvals>>
  BY <1>4 DEF Heartbeat
<1>5. ASSUME NEW j \in Jobs, CreateJob(q, j) PROVE UNCHANGED <<turns, approvals>>
  BY <1>5 DEF CreateJob
<1>. QED BY <1>1, <1>2, <1>3, <1>4, <1>5 DEF Request

\* A turn is started where the handler's job is queued.
LEMMA TurnQueued ==
  ASSUME Inv, NEW q, Procs = {q}, Serial(h[q]), [Next]_vars
  PROVE  turns' # turns => jobs[turns'[Len(turns')].job].status = "queued"
<1>. USE DEF session, codex, process
<1>1. ASSUME NEW status \in Answers, StartTurn(q, status)
      PROVE  jobs[turns'[Len(turns')].job].status = "queued"
  <2>1. jobs[h[q].job].status = "queued"
    BY <1>1 DEF StartTurn, At, Serial, Fresh, Queued
  <2>2. turns \in Seq(Turns)
    BY DEF Inv, TypeOK
  <2> DEFINE turn == [job |-> h[q].job, thread |-> h[q].thread, status |-> status]
  <2>3. turns' = Append(turns, turn) /\ turn.job = h[q].job
    BY <1>1 DEF StartTurn
  <2> HIDE DEF turn
  <2>4. turns'[Len(turns')] = turn
    BY <2>2, <2>3
  <2>. QED BY <2>1, <2>3, <2>4
<1>2. CASE ScheduleStep(q)
  BY <1>2 DEF ScheduleStep, ScheduleRead, Reroute, Hold, CheckRuntime
<1>3. CASE ExecuteStep(q)
  <2>1. CASE ExecuteRead(q) \/ Evaluate(q) \/ PauseJob(q) \/ PauseSession(q)
    BY <2>1 DEF ExecuteRead, Evaluate, PauseJob, PauseSession
  <2>2. CASE LookupThread(q) \/ ResumeThread(q) \/ StartThread(q)
    BY <2>2 DEF LookupThread, ResumeThread, StartThread
  <2>3. CASE CommitTurn(q) \/ RequestApproval(q) \/ Publish(q) \/ RecordEdge(q)
    BY <2>3 DEF CommitTurn, RequestApproval, Publish, RecordEdge
  <2>. QED BY <1>1, <1>3, <2>1, <2>2, <2>3 DEF ExecuteStep
<1>4. CASE ControlStep(q)
  <2>1. CASE Requeue(q) \/ Reread(q) \/ Signal(q) \/ WriteInterrupted(q) \/ WriteCompacted(q)
    BY <2>1 DEF Requeue, Reread, Signal, WriteInterrupted, WriteCompacted
  <2>2. CASE \/ CancelDirectly(q) \/ TakeInput(q) \/ ResolveApproval(q) \/ ReadDecided(q)
             \/ WriteDecided(q)
    BY <2>2 DEF CancelDirectly, TakeInput, ResolveApproval, ReadDecided, WriteDecided
  <2>. QED BY <1>4, <2>1, <2>2 DEF ControlStep
<1>5. CASE SweepStep(q) \/ Request(q)
  BY <1>5, SweepLeaves, RequestLeaves
<1>6. CASE BeginSweep(q) \/ Abort(q) \/ Crash \/ (\E a \in Agents : MarkStale(q, a) \/ GoOffline(a))
           \/ UNCHANGED vars
  BY <1>6 DEF BeginSweep, Abort, Crash, MarkStale, GoOffline, vars
<1>. QED BY <1>2, <1>3, <1>4, <1>5, <1>6 DEF Next, Step

\* A canceled job is written with another status by a retry or a decision only.
LEMMA CanceledWritten ==
  ASSUME Inv, NEW q, Procs = {q}, Serial(h[q]), "answer" \notin Ops, [Next]_vars,
         NEW j \in Jobs, jobs[j].status = "canceled", jobs'[j].status # "canceled"
  PROVE  h[q].op \in {"retry", "decide"} /\ h[q].job = j
<1>. USE DEF session, codex, process
<1>0. jobs \in [Jobs -> Rows] /\ h \in [Procs -> Locals]
  BY DEF Inv, TypeOK
<1>1. ASSUME NEW row, Write(q, row), row.status # "canceled" => h[q].op \in {"retry", "decide"}
      PROVE  h[q].op \in {"retry", "decide"} /\ h[q].job = j
  BY <1>0, <1>1 DEF Write
<1>2. ASSUME NEW row, Write(q, row), jobs[h[q].job].status # "canceled"
      PROVE  FALSE
  BY <1>0, <1>2 DEF Write
<1>3. h[q].pc \in Queued => jobs[h[q].job].status # "canceled"
  BY DEF Serial, Fresh
<1>4. h[q].pc \in HasSnap => h[q].snap = jobs[h[q].job]
  BY DEF Serial, Fresh
<1>5. CASE Reroute(q) \/ Hold(q) \/ PauseJob(q) \/ CommitTurn(q)
  BY <1>2, <1>3, <1>5 DEF Reroute, Hold, PauseJob, CommitTurn, At, Queued
<1>6. CASE Requeue(q)
  <2>1. h[q].op = "retry" \/ jobs[h[q].job].status # "canceled"
    BY <1>6 DEF Requeue, At, Serial, Fresh
  <2>. QED BY <1>1, <1>2, <1>6, <2>1 DEF Requeue
<1>7. CASE WriteInterrupted(q) \/ CancelDirectly(q)
  <2>1. h[q].snap \in Rows
    BY <1>0, HandlerType DEF Locals
  <2>2. \A m \in Markers : Mark(h[q].snap, "canceled", m).status = "canceled"
    BY <2>1, MarkType DEF JobStatuses
  <2>3. PICK m \in Markers : Write(q, Mark(h[q].snap, "canceled", m))
    BY <1>7 DEF WriteInterrupted, CancelDirectly, Markers
  <2>. QED BY <1>0, <2>2, <2>3 DEF Write
<1>8. CASE WriteCompacted(q) \/ TakeInput(q)
  <2>1. /\ h[q].snap = jobs[h[q].job] /\ h[q].snap \in Rows
    BY <1>0, <1>4, <1>8, HandlerType DEF WriteCompacted, TakeInput, At, HasSnap, Locals
  <2>2. PICK row : Write(q, row) /\ (row.status = h[q].snap.status \/ h[q].snap.status \in Asked)
    <3>1. \A s \in JobStatuses : Mark(h[q].snap, s, "other").status = s
      BY <2>1, MarkType DEF Markers
    <3>2. CASE WriteCompacted(q)
      BY <2>1, <3>1, <3>2 DEF WriteCompacted, Rows
    <3>3. CASE TakeInput(q)
      BY <2>1, <3>1, <3>3 DEF TakeInput, Rows
    <3>. QED BY <1>8, <3>2, <3>3
  <2>3. jobs[h[q].job].status # "canceled"
    BY <1>0, <2>1, <2>2 DEF Write, Asked
  <2>. QED BY <1>2, <2>2, <2>3
<1>9. CASE WriteDecided(q)
  BY <1>1, <1>9 DEF WriteDecided, At, Serial, Decides, Deciding
<1>10. ASSUME NEW k \in Jobs, CreateJob(q, k) PROVE FALSE
  BY <1>0, <1>10 DEF CreateJob, NoRow
<1>11. ASSUME jobs' = jobs PROVE FALSE
  BY <1>11
<1>12. CASE Step(q)
  <2>1. CASE ScheduleStep(q)
    BY <1>5, <1>11, <2>1 DEF ScheduleStep, ScheduleRead, CheckRuntime
  <2>2. CASE ExecuteStep(q)
    <3>1. CASE \/ ExecuteRead(q) \/ Evaluate(q) \/ PauseSession(q) \/ LookupThread(q)
               \/ ResumeThread(q) \/ StartThread(q)
      BY <1>11, <3>1 DEF ExecuteRead, Evaluate, PauseSession, LookupThread, ResumeThread, StartThread
    <3>2. CASE \/ \E status \in Answers : StartTurn(q, status)
               \/ RequestApproval(q) \/ Publish(q) \/ RecordEdge(q)
      BY <1>11, <3>2 DEF StartTurn, RequestApproval, Publish, RecordEdge
    <3>. QED BY <1>5, <2>2, <3>1, <3>2 DEF ExecuteStep
  <2>3. CASE ControlStep(q)
    <3>1. CASE Reread(q) \/ Signal(q) \/ ResolveApproval(q) \/ ReadDecided(q)
      BY <1>11, <3>1 DEF Reread, Signal, ResolveApproval, ReadDecided
    <3>. QED BY <1>6, <1>7, <1>8, <1>9, <2>3, <3>1 DEF ControlStep
  <2>4. CASE SweepStep(q)
    BY <1>11, <2>4, SweepLeaves
  <2>. QED BY <1>12, <2>1, <2>2, <2>3, <2>4 DEF Step
<1>13. CASE Request(q)
  BY <1>10, <1>11, <1>13, RequestLeaves
<1>14. CASE BeginSweep(q) \/ Abort(q) \/ Crash \/ (\E a \in Agents : MarkStale(q, a) \/ GoOffline(a))
            \/ UNCHANGED vars
  BY <1>11, <1>14 DEF BeginSweep, Abort, Crash, MarkStale, GoOffline, vars
<1>. QED BY <1>12, <1>13, <1>14 DEF Next

\* With one handler at a time a turn is started for a queued job and no other:
\* what a sweep listed as queued is still queued when it comes to run it.
THEOREM TurnsFromQueued ==
  ASSUME NEW q, Procs = {q}, "answer" \notin Ops
  PROVE  Spec => TurnFromQueued
<1>1. Inv /\ Serial(h[q]) /\ [Next]_vars =>
        [turns' # turns => jobs[turns'[Len(turns')].job].status = "queued"]_vars
  BY TurnQueued
<1>. QED BY <1>1, SerialInvariance, PTL DEF Spec, TurnFromQueued

\* With one handler at a time a canceled job gets another status by a retry or by
\* the decision of an approval of that job, and in no other way.
THEOREM CanceledJobsStay ==
  ASSUME NEW q, Procs = {q}, "answer" \notin Ops
  PROVE  Spec => CanceledStays
<1>1. Inv /\ Serial(h[q]) /\ [Next]_vars =>
        [\A j \in Jobs : jobs[j].status = "canceled" /\ jobs[j]'.status # "canceled"
           => \E p \in Procs : h[p].op \in {"retry", "decide"} /\ h[p].job = j]_vars
  BY CanceledWritten
<1>. QED BY <1>1, SerialInvariance, PTL DEF Spec, CanceledStays

\* What requests do to the approvals: only a decision changes one that exists.
LEMMA ApprovalsKept ==
  ASSUME Inv, NEW q, Procs = {q}, Serial(h[q]), [Next]_vars,
         NEW i \in 1..Len(approvals), approvals[i].status # "pending"
  PROVE  approvals'[i] = approvals[i]
<1>. USE DEF session, codex, process
<1>0. approvals \in Seq(Approvals)
  BY DEF Inv, TypeOK
<1>1. CASE ResolveApproval(q)
  <2>1. h[q].approval # i
    BY <1>1 DEF ResolveApproval, At, Serial, Decides, Deciding
  <2>. QED BY <1>0, <1>1, <2>1 DEF ResolveApproval
<1>2. CASE RequestApproval(q)
  BY <1>0, <1>2 DEF RequestApproval
<1>3. CASE ScheduleStep(q)
  BY <1>3 DEF ScheduleStep, ScheduleRead, Reroute, Hold, CheckRuntime
<1>4. CASE ExecuteStep(q)
  <2>1. CASE ExecuteRead(q) \/ Evaluate(q) \/ PauseJob(q) \/ PauseSession(q)
    BY <2>1 DEF ExecuteRead, Evaluate, PauseJob, PauseSession
  <2>2. CASE LookupThread(q) \/ ResumeThread(q) \/ StartThread(q)
    BY <2>2 DEF LookupThread, ResumeThread, StartThread
  <2>3. CASE \/ \E status \in Answers : StartTurn(q, status)
             \/ CommitTurn(q) \/ Publish(q) \/ RecordEdge(q)
    BY <2>3 DEF StartTurn, CommitTurn, Publish, RecordEdge
  <2>. QED BY <1>2, <1>4, <2>1, <2>2, <2>3 DEF ExecuteStep
<1>5. CASE ControlStep(q)
  <2>1. CASE Requeue(q) \/ Reread(q) \/ Signal(q) \/ WriteInterrupted(q) \/ WriteCompacted(q)
    BY <2>1 DEF Requeue, Reread, Signal, WriteInterrupted, WriteCompacted
  <2>2. CASE CancelDirectly(q) \/ TakeInput(q) \/ ReadDecided(q) \/ WriteDecided(q)
    BY <2>2 DEF CancelDirectly, TakeInput, ReadDecided, WriteDecided
  <2>. QED BY <1>1, <1>5, <2>1, <2>2 DEF ControlStep
<1>6. CASE SweepStep(q) \/ Request(q)
  BY <1>6, SweepLeaves, RequestLeaves
<1>7. CASE BeginSweep(q) \/ Abort(q) \/ Crash \/ (\E a \in Agents : MarkStale(q, a) \/ GoOffline(a))
           \/ UNCHANGED vars
  BY <1>7 DEF BeginSweep, Abort, Crash, MarkStale, GoOffline, vars
<1>. QED BY <1>3, <1>4, <1>5, <1>6, <1>7 DEF Next, Step

\* With one handler at a time an approval is decided once: the check of its status
\* and the write that follows are not separated by another decision.  (Two
\* requests that run at once do decide it twice: see jobs_decided_once.cfg.)
THEOREM ApprovalsDecidedOnce ==
  ASSUME NEW q, Procs = {q}, "answer" \notin Ops
  PROVE  Spec => DecidedOnce
<1>1. Inv /\ Serial(h[q]) /\ [Next]_vars =>
        [\A i \in 1..Len(approvals) : approvals[i].status # "pending"
           => approvals'[i] = approvals[i]]_vars
  BY ApprovalsKept
<1>. QED BY <1>1, SerialInvariance, PTL DEF Spec, DecidedOnce

=============================================================================
