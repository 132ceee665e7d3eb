------------------------ MODULE MessageIntake_proofs ------------------------
(***************************************************************************)
(* Proofs about MessageIntake and the pools below it for every set of      *)
(* agents, rules, pools and requests.  The invariant has three parts.      *)
(* Types: the rows, and what a handler holds at each of its places.        *)
(* Capacity: the contexts in a pool, those a recovery is about to write    *)
(* back, and the handlers that have chosen the pool, are together within   *)
(* the limit.  Intake: how far each handler has come with its message, and *)
(* what is right of a message that nobody serves any more.                 *)
(***************************************************************************)
EXTENDS MessageIntake, FiniteSetTheorems, WellFoundedInduction, TLAPS

Asked(ops) == {r \in Requests : r.op \in ops}

\* What the rows and the local variables range over.
MaybeAgent == Agents \union {None}
Statuses == {"queued", "running", "input_required", "canceled"}
Senders == {r.sender : r \in Asked({"message"})}
Channels == {None, "general"} \union {r.channel : r \in Asked({"message"})}
                              \union {Rules[i].target : i \in DOMAIN Rules}
Prefs == {None} \union {r.pool : r \in Asked({"job", "assign"})}
CapSets == {{}} \union {r.caps : r \in Asked({"job", "assign"})}

JobRows == [agent : Agents, source : Nat, runtime : MaybeAgent, channel : Channels,
            status : Statuses]
AnyJobRow == [agent : MaybeAgent, source : Nat, runtime : MaybeAgent, channel : Channels,
              status : Statuses]
MaybeContext == ContextRows \union {NoContext}
MemberRow == [id : Nat, agent : Agents, role : Roles \union {"absent"}, lead : BOOLEAN,
              runtime : MaybeAgent, policy : PolicyRows]
MaybeMember == MemberRow \union {NotMember}
MentionRow == [agent : Agents, runtime : MaybeAgent]
MessageRow == [sender : Senders, command : Commands \union {None}, mentions : Seq(Agents)]

Locals ==
  [pc : Places, req : Requests \union {[op |-> None]},
   cont : {"idle", "record", "next_job", "schedule"},
   job : Nat, agent : MaybeAgent, source : Nat, channel : Channels,
   explicit : MaybeAgent, pref : Prefs, caps : CapSets, pool : PoolKeys \union {None},
   visited : SUBSET PoolKeys, fallback : BOOLEAN, runtime : MaybeAgent,
   exists : BOOLEAN, context : MaybeContext,
   message : Nat, target : MaybeAgent, todo : Seq(MentionRow), made : Seq(Nat),
   row : AnyJobRow, held : BOOLEAN, member : MaybeMember]

\* A job is being created or placed; a message that is stored is served; a job
\* that was created is scheduled.
Filling == Placing \union {"insert"}
Answering == {"session", "route", "mention", "next_job", "command", "permit", "target",
              "effect", "record"}
Dispatching == {"schedule", "reroute", "hold", "dispatch"}

\* What a handler holds at its place, with these jobs and so many messages.
PlaceSound(l, rows, count) ==
  /\ l.job \in {0} \union DOMAIN rows
  /\ l.message \in 0 .. count
  /\ \A i \in DOMAIN l.made : l.made[i] \in DOMAIN rows
  /\ l.pc \in Filling \union {"pending", "store_runtime"} => l.agent \in Agents
  /\ l.pc \in Filling => /\ l.source = l.message
                         /\ (l.message = 0) <=> (l.cont \in {"idle", "schedule"})
  /\ l.pc = "select" => l.pool \in PoolKeys /\ DefaultPool \notin l.visited
  /\ l.pc \in {"runtime", "insert", "read_context", "write_context"} => l.pool \in PoolKeys
  /\ l.pc = "insert" => l.job = 0
  /\ l.pc \in {"read_context", "write_context", "recover", "effect",
               "reroute", "hold", "dispatch"} => l.job # 0
  /\ l.pc = "recover" => l.context \in ContextRows
  /\ l.pc = "store_pool" => l.pool \in CustomPools
  /\ l.pc \in {"reroute", "hold", "dispatch"} =>
       /\ l.row.agent = rows[l.job].agent /\ l.row.source = rows[l.job].source
  /\ l.pc \in Dispatching => l.made # <<>>
  /\ l.pc \in {"preview", "sender", "store"} =>
       l.message = 0 /\ l.made = <<>> /\ l.req \in Asked({"message"})
  /\ l.pc \in Answering => l.message # 0
  /\ l.message # 0 => l.req \in Asked({"message"})
  /\ l.pc \in {"permit", "target"} => l.target \in Agents
  /\ l.pc \in {"join", "patch"} => l.member \in MemberRow

TablesOK ==
  /\ agents \in [Agents -> Roles \union {"absent"}]
  /\ runtimes \in [Agents -> RuntimeStatuses]
  /\ stored \subseteq CustomPools
  /\ jobs \in Seq(JobRows)
  /\ contexts \in Seq(MaybeContext) /\ Len(contexts) = Len(jobs)
  /\ members \in [Agents -> MaybeMember]
  /\ active \in [DOMAIN Rules -> BOOLEAN]
  /\ messages \in Seq(MessageRow)
  /\ signals \subseteq Control /\ events \subseteq Control
  /\ overlapped \in BOOLEAN /\ conflicts \in BOOLEAN /\ crashes \in Nat /\ requests \in Nat

Types ==
  /\ TablesOK
  /\ h \in [Handlers -> Locals]
  /\ \A p \in Handlers : PlaceSound(h[p], jobs, Len(messages))
----------------------------------------------------------------------------
\* The jobs whose context is in pool k, or is about to be again when a recovery
\* writes back what it read; and the handlers that have chosen pool k.
Recovering(k) ==
  {p \in Handlers : At(p, "recover") /\ h[p].context.pool = k /\ h[p].context.status = "active"}
Held(k) == PlacedIn(k) \union {h[p].job : p \in Recovering(k)}
Choosing(k) ==
  {p \in Handlers : h[p].pc \in {"runtime", "insert", "read_context", "write_context"}
                    /\ h[p].pool = k}
Slack == IF overlapped THEN Cardinality(Handlers) - 1 ELSE 0
Bounded(k) == Cardinality(Held(k)) + Cardinality(Choosing(k)) <= Row(k).max + Slack
OneAtATime == ~overlapped => \A p, q \in Handlers : At(p, "idle") \/ At(q, "idle") \/ p = q
Capacity ==
  /\ OneAtATime
  /\ \A k \in PoolKeys \ {DefaultPool} : Row(k).max > 0 => Bounded(k)
----------------------------------------------------------------------------
Made(m) == {j \in DOMAIN jobs : jobs[j].source = m}
Given(m) == {jobs[j].agent : j \in Made(m)}
Named(m) == {messages[m].mentions[i] : i \in DOMAIN messages[m].mentions}
Done(m) == {s \in signals : s.message = m}
Told(m) == {e \in events : e.message = m}
Image(s) == {s[i] : i \in DOMAIN s}
Wanted(todo) == {todo[i].agent : i \in DOMAIN todo}

\* What has come of message m so far is right.
MessageSound(m) ==
  /\ \A j, k \in Made(m) : jobs[j].agent = jobs[k].agent => j = k
  /\ \A e \in Done(m) \union Told(m) : e.command = messages[m].command
  /\ \A s, t \in Done(m) : s = t
  /\ IF messages[m].command = None THEN Given(m) \subseteq Named(m) ELSE Named(m) = {}
  /\ IF messages[m].command = "new"
       THEN /\ \A j, k \in Made(m) : j = k
            /\ \A e \in Told(m) : e.job \in Made(m)
            /\ Done(m) = {}
       ELSE Told(m) \subseteq Done(m)
  /\ messages[m].command \in Commands \ {"new"} => Made(m) = {}

\* Nothing is missing for message m.
Finished(m) ==
  /\ Named(m) \subseteq Given(m)
  /\ messages[m].command # None => (Done(m) = {} /\ Made(m) = {}) \/ Told(m) # {}

\* How far the handler with the locals l has come with its message.
ServeSound(l) ==
  LET m == l.message
      command == messages[m].command
  IN  l.message # 0 =>
  /\ l.pc \in Answering \union Filling \union Dispatching
  /\ command = l.req.command
  /\ l.pc \in {"session", "route", "mention", "command", "permit", "target", "effect"} =>
       Made(m) = {} /\ Done(m) = {} /\ Told(m) = {} /\ l.made = <<>>
  /\ l.pc \in {"session", "route"} => messages[m].mentions = <<>>
  /\ l.pc \in {"route", "mention"} => command = None
  /\ l.pc = "route" => l.todo # <<>>
  /\ l.pc = "mention" =>
       /\ Len(messages[m].mentions) < Len(l.todo)
       /\ \A i \in DOMAIN messages[m].mentions : messages[m].mentions[i] = l.todo[i].agent
  /\ l.pc \in {"command", "permit"} => command # None
  /\ l.pc \in {"target", "effect"} => command \in Commands \ {"new"}
  /\ l.pc \in Filling =>
       /\ l.cont = (IF command = "new" THEN "record" ELSE "next_job")
       /\ command \in {"new", None}
       /\ Made(m) = Image(l.made) \union ({l.job} \ {0})
       /\ IF l.job = 0 THEN l.agent \notin Given(m) ELSE l.agent \in Given(m)
       /\ Done(m) = {} /\ Told(m) = {}
       /\ command = "new" => l.made = <<>>
       /\ command = None => /\ {l.agent} \union Wanted(l.todo) \subseteq Named(m)
                            /\ Named(m) \subseteq Given(m) \union Wanted(l.todo) \union {l.agent}
  /\ l.pc = "next_job" =>
       /\ command = None
       /\ Made(m) = Image(l.made)
       /\ Wanted(l.todo) \subseteq Named(m)
       /\ Named(m) \subseteq Given(m) \union Wanted(l.todo)
       /\ l.made = <<>> => l.todo # <<>>
  /\ l.pc = "record" =>
       /\ command # None /\ Told(m) = {}
       /\ IF command = "new" THEN Made(m) = {l.job} /\ l.made = <<l.job>>
          ELSE [message |-> m, command |-> command, job |-> l.job] \in signals
  /\ l.pc \in Dispatching => Finished(m)

Excused(m) == crashes > 0 \/ conflicts \/ Serving(m) # {} \/ Finished(m)

Intake ==
  /\ \A j \in DOMAIN jobs : jobs[j].source <= Len(messages)
  /\ \A s \in signals \union events : s.message \in DOMAIN messages
  /\ \A p, q \in Handlers : h[p].message = h[q].message => p = q \/ h[p].message = 0
  /\ \A m \in DOMAIN messages : MessageSound(m) /\ Excused(m)
  /\ \A p \in Handlers : ServeSound(h[p])
----------------------------------------------------------------------------
(* Types *)

\* Rows are never removed, and a job keeps its agent and its message.
Grow ==
  /\ \A j \in DOMAIN jobs : /\ j \in DOMAIN jobs' /\ jobs'[j].agent = jobs[j].agent
                            /\ jobs'[j].source = jobs[j].source
  /\ Len(messages) <= Len(messages')

LEMMA StepTypes ==
  ASSUME Types, NEW p \in Handlers, NEW l \in Locals, h' = [h EXCEPT ![p] = l],
         TablesOK', Grow, PlaceSound(l, jobs', Len(messages'))
  PROVE  Types'
<1>1. h' \in [Handlers -> Locals]
  BY DEF Types
<1>2. Len(messages) \in Nat /\ Len(messages') \in Nat
  BY DEF Types, TablesOK
<1>3. ASSUME NEW q \in Handlers PROVE PlaceSound(h'[q], jobs', Len(messages'))
  <2>1. CASE q = p
    BY <2>1 DEF Types
  <2>2. CASE q # p
    <3>1. h'[q] = h[q] /\ PlaceSound(h[q], jobs, Len(messages))
      BY <2>2 DEF Types
    <3>2. PICK m : m = h[q]
      OBVIOUS
    <3>. QED BY <3>1, <3>2, <1>2 DEF PlaceSound, Grow
  <2>. QED BY <2>1, <2>2
<1>. QED BY <1>1, <1>3 DEF Types

LEMMA LocalTypes ==
  ASSUME Types, NEW p \in Handlers, NEW l \in Locals, h' = [h EXCEPT ![p] = l],
         UNCHANGED <<poolVars, intakeVars, overlapped, conflicts, crashes, requests>>,
         PlaceSound(l, jobs, Len(messages))
  PROVE  Types'
<1>1. TablesOK'
  BY DEF Types, TablesOK, poolVars, intakeVars
<1>2. Grow
  BY DEF Types, TablesOK, poolVars, intakeVars, Grow
<1>. QED BY <1>1, <1>2, StepTypes DEF poolVars, intakeVars

LEMMA IdleTypes ==
  Idle \in Locals /\ \A rows, count : count \in Nat => PlaceSound(Idle, rows, count)
<1>1. JobRow(None, 0, None, None) \in AnyJobRow
  BY DEF JobRow, AnyJobRow, MaybeAgent, Channels, Statuses
<1>2. NoContext \in MaybeContext /\ NotMember \in MaybeMember
  BY DEF MaybeContext, MaybeMember
<1>3. "idle" \in Places /\ {} \in CapSets /\ None \in Channels /\ None \in Prefs
  BY DEF Places, CapSets, Channels, Prefs
<1>4. Idle \in Locals
  BY <1>1, <1>2, <1>3 DEF Idle, Locals, MaybeAgent
<1>. QED BY <1>4 DEF Idle, PlaceSound, Filling, Placing, Answering, Dispatching

LEMMA ReturnTypes ==
  ASSUME Types, NEW p \in Handlers, Return(p), TablesOK', Grow
  PROVE  Types'
<1>1. Len(messages') \in Nat
  BY DEF TablesOK
<1>. QED BY <1>1, IdleTypes, StepTypes DEF Return, Become

\* A handler at its place.
LEMMA AtPlace ==
  ASSUME Types, NEW p \in Handlers
  PROVE  /\ h[p] \in Locals /\ PlaceSound(h[p], jobs, Len(messages))
         /\ Len(messages) \in Nat /\ Len(jobs) \in Nat /\ DOMAIN jobs = 1 .. Len(jobs)
BY DEF Types, TablesOK

LEMMA RowTypes ==
  ASSUME NEW k \in PoolKeys
  PROVE  Row(k) \in PoolRows /\ (k = DefaultPool => Row(k).fallback = None)
<1>1. CASE k = DefaultPool
  BY <1>1 DEF Row, Pool, PoolRows, DefaultPool
<1>2. CASE k = "isolated_work"
  BY <1>2 DEF Row, Pool, PoolRows, DefaultPool, PoolKeys, BuiltinPools
<1>3. CASE k \in CustomPools
  BY <1>3, PoolsAssumption DEF Row, BuiltinPools, DefaultPool
<1>. QED BY <1>1, <1>2, <1>3 DEF PoolKeys, BuiltinPools

LEMMA PoolKeysKnown ==
  ASSUME Types
  PROVE  Pools \subseteq PoolKeys /\ DefaultPool \in PoolKeys /\ None \notin Pools
BY PoolsAssumption DEF Types, TablesOK, Pools, PoolKeys, BuiltinPools, DefaultPool, None

LEMMA PlanTypes ==
  ASSUME Types, NEW p \in Handlers, PlanAssignment(p), UNCHANGED intakeVars
  PROVE  Types'
<1>. PICK g : g = h[p]
  OBVIOUS
<1>1. g \in Locals /\ PlaceSound(g, jobs, Len(messages)) /\ g.pc = "plan"
  BY AtPlace DEF PlanAssignment, At
<1>2. PICK l : l = [g EXCEPT !.pool = FirstPool(g.pref), !.visited = {}, !.fallback = FALSE,
                             !.pc = "select"]
  OBVIOUS
<1>3. FirstPool(g.pref) \in PoolKeys /\ "select" \in Places
  BY PoolKeysKnown DEF FirstPool, Places
<1>4. l \in Locals
  BY <1>1, <1>2, <1>3 DEF Locals
<1>5. PlaceSound(l, jobs, Len(messages))
  BY <1>1, <1>2, <1>3 DEF PlaceSound, Locals, Filling, Placing, Answering, Dispatching
<1>. QED BY <1>2, <1>4, <1>5, LocalTypes DEF PlanAssignment, Become, ghosts, counters

LEMMA NextPoolKnown ==
  ASSUME Types, NEW k \in PoolKeys, NEW visited, NextPool(k, visited) # None, k \in visited
  PROVE  /\ NextPool(k, visited) \in PoolKeys
         /\ k = DefaultPool => FALSE
BY PoolKeysKnown, RowTypes DEF NextPool

LEMMA SelectTypes ==
  ASSUME Types, NEW p \in Handlers, SelectPool(p), UNCHANGED intakeVars
  PROVE  Types'
<1>. PICK g : g = h[p]
  OBVIOUS
<1>1. g \in Locals /\ PlaceSound(g, jobs, Len(messages)) /\ g.pc = "select"
  BY AtPlace DEF SelectPool, At
<1>2. g.pool \in PoolKeys /\ DefaultPool \notin g.visited /\ g.visited \subseteq PoolKeys
  BY <1>1 DEF PlaceSound, Locals
<1>. PICK seen : seen = g.visited \union {g.pool}
  OBVIOUS
<1>. PICK next : next = NextPool(g.pool, seen)
  OBVIOUS
<1>3. PICK l : /\ \/ l = [g EXCEPT !.visited = seen, !.pc = "runtime"]
                  \/ l = [g EXCEPT !.visited = seen, !.pool = next, !.fallback = TRUE] /\ next # None
               /\ h' = [h EXCEPT ![p] = l]
  BY DEF SelectPool, Become
<1>4. seen \in SUBSET PoolKeys /\ "runtime" \in Places
  BY <1>2 DEF Places
<1>5. next # None => next \in PoolKeys /\ DefaultPool \notin seen
  BY <1>2, NextPoolKnown
<1>6. CASE l = [g EXCEPT !.visited = seen, !.pc = "runtime"]
  <2>1. g \in Locals
    BY <1>1
  <2>2. l \in Locals
    BY <2>1, <1>6, <1>4 DEF Locals
  <2>3. PlaceSound(l, jobs, Len(messages))
    BY <1>1, <1>2, <1>6 DEF PlaceSound, Locals, Filling, Placing, Answering, Dispatching
  <2>. QED BY <1>3, <2>2, <2>3, LocalTypes DEF SelectPool, ghosts, counters
<1>7. CASE l = [g EXCEPT !.visited = seen, !.pool = next, !.fallback = TRUE] /\ next # None
  <2>1. g \in Locals /\ next \in PoolKeys
    BY <1>1, <1>5, <1>7
  <2>2. l \in Locals
    <3>1. PICK a : a = [g EXCEPT !.visited = seen, !.pool = next]
      OBVIOUS
    <3>2. a \in Locals
      <4>1. PICK b : b = [g EXCEPT !.visited = seen]
        OBVIOUS
      <4>2. b \in Locals
        BY <2>1, <4>1, <1>4 DEF Locals
      <4>3. a = [b EXCEPT !.pool = next] /\ next \in PoolKeys \union {None}
        BY <2>1, <3>1, <4>1
      <4>. QED BY <4>2, <4>3 DEF Locals
    <3>3. l = [a EXCEPT !.fallback = TRUE]
      BY <1>7, <3>1
    <3>. QED BY <3>2, <3>3 DEF Locals
  <2>3. PlaceSound(l, jobs, Len(messages))
    BY <1>1, <1>5, <1>7, <2>1 DEF PlaceSound, Locals, Filling, Placing, Answering, Dispatching
  <2>. QED BY <1>3, <2>2, <2>3, LocalTypes DEF SelectPool, ghosts, counters
<1>. QED BY <1>3, <1>6, <1>7

LEMMA ResolveTypes ==
  ASSUME Types, NEW p \in Handlers, ResolveRuntime(p), UNCHANGED intakeVars
  PROVE  Types'
<1>. PICK g : g = h[p]
  OBVIOUS
<1>1. g \in Locals /\ PlaceSound(g, jobs, Len(messages)) /\ g.pc = "runtime"
  BY AtPlace DEF ResolveRuntime, At
<1>2. PICK runtime, pc :
        /\ runtime = Resolved(g.agent, Row(g.pool).kind, g.explicit)
        /\ pc = IF g.job = 0 THEN "insert" ELSE "read_context"
  OBVIOUS
<1>3. PICK l : l = [g EXCEPT !.runtime = runtime, !.pc = pc]
  OBVIOUS
<1>4. runtime \in MaybeAgent /\ pc \in Places
  BY <1>1, <1>2 DEF Resolved, MaybeAgent, Places, Locals
<1>5. l \in Locals
  BY <1>1, <1>3, <1>4 DEF Locals
<1>6. PlaceSound(l, jobs, Len(messages))
  BY <1>1, <1>2, <1>3, <1>4 DEF PlaceSound, Locals, Filling, Placing, Answering, Dispatching
<1>. QED BY <1>2, <1>3, <1>5, <1>6, LocalTypes DEF ResolveRuntime, Become, ghosts, counters

LEMMA ReadContextTypes ==
  ASSUME Types, NEW p \in Handlers, ReadContext(p), UNCHANGED intakeVars
  PROVE  Types'
<1>. PICK g : g = h[p]
  OBVIOUS
<1>1. g \in Locals /\ PlaceSound(g, jobs, Len(messages)) /\ g.pc = "read_context"
  BY AtPlace DEF ReadContext, At
<1>2. PICK e \in BOOLEAN : e = (ContextOf(g.job) # NoContext)
  OBVIOUS
<1>3. PICK l : l = [g EXCEPT !.exists = e, !.pc = "write_context"]
  OBVIOUS
<1>4. l \in Locals
  <2>1. "write_context" \in Places
    BY DEF Places
  <2>. QED BY <1>1, <1>3, <2>1 DEF Locals
<1>5. PlaceSound(l, jobs, Len(messages))
  BY <1>1, <1>3 DEF PlaceSound, Locals, Filling, Placing, Answering, Dispatching
<1>. QED BY <1>2, <1>3, <1>4, <1>5, LocalTypes DEF ReadContext, Become, ghosts, counters

LEMMA InsertTypes ==
  ASSUME Types, NEW p \in Handlers, InsertJob(p), UNCHANGED intakeVars
  PROVE  Types'
<1>. PICK g : g = h[p]
  OBVIOUS
<1>. PICK n : n = Len(jobs)
  OBVIOUS
<1>1. g \in Locals /\ PlaceSound(g, jobs, Len(messages)) /\ g.pc = "insert"
  BY AtPlace DEF InsertJob, At
<1>2. n \in Nat /\ DOMAIN jobs = 1 .. n /\ Len(contexts) = n
  BY DEF Types, TablesOK
<1>3. PICK runtime : runtime = IF g.explicit # None THEN g.explicit ELSE g.runtime
  OBVIOUS
<1>4. PICK row : row = JobRow(g.agent, g.source, runtime, g.channel)
  OBVIOUS
<1>5. PICK l : l = [g EXCEPT !.job = n + 1, !.explicit = runtime, !.pc = "plan"]
  OBVIOUS
<1>6. jobs' = Append(jobs, row) /\ contexts' = Append(contexts, NoContext) /\ h' = [h EXCEPT ![p] = l]
  BY <1>3, <1>4, <1>5 DEF InsertJob, Become
<1>7. runtime \in MaybeAgent /\ g.agent \in Agents /\ g.source \in Nat /\ g.channel \in Channels
  BY <1>1, <1>3 DEF Locals, PlaceSound, Filling
<1>8. row \in JobRows
  BY <1>4, <1>7 DEF JobRow, JobRows, Statuses
<1>9. jobs \in Seq(JobRows) /\ contexts \in Seq(MaybeContext) /\ NoContext \in MaybeContext
  BY DEF Types, TablesOK, MaybeContext
<1>10. /\ jobs' \in Seq(JobRows) /\ Len(jobs') = n + 1 /\ DOMAIN jobs' = 1 .. n + 1
       /\ \A j \in 1 .. n : jobs'[j] = jobs[j]
  BY <1>2, <1>6, <1>8, <1>9
<1>11. contexts' \in Seq(MaybeContext) /\ Len(contexts') = n + 1
  BY <1>2, <1>6, <1>9
<1>12. TablesOK'
  BY <1>10, <1>11 DEF Types, TablesOK, InsertJob, intakeVars, ghosts, counters
<1>13. Grow
  BY <1>2, <1>10 DEF Grow, intakeVars, Types, TablesOK
<1>14. l \in Locals
  <2>1. "plan" \in Places
    BY DEF Places
  <2>2. g \in Locals /\ n + 1 \in Nat /\ runtime \in MaybeAgent
    BY <1>1, <1>2, <1>7
  <2>. QED BY <1>5, <2>1, <2>2 DEF Locals
<1>15. PlaceSound(l, jobs', Len(messages'))
  <2>1. messages' = messages
    BY DEF intakeVars
  <2>. QED BY <1>1, <1>2, <1>5, <1>10, <2>1
              DEF PlaceSound, Locals, Filling, Placing, Answering, Dispatching
<1>. QED BY <1>6, <1>12, <1>13, <1>14, <1>15, StepTypes

\* A handler that has placed its job has what it needs to go on.
LEMMA PlacedTypes ==
  ASSUME NEW g \in Locals
  PROVE  /\ Placed(g) \in Locals
         /\ Placed(g).pc = g.cont /\ Placed(g).cont = "idle" /\ Placed(g).job = g.job
         /\ Placed(g).made = Append(g.made, g.job) /\ Placed(g).message = g.message
         /\ Placed(g).req = g.req /\ Placed(g).todo = g.todo /\ Placed(g).source = g.source
         /\ Placed(g).agent = g.agent
<1>1. PICK made : made = Append(g.made, g.job)
  OBVIOUS
<1>2. made \in Seq(Nat) /\ g.cont \in Places /\ "idle" \in {"idle", "record", "next_job", "schedule"}
  BY <1>1 DEF Locals, Places
<1>3. PICK a : a = [g EXCEPT !.pc = g.cont, !.cont = "idle"]
  OBVIOUS
<1>4. a \in Locals
  BY <1>2, <1>3 DEF Locals
<1>5. PICK b : b = [a EXCEPT !.made = made]
  OBVIOUS
<1>6. b \in Locals
  BY <1>2, <1>4, <1>5 DEF Locals
<1>7. PICK c : c = [b EXCEPT !.explicit = None, !.pref = None]
  OBVIOUS
<1>8. c \in Locals
  <2>1. None \in MaybeAgent /\ None \in Prefs
    BY DEF MaybeAgent, Prefs
  <2>. QED BY <1>6, <1>7, <2>1 DEF Locals
<1>9. PICK d : d = [c EXCEPT !.caps = {}, !.pool = None]
  OBVIOUS
<1>10. d \in Locals
  <2>1. {} \in CapSets /\ None \in PoolKeys \union {None}
    BY DEF CapSets
  <2>2. PICK e : e = [c EXCEPT !.caps = {}]
    OBVIOUS
  <2>3. e \in Locals
    BY <1>8, <2>1, <2>2 DEF Locals
  <2>4. d = [e EXCEPT !.pool = None]
    BY <1>9, <2>2
  <2>. QED BY <2>1, <2>3, <2>4 DEF Locals
<1>11. PICK e : e = [d EXCEPT !.visited = {}]
  OBVIOUS
<1>12. e \in Locals
  <2>1. {} \in SUBSET PoolKeys
    OBVIOUS
  <2>. QED BY <1>10, <1>11, <2>1 DEF Locals
<1>13. PICK f : f = [e EXCEPT !.fallback = FALSE]
  OBVIOUS
<1>14. f \in Locals
  BY <1>12, <1>13 DEF Locals
<1>15. PICK k : k = [f EXCEPT !.runtime = None]
  OBVIOUS
<1>16. k \in Locals
  <2>1. None \in MaybeAgent
    BY DEF MaybeAgent
  <2>. QED BY <1>14, <1>15, <2>1 DEF Locals
<1>17. [k EXCEPT !.exists = FALSE] \in Locals
  BY <1>16 DEF Locals
<1>18. Placed(g) = [k EXCEPT !.exists = FALSE]
  BY <1>1, <1>3, <1>5, <1>7, <1>9, <1>11, <1>13, <1>15 DEF Placed, Locals
<1>19. /\ k.pc = g.cont /\ k.cont = "idle" /\ k.job = g.job
       /\ k.made = made /\ k.message = g.message
       /\ k.req = g.req /\ k.todo = g.todo /\ k.source = g.source
       /\ k.agent = g.agent
  BY <1>3, <1>5, <1>7, <1>9, <1>11, <1>13, <1>15 DEF Locals
<1>. QED BY <1>1, <1>16, <1>17, <1>18, <1>19 DEF Locals

LEMMA PlannedTypes ==
  ASSUME NEW g \in Locals, g.pool \in PoolKeys, g.agent \in Agents
  PROVE  /\ Planned(g) \in ContextRows /\ Planned(g) # NoContext
         /\ Planned(g).pool = g.pool
<1>1. ContextStatus(g.runtime, g.fallback) \in {"active", "fallback", "waiting"}
  BY DEF ContextStatus
<1>2. g.runtime \in Agents \union {None} /\ (~g.fallback) \in BOOLEAN
  BY DEF Locals, MaybeAgent
<1>. QED BY <1>1, <1>2 DEF Planned, ContextRows, NoContext

LEMMA WriteTypes ==
  ASSUME Types, NEW p \in Handlers, WriteContext(p), UNCHANGED intakeVars
  PROVE  Types'
<1>. PICK g : g = h[p]
  OBVIOUS
<1>1. g \in Locals /\ PlaceSound(g, jobs, Len(messages)) /\ g.pc = "write_context"
  BY AtPlace DEF WriteContext, At
<1>2. g.pool \in PoolKeys /\ g.agent \in Agents /\ g.job \in DOMAIN jobs
  BY <1>1 DEF PlaceSound, Filling, Placing
<1>3. Grow
  BY DEF Grow, Types, TablesOK, WriteContext, intakeVars
<1>4. TablesOK'
  <2>1. contexts' \in Seq(MaybeContext) /\ Len(contexts') = Len(contexts)
    <3>1. PICK row : row = Planned(g)
      OBVIOUS
    <3>2. row \in MaybeContext
      BY <1>1, <1>2, <3>1, PlannedTypes DEF MaybeContext
    <3>3. contexts' = contexts \/ contexts' = [contexts EXCEPT ![g.job] = row]
      BY <3>1 DEF WriteContext, UpdateContext
    <3>4. contexts \in Seq(MaybeContext)
      BY DEF Types, TablesOK
    <3>. QED BY <3>2, <3>3, <3>4
  <2>. QED BY <2>1 DEF Types, TablesOK, WriteContext, intakeVars, ghosts, counters
<1>5. CASE Return(p)
  BY <1>3, <1>4, <1>5, ReturnTypes
<1>6. CASE Become(p, Placed(g)) /\ g.cont # "idle"
  <2>1. PICK l : l = Placed(g)
    OBVIOUS
  <2>2. l \in Locals
    BY <1>1, <2>1, PlacedTypes
  <2>3. /\ l.pc = g.cont /\ l.cont = "idle" /\ l.job = g.job /\ l.message = g.message
        /\ l.req = g.req /\ l.made = Append(g.made, g.job)
    BY <1>1, <2>1, PlacedTypes
  <2>4. g.made \in Seq(Nat) /\ g.job \in Nat
    BY <1>1 DEF Locals
  <2>5. l.made # <<>> /\ \A i \in DOMAIN l.made : l.made[i] \in DOMAIN jobs
    <3>1. PICK made, j : made = g.made /\ j = g.job
      OBVIOUS
    <3>2. made \in Seq(Nat) /\ j \in Nat /\ j \in DOMAIN jobs
      BY <1>2, <2>4, <3>1
    <3>3. \A i \in DOMAIN made : made[i] \in DOMAIN jobs
      BY <1>1, <3>1 DEF PlaceSound
    <3>4. \A i \in DOMAIN Append(made, j) : Append(made, j)[i] \in DOMAIN jobs
      <4>1. ASSUME NEW i \in DOMAIN Append(made, j) PROVE Append(made, j)[i] \in DOMAIN jobs
        <5>1. CASE i \in DOMAIN made
          BY <3>2, <3>3, <5>1
        <5>2. CASE i = Len(made) + 1
          BY <3>2, <5>2
        <5>. QED BY <3>2, <4>1, <5>1, <5>2
      <4>. QED BY <4>1
    <3>5. Append(made, j) # <<>>
      BY <3>2
    <3>. QED BY <2>3, <3>1, <3>4, <3>5
  <2>6. g.cont \in {"record", "next_job", "schedule"} /\ (g.message = 0 <=> g.cont = "schedule")
    BY <1>1, <1>6 DEF PlaceSound, Locals, Filling, Placing
  <2>7. PlaceSound(l, jobs, Len(messages))
    BY <1>1, <1>2, <2>3, <2>5, <2>6 DEF PlaceSound, Filling, Placing, Answering, Dispatching
  <2>. QED BY <1>3, <1>4, <1>6, <2>1, <2>2, <2>7, StepTypes DEF Become, WriteContext, intakeVars
<1>. QED BY <1>5, <1>6 DEF WriteContext

LEMMA RebindTypes ==
  ASSUME Types, NEW p \in Handlers, Rebind(p), UNCHANGED intakeVars
  PROVE  Types'
<1>. PICK g : g = h[p]
  OBVIOUS
<1>1. g \in Locals /\ PlaceSound(g, jobs, Len(messages)) /\ g.pc = "recover"
  BY AtPlace DEF Rebind, At
<1>2. g.context \in ContextRows
  BY <1>1 DEF PlaceSound
<1> DEFINE status == IF g.context.status = "active" THEN "active" ELSE "recovered"
<1> DEFINE row == [g.context EXCEPT !.runtime = g.context.agent, !.status = status]
<1>3. /\ status \in {"active", "recovered"}
      /\ row = [g.context EXCEPT !.runtime = g.context.agent, !.status = status]
      /\ \/ contexts' = contexts
         \/ contexts' = [contexts EXCEPT ![g.job] = row]
  BY DEF Rebind, UpdateContext
<1> HIDE DEF status, row
<1>4. row \in MaybeContext
  BY <1>2, <1>3 DEF MaybeContext, ContextRows
<1>5. contexts' \in Seq(MaybeContext) /\ Len(contexts') = Len(contexts)
  <2>1. contexts \in Seq(MaybeContext)
    BY DEF Types, TablesOK
  <2>. QED BY <1>3, <1>4, <2>1
<1>6. TablesOK'
  BY <1>5 DEF Types, TablesOK, Rebind, intakeVars, ghosts, counters
<1>7. Grow
  BY DEF Grow, Types, TablesOK, Rebind, intakeVars
<1>. QED BY <1>6, <1>7, ReturnTypes DEF Rebind

LEMMA StoreTypes ==
  ASSUME Types, NEW p \in Handlers, StorePool(p) \/ StoreRuntime(p), UNCHANGED intakeVars
  PROVE  Types'
<1>1. CASE StorePool(p)
  <2>1. h[p].pool \in CustomPools
    BY <1>1, AtPlace DEF PlaceSound, StorePool, At
  <2>2. TablesOK' /\ Grow
    BY <1>1, <2>1 DEF Types, TablesOK, StorePool, InsertPool, intakeVars, ghosts, counters, Grow
  <2>. QED BY <1>1, <2>2, ReturnTypes DEF StorePool
<1>2. CASE StoreRuntime(p)
  <2>1. runtimes' = [runtimes EXCEPT ![h[p].agent] = "starting"] /\ "starting" \in RuntimeStatuses
    BY <1>2 DEF StoreRuntime, InsertRuntime, RuntimeStatuses, Dispatchable
  <2>2. TablesOK' /\ Grow
    <3>1. runtimes' \in [Agents -> RuntimeStatuses]
      BY <2>1 DEF Types, TablesOK
    <3>. QED BY <1>2, <3>1 DEF Types, TablesOK, StoreRuntime, intakeVars, ghosts, counters, Grow
  <2>. QED BY <1>2, <2>2, ReturnTypes DEF StoreRuntime
<1>. QED BY <1>1, <1>2

\* A request that begins is at a place that holds what its handler needs.
LEMMA BeginTypes ==
  ASSUME Types, NEW p \in Handlers, NEW r \in Requests, NEW l \in Locals,
         h' = [h EXCEPT ![p] = [l EXCEPT !.req = r]],
         TablesOK', Grow, PlaceSound(l, jobs', Len(messages')),
         l.message = 0, l.pc \notin {"preview", "sender", "store"}
  PROVE  Types'
<1>. PICK m : m = [l EXCEPT !.req = r]
  OBVIOUS
<1>1. m \in Locals
  BY DEF Locals
<1>2. PlaceSound(m, jobs', Len(messages'))
  BY DEF PlaceSound, Asked, Locals, Filling, Placing, Answering, Dispatching
<1>. QED BY <1>1, <1>2, StepTypes

LEMMA BeginLocal ==
  ASSUME Types, NEW p \in Handlers, NEW r, NEW l \in Locals, Begin(p, r, l),
         UNCHANGED <<poolVars, intakeVars>>, PlaceSound(l, jobs, Len(messages)),
         l.message = 0, l.pc \notin {"preview", "sender", "store"}
  PROVE  Types'
<1>1. TablesOK'
  BY DEF Types, TablesOK, poolVars, intakeVars, Begin
<1>2. Grow
  BY DEF Types, TablesOK, poolVars, intakeVars, Grow
<1>3. jobs' = jobs /\ messages' = messages /\ r \in Requests
  BY DEF poolVars, intakeVars, Begin
<1>. QED BY <1>1, <1>2, <1>3, BeginTypes DEF Begin, Become

LEMMA BeginIdle ==
  ASSUME Types, NEW p \in Handlers, NEW r, Begin(p, r, Idle), TablesOK', Grow
  PROVE  Types'
<1>1. Len(messages') \in Nat
  BY DEF TablesOK
<1>2. Idle.message = 0 /\ Idle.pc \notin {"preview", "sender", "store"}
  BY DEF Idle
<1>. QED BY <1>1, <1>2, IdleTypes, BeginTypes DEF Begin, Become

LEMMA AssignTypes ==
  ASSUME Types, NEW p \in Handlers, NEW r \in Requests, Assign(p, r), UNCHANGED intakeVars
  PROVE  Types'
<1>1. PICK i : i = Idle
  OBVIOUS
<1>2. i \in Locals /\ PlaceSound(i, jobs, Len(messages)) /\ i.message = 0 /\ i.source = 0 /\ i.cont = "idle"
  BY <1>1, IdleTypes, AtPlace DEF Idle
<1>3. PICK j, a, pool, caps : j = r.job /\ a = jobs[j].agent /\ pool = r.pool /\ caps = r.caps
  OBVIOUS
<1>4. j \in DOMAIN jobs /\ j \in Nat /\ a \in Agents /\ a \in MaybeAgent
  <2>1. jobs \in Seq(JobRows) /\ j \in DOMAIN jobs
    BY <1>3 DEF Assign, Types, TablesOK
  <2>2. j \in Nat /\ jobs[j] \in JobRows
    BY <2>1
  <2>. QED BY <1>3, <2>1, <2>2 DEF JobRows, MaybeAgent
<1>5. pool \in Prefs /\ caps \in CapSets /\ "plan" \in Places
  BY <1>3 DEF Assign, Prefs, CapSets, Asked, Places
<1>6. PICK k : k = [i EXCEPT !.job = j, !.agent = a]
  OBVIOUS
<1>7. k \in Locals
  BY <1>2, <1>4, <1>6 DEF Locals
<1>8. PICK l : l = [k EXCEPT !.pref = pool, !.caps = caps, !.pc = "plan"]
  OBVIOUS
<1>9. l \in Locals
  BY <1>5, <1>7, <1>8 DEF Locals
<1>10. Begin(p, r, l)
  BY <1>1, <1>3, <1>6, <1>8 DEF Assign
<1>11. /\ l.pc = "plan" /\ l.job = j /\ l.agent = a /\ l.message = 0 /\ l.source = 0
       /\ l.cont = "idle" /\ l.made = i.made
  BY <1>2, <1>6, <1>8 DEF Locals
<1>12. PlaceSound(l, jobs, Len(messages))
  BY <1>2, <1>4, <1>11 DEF PlaceSound, Filling, Placing, Answering, Dispatching
<1>. QED BY <1>9, <1>10, <1>11, <1>12, BeginLocal DEF Assign

LEMMA RecoverTypes ==
  ASSUME Types, NEW p \in Handlers, NEW r \in Requests, Recover(p, r), UNCHANGED intakeVars
  PROVE  Types'
<1>1. PICK i : i = Idle
  OBVIOUS
<1>2. i \in Locals /\ PlaceSound(i, jobs, Len(messages)) /\ i.message = 0
  BY <1>1, IdleTypes, AtPlace DEF Idle
<1>3. PICK j, c : j = r.job /\ c = ContextOf(j)
  OBVIOUS
<1>4. j \in DOMAIN jobs /\ j \in Nat /\ j # 0 /\ c \in ContextRows
  <2>1. contexts \in Seq(MaybeContext) /\ DOMAIN contexts = DOMAIN jobs /\ jobs \in Seq(JobRows)
    BY DEF Types, TablesOK
  <2>. QED BY <1>3, <2>1 DEF Recover, ContextOf, MaybeContext
<1>5. PICK l : l = [i EXCEPT !.job = j, !.context = c, !.pc = "recover"]
  OBVIOUS
<1>6. l \in Locals
  <2>1. c \in MaybeContext /\ "recover" \in Places
    BY <1>4 DEF MaybeContext, Places
  <2>. QED BY <1>2, <1>4, <1>5, <2>1 DEF Locals
<1>7. PlaceSound(l, jobs, Len(messages)) /\ l.message = 0 /\ l.pc = "recover"
  BY <1>2, <1>4, <1>5 DEF PlaceSound, Locals, Filling, Placing, Answering, Dispatching
<1>8. Begin(p, r, l)
  BY <1>1, <1>3, <1>5 DEF Recover
<1>. QED BY <1>6, <1>7, <1>8, BeginLocal DEF Recover

LEMMA PoolTypes ==
  ASSUME Types, NEW p \in Handlers, NEW r \in Requests,
         CreatePool(p, r) \/ CreateAgent(p, r) \/ PatchAgent(p, r), UNCHANGED intakeVars
  PROVE  Types'
<1>1. PICK i : i = Idle
  OBVIOUS
<1>2. i \in Locals /\ PlaceSound(i, jobs, Len(messages)) /\ i.message = 0
  BY <1>1, IdleTypes, AtPlace DEF Idle
<1>3. CASE CreatePool(p, r)
  <2>1. PICK key : key = r.key
    OBVIOUS
  <2>2. key \in CustomPools /\ key \in PoolKeys \union {None} /\ "store_pool" \in Places
    BY <1>3, <2>1, RequestsAssumption DEF CreatePool, PoolKeys, Places
  <2>3. PICK l : l = [i EXCEPT !.pool = key, !.pc = "store_pool"]
    OBVIOUS
  <2>4. l \in Locals
    BY <1>2, <2>2, <2>3 DEF Locals
  <2>5. PlaceSound(l, jobs, Len(messages)) /\ l.message = 0 /\ l.pc = "store_pool"
    BY <1>2, <2>2, <2>3 DEF PlaceSound, Locals, Filling, Placing, Answering, Dispatching
  <2>6. Begin(p, r, l)
    BY <1>1, <1>3, <2>1, <2>3 DEF CreatePool
  <2>. QED BY <1>3, <2>4, <2>5, <2>6, BeginLocal DEF CreatePool
<1>4. CASE CreateAgent(p, r)
  <2>1. PICK a : a = r.agent
    OBVIOUS
  <2>2. a \in Agents /\ a \in MaybeAgent /\ "store_runtime" \in Places
    BY <1>4, <2>1, RequestsAssumption DEF CreateAgent, MaybeAgent, Places
  <2>3. PICK l : l = [i EXCEPT !.agent = a, !.pc = "store_runtime"]
    OBVIOUS
  <2>4. l \in Locals
    BY <1>2, <2>2, <2>3 DEF Locals
  <2>5. PlaceSound(l, jobs, Len(messages)) /\ l.message = 0 /\ l.pc = "store_runtime"
    BY <1>2, <2>2, <2>3 DEF PlaceSound, Locals, Filling, Placing, Answering, Dispatching
  <2>6. Begin(p, r, l)
    BY <1>1, <1>4, <2>1, <2>3 DEF CreateAgent
  <2>7. agents' \in [Agents -> Roles \union {"absent"}]
    BY <1>4, <2>1, <2>2, AgentsAssumption DEF CreateAgent, InsertAgent, Types, TablesOK
  <2>8. TablesOK'
    BY <1>4, <2>7 DEF Types, TablesOK, CreateAgent, Begin, intakeVars
  <2>9. Grow /\ jobs' = jobs /\ messages' = messages
    BY <1>4 DEF Types, TablesOK, Grow, CreateAgent, intakeVars
  <2>. QED BY <2>4, <2>5, <2>6, <2>8, <2>9, BeginTypes DEF Begin, Become
<1>5. CASE PatchAgent(p, r)
  <2>1. agents' \in [Agents -> Roles \union {"absent"}]
    BY <1>5, RequestsAssumption DEF PatchAgent, UpdateAgent, Types, TablesOK
  <2>2. TablesOK'
    BY <1>5, <2>1 DEF Types, TablesOK, PatchAgent, Begin, intakeVars
  <2>3. Grow
    BY <1>5 DEF Types, TablesOK, Grow, PatchAgent, intakeVars
  <2>. QED BY <1>5, <2>2, <2>3, BeginIdle DEF PatchAgent
<1>. QED BY <1>3, <1>4, <1>5

\* A member row that is made or read.
LEMMA MemberTypes ==
  ASSUME NEW n \in Nat, NEW a \in Agents, NEW role \in Roles \union {"absent"},
         NEW lead \in BOOLEAN, NEW runtime \in MaybeAgent, NEW policy \in PolicyRows
  PROVE  [id |-> n, agent |-> a, role |-> role, lead |-> lead, runtime |-> runtime,
          policy |-> policy] \in MemberRow
BY DEF MemberRow

LEMMA CreatedPolicy ==
  ASSUME NEW role, NEW lead, NEW grant \in SUBSET Rights, NEW deny
  PROVE  PolicyOnCreate(role, lead, grant, deny) \in PolicyRows
<1>1. DefaultPolicy(role, lead) \subseteq Rights
  <2>1. CASE lead \/ role = "planner"
    BY <2>1 DEF DefaultPolicy, Rights
  <2>2. CASE ~lead /\ role = "builder"
    BY <2>2 DEF DefaultPolicy, Rights
  <2>3. CASE ~lead /\ role = "reviewer"
    BY <2>3 DEF DefaultPolicy, Rights
  <2>4. CASE ~(lead \/ role = "planner") /\ ~(~lead /\ role = "builder") /\ ~(~lead /\ role = "reviewer")
    BY <2>4 DEF DefaultPolicy, Rights
  <2>. QED BY <2>1, <2>2, <2>3, <2>4
<1>2. PICK rights \in SUBSET Rights : rights = (DefaultPolicy(role, lead) \ deny) \union grant
  BY <1>1
<1>3. PolicyOnCreate(role, lead, grant, deny) = [stored |-> TRUE, rights |-> rights]
  BY <1>2 DEF PolicyOnCreate, Policy
<1>. QED BY <1>3 DEF PolicyRows

LEMMA UpdatedPolicy ==
  ASSUME NEW role, NEW row \in MemberRow, NEW named, NEW grant \in SUBSET Rights, NEW deny
  PROVE  PolicyOnUpdate(role, row, named, grant, deny) \in PolicyRows
<1>1. PICK base : base = IF ~named /\ row.policy.stored THEN row.policy.rights
                         ELSE DefaultPolicy(role, row.lead)
  OBVIOUS
<1>2. base \subseteq Rights
  <2>1. row.policy.rights \subseteq Rights
    BY DEF MemberRow, PolicyRows
  <2>2. PolicyOnCreate(role, row.lead, {}, {}) \in PolicyRows
    BY CreatedPolicy
  <2>3. DefaultPolicy(role, row.lead) \subseteq Rights
    BY <2>2 DEF PolicyOnCreate, Policy, PolicyRows
  <2>. QED BY <1>1, <2>1, <2>3
<1>3. PICK rights \in SUBSET Rights : rights = (base \ deny) \union grant
  BY <1>2
<1>4. PolicyOnUpdate(role, row, named, grant, deny) = [stored |-> TRUE, rights |-> rights]
  BY <1>1, <1>3 DEF PolicyOnUpdate, Policy
<1>. QED BY <1>4 DEF PolicyRows

\* Whoever has joined has a row.
LEMMA JoinedRow ==
  ASSUME Types, NEW a \in Agents, Joined(a)
  PROVE  members[a] \in MemberRow
BY AgentsAssumption DEF Types, TablesOK, Joined, MaybeMember, NotMember

\* The row that a request to join, to change or to leave carries on.
LEMMA MemberRead ==
  ASSUME Types, NEW p \in Handlers, NEW r \in Requests,
         Join(p, r) \/ Patch(p, r) \/ Leave(p, r)
  PROVE  \E pc \in {"join", "patch", "leave"}, row \in MemberRow :
           /\ Begin(p, r, [Idle EXCEPT !.member = row, !.pc = pc])
           /\ UNCHANGED <<poolVars, intakeVars>>
<1>1. CASE Join(p, r)
  <2>1. PICK a, grant, deny, lead, n, role :
          /\ a = r.agent /\ grant = r.grant /\ deny = r.deny /\ n = requests + 1
          /\ lead = (a = Lead)
          /\ role = IF r.role # None THEN r.role ELSE DefaultRole(agents[a], lead)
    OBVIOUS
  <2>2. a \in Agents /\ grant \in SUBSET Rights /\ r.role \in Roles \union {None} /\ lead \in BOOLEAN
    BY <1>1, <2>1, RequestsAssumption DEF Join
  <2>3. role \in Roles \union {"absent"} /\ n \in Nat
    <3>1. agents[a] \in Roles \union {"absent"} /\ requests \in Nat
      BY <2>2 DEF Types, TablesOK
    <3>. QED BY <2>1, <2>2, <3>1 DEF DefaultRole, Roles
  <2>4. PICK runtime : runtime = IF runtimes[a] = "absent" THEN None ELSE a
    OBVIOUS
  <2>5. PICK policy \in PolicyRows : policy = PolicyOnCreate(role, lead, grant, deny)
    BY <2>2, CreatedPolicy
  <2>6. runtime \in MaybeAgent
    BY <2>2, <2>4 DEF MaybeAgent
  <2>7. Member(n, a, role, grant, deny) =
          [id |-> n, agent |-> a, role |-> role, lead |-> lead, runtime |-> runtime,
           policy |-> policy]
    BY <2>1, <2>4, <2>5 DEF Member
  <2>8. PICK row \in MemberRow : row = Member(n, a, role, grant, deny)
    BY <2>2, <2>3, <2>5, <2>6, <2>7, MemberTypes
  <2>9. Begin(p, r, [Idle EXCEPT !.member = row, !.pc = "join"])
    BY <1>1, <2>1, <2>8 DEF Join
  <2>. QED BY <1>1, <2>9 DEF Join
<1>2. CASE Patch(p, r)
  <2>1. PICK a, old, named, grant, deny, role :
          /\ a = r.agent /\ old = members[a] /\ grant = r.grant /\ deny = r.deny
          /\ named = (r.role # None)
          /\ role = IF named THEN r.role ELSE DefaultRole(agents[a], old.lead)
    OBVIOUS
  <2>2. a \in Agents /\ grant \in SUBSET Rights /\ r.role \in Roles \union {None} /\ Joined(a)
    BY <1>2, <2>1, RequestsAssumption DEF Patch
  <2>3. old \in MemberRow
    BY <2>1, <2>2, JoinedRow
  <2>4. role \in Roles \union {"absent"}
    <3>1. agents[a] \in Roles \union {"absent"}
      BY <2>2 DEF Types, TablesOK
    <3>. QED BY <2>1, <2>2, <3>1 DEF DefaultRole, Roles
  <2>5. PICK policy \in PolicyRows : policy = PolicyOnUpdate(role, old, named, grant, deny)
    BY <2>2, <2>3, UpdatedPolicy
  <2>6. PICK row : row = [old EXCEPT !.role = role, !.policy = policy]
    OBVIOUS
  <2>7. row \in MemberRow
    BY <2>3, <2>4, <2>5, <2>6 DEF MemberRow
  <2>8. Begin(p, r, [Idle EXCEPT !.member = row, !.pc = "patch"])
    BY <1>2, <2>1, <2>5, <2>6 DEF Patch
  <2>. QED BY <1>2, <2>7, <2>8 DEF Patch
<1>3. CASE Leave(p, r)
  <2>1. PICK a : a = r.agent
    OBVIOUS
  <2>2. a \in Agents /\ Joined(a)
    BY <1>3, <2>1, RequestsAssumption DEF Leave
  <2>3. PICK row \in MemberRow : row = members[a]
    BY <2>2, JoinedRow
  <2>4. Begin(p, r, [Idle EXCEPT !.member = row, !.pc = "leave"])
    BY <1>3, <2>1, <2>3 DEF Leave
  <2>. QED BY <1>3, <2>4 DEF Leave
<1>. QED BY <1>1, <1>2, <1>3

LEMMA MemberRequestTypes ==
  ASSUME Types, NEW p \in Handlers, NEW r \in Requests,
         Join(p, r) \/ Patch(p, r) \/ Leave(p, r)
  PROVE  Types'
<1>1. PICK i : i = Idle
  OBVIOUS
<1>2. i \in Locals /\ PlaceSound(i, jobs, Len(messages)) /\ i.message = 0
  BY <1>1, IdleTypes, AtPlace DEF Idle
<1>3. PICK pc \in {"join", "patch", "leave"}, row \in MemberRow :
        /\ Begin(p, r, [i EXCEPT !.member = row, !.pc = pc])
        /\ UNCHANGED <<poolVars, intakeVars>>
  BY <1>1, MemberRead
<1>4. PICK l : l = [i EXCEPT !.member = row, !.pc = pc]
  OBVIOUS
<1>5. l \in Locals
  <2>1. pc \in Places /\ row \in MaybeMember
    BY DEF Places, MaybeMember
  <2>. QED BY <1>2, <1>4, <2>1 DEF Locals
<1>6. PlaceSound(l, jobs, Len(messages)) /\ l.message = 0 /\ l.pc \in {"join", "patch", "leave"}
  BY <1>2, <1>4 DEF PlaceSound, Locals, Filling, Placing, Answering, Dispatching
<1>. QED BY <1>3, <1>4, <1>5, <1>6, BeginLocal

\* The locals of a handler that is about to create a job.
LEMMA CreatingTypes ==
  ASSUME NEW g \in Locals, NEW a \in Agents, NEW source \in Nat, NEW channel \in Channels,
         NEW explicit \in MaybeAgent, NEW cont \in {"idle", "record", "next_job", "schedule"},
         NEW l, l = Creating(g, a, source, channel, explicit, cont)
  PROVE  /\ l \in Locals /\ l.pc = "plan" /\ l.agent = a /\ l.source = source
         /\ l.cont = cont /\ l.job = 0 /\ l.channel = channel
         /\ l.message = g.message /\ l.req = g.req /\ l.todo = g.todo /\ l.made = g.made
<1>1. PICK b : b = [g EXCEPT !.agent = a, !.source = source, !.channel = channel]
  OBVIOUS
<1>2. b \in Locals
  <2>1. a \in MaybeAgent
    BY DEF MaybeAgent
  <2>. QED BY <1>1, <2>1 DEF Locals
<1>3. PICK c : c = [b EXCEPT !.explicit = explicit, !.cont = cont]
  OBVIOUS
<1>4. c \in Locals
  BY <1>2, <1>3 DEF Locals
<1>5. PICK d : d = [c EXCEPT !.job = 0, !.pc = "plan"]
  OBVIOUS
<1>6. d \in Locals
  <2>1. "plan" \in Places
    BY DEF Places
  <2>. QED BY <1>4, <1>5, <2>1 DEF Locals
<1>7. /\ d.pc = "plan" /\ d.agent = a /\ d.source = source
      /\ d.cont = cont /\ d.job = 0 /\ d.channel = channel
      /\ d.message = g.message /\ d.req = g.req /\ d.todo = g.todo /\ d.made = g.made
  BY <1>1, <1>3, <1>5 DEF Locals
<1>8. l = d
  BY <1>1, <1>3, <1>5 DEF Creating
<1>. QED BY <1>6, <1>7, <1>8

LEMMA PostTypes ==
  ASSUME Types, NEW p \in Handlers, NEW r \in Requests, PostMessage(p, r)
  PROVE  Types'
<1>1. PICK i : i = Idle
  OBVIOUS
<1>2. i \in Locals /\ PlaceSound(i, jobs, Len(messages)) /\ i.message = 0 /\ i.made = <<>>
  BY <1>1, IdleTypes, AtPlace DEF Idle
<1>3. PICK l : l = [i EXCEPT !.pc = "preview", !.req = r]
  OBVIOUS
<1>4. l \in Locals
  <2>1. "preview" \in Places
    BY DEF Places
  <2>. QED BY <1>2, <1>3, <2>1 DEF Locals
<1>5. PlaceSound(l, jobs, Len(messages))
  <2>1. r \in Asked({"message"})
    BY DEF PostMessage, Asked
  <2>. QED BY <1>2, <1>3, <2>1 DEF PlaceSound, Locals, Filling, Placing, Answering, Dispatching
<1>6. h' = [h EXCEPT ![p] = l]
  BY <1>1, <1>3 DEF PostMessage, Begin, Become
<1>7. TablesOK'
  BY DEF Types, TablesOK, PostMessage, poolVars, intakeVars, Begin
<1>8. Grow /\ jobs' = jobs /\ messages' = messages
  BY DEF Types, TablesOK, PostMessage, poolVars, intakeVars, Grow
<1>. QED BY <1>4, <1>5, <1>6, <1>7, <1>8, StepTypes

LEMMA CreateJobTypes ==
  ASSUME Types, NEW p \in Handlers, NEW r \in Requests, CreateJob(p, r)
  PROVE  Types'
<1>1. PICK i : i = Idle
  OBVIOUS
<1>2. /\ i \in Locals /\ PlaceSound(i, jobs, Len(messages)) /\ i.message = 0 /\ i.made = <<>>
  BY <1>1, IdleTypes, AtPlace DEF Idle
<1>3. PICK a, pool, caps : a = r.agent /\ pool = r.pool /\ caps = r.caps
  OBVIOUS
<1>4. a \in Agents /\ pool \in Prefs /\ caps \in CapSets
  BY <1>3, RequestsAssumption DEF CreateJob, Prefs, CapSets, Asked
<1>5. PICK k : k = Creating(i, a, 0, "general", None, "schedule")
  OBVIOUS
<1>6. /\ k \in Locals /\ k.pc = "plan" /\ k.agent = a /\ k.source = 0 /\ k.cont = "schedule"
      /\ k.job = 0 /\ k.message = 0 /\ k.made = <<>>
  <2>1. "general" \in Channels /\ None \in MaybeAgent
    BY DEF Channels, MaybeAgent
  <2>. QED BY <1>2, <1>4, <1>5, <2>1, CreatingTypes
<1>7. PICK l : l = [k EXCEPT !.pref = pool, !.caps = caps]
  OBVIOUS
<1>8. l \in Locals
  BY <1>4, <1>6, <1>7 DEF Locals
<1>9. PlaceSound(l, jobs, Len(messages)) /\ l.message = 0 /\ l.pc = "plan"
  <2>1. /\ l.pc = "plan" /\ l.agent = a /\ l.source = 0 /\ l.cont = "schedule"
        /\ l.job = 0 /\ l.message = 0 /\ l.made = <<>>
    BY <1>6, <1>7 DEF Locals
  <2>2. Len(messages) \in Nat
    BY AtPlace
  <2>. QED BY <1>4, <2>1, <2>2 DEF PlaceSound, Filling, Placing, Answering, Dispatching
<1>10. Begin(p, r, l)
  BY <1>1, <1>3, <1>5, <1>7 DEF CreateJob
<1>. QED BY <1>8, <1>9, <1>10, BeginLocal DEF CreateJob

LEMMA BeatTypes ==
  ASSUME Types, NEW p \in Handlers, NEW r \in Requests, Heartbeat(p, r)
  PROVE  Types'
<1>1. PICK i : i = Idle
  OBVIOUS
<1>2. i \in Locals /\ PlaceSound(i, jobs, Len(messages)) /\ i.message = 0 /\ i.made = <<>>
  BY <1>1, IdleTypes, AtPlace DEF Idle
<1>3. PICK a : a = r.agent
  OBVIOUS
<1>4. a \in Agents /\ a \in MaybeAgent /\ "pending" \in Places
  BY <1>3, RequestsAssumption DEF Heartbeat, MaybeAgent, Places
<1>5. runtimes' \in [Agents -> RuntimeStatuses]
  <2>1. PICK status \in RuntimeStatuses : runtimes' = [runtimes EXCEPT ![a] = status]
    BY <1>3, RequestsAssumption DEF Heartbeat, UpdateRuntime
  <2>. QED BY <2>1 DEF Types, TablesOK
<1>6. PICK l : /\ l = [i EXCEPT !.agent = a, !.pc = "pending"] \/ l = i
               /\ h' = [h EXCEPT ![p] = [l EXCEPT !.req = r]]
  BY <1>1, <1>3 DEF Heartbeat, Begin, Become
<1>7. l \in Locals
  <2>1. i \in Locals
    BY <1>2
  <2>2. [i EXCEPT !.agent = a, !.pc = "pending"] \in Locals
    BY <1>4, <2>1 DEF Locals
  <2> QED BY <1>6, <2>1, <2>2
<1>8. PlaceSound(l, jobs, Len(messages)) /\ l.message = 0 /\ l.pc \notin {"preview", "sender", "store"}
  <2>1. CASE l = [i EXCEPT !.agent = a, !.pc = "pending"]
    BY <1>2, <1>4, <2>1 DEF PlaceSound, Locals, Filling, Placing, Answering, Dispatching
  <2>2. CASE l = i
    BY <1>1, <1>2, <2>2 DEF Idle
  <2>. QED BY <1>6, <2>1, <2>2
<1>9. TablesOK'
  BY <1>5 DEF Types, TablesOK, Heartbeat, intakeVars, Begin
<1>10. Grow /\ jobs' = jobs /\ messages' = messages
  BY DEF Types, TablesOK, Heartbeat, intakeVars, Grow
<1>. QED BY <1>6, <1>7, <1>8, <1>9, <1>10, BeginTypes

LEMMA RuleTypes ==
  ASSUME Types, NEW p \in Handlers, NEW r \in Requests, SwitchRule(p, r)
  PROVE  Types'
<1>1. active' \in [DOMAIN Rules -> BOOLEAN]
  BY RequestsAssumption DEF SwitchRule, UpdateRule, Types, TablesOK
<1>2. TablesOK'
  BY <1>1 DEF Types, TablesOK, SwitchRule, poolVars, Begin
<1>3. Grow
  BY DEF Types, TablesOK, SwitchRule, poolVars, Grow
<1>. QED BY <1>2, <1>3, BeginIdle DEF SwitchRule

LEMMA MemberStepTypes ==
  ASSUME Types, NEW p \in Handlers, MemberStep(p)
  PROVE  Types'
<1>1. members' \in [Agents -> MaybeMember]
  <2>1. h[p].pc \in {"join", "patch"} => h[p].member \in MemberRow
    BY AtPlace DEF PlaceSound
  <2>2. members \in [Agents -> MaybeMember] /\ NotMember \in MaybeMember
    BY DEF Types, TablesOK, MaybeMember
  <2>3. PICK a, row :
          /\ row \in MaybeMember
          /\ members' = members \/ members' = [members EXCEPT ![a] = row]
    <3>1. CASE InsertParticipant(p) \/ UpdateParticipant(p)
      BY <2>1, <2>2, <3>1 DEF InsertParticipant, UpdateParticipant, At, InsertMember, UpdateMember, MaybeMember
    <3>2. CASE DeleteParticipant(p)
      BY <2>2, <3>2 DEF DeleteParticipant, DeleteMember
    <3>. QED BY <3>1, <3>2 DEF MemberStep
  <2>. QED BY <2>2, <2>3
<1>2. TablesOK'
  BY <1>1 DEF Types, TablesOK, MemberStep, InsertParticipant, UpdateParticipant,
              DeleteParticipant, poolVars, ghosts, counters
<1>3. Grow
  BY DEF Types, TablesOK, Grow, MemberStep, InsertParticipant, UpdateParticipant,
         DeleteParticipant, poolVars
<1>. QED BY <1>2, <1>3, ReturnTypes DEF MemberStep, InsertParticipant, UpdateParticipant,
                                         DeleteParticipant

\* A mention that is resolved names somebody who has joined.
LEMMA ResolveKnown ==
  ASSUME NEW name, Resolvable(name, ActiveMembers, agents)
  PROVE  Resolve(name) \in Agents
<1>1. Candidates(name, ActiveMembers, agents) # {}
  BY FS_EmptySet DEF Resolvable
<1>2. Candidates(name, ActiveMembers, agents) \subseteq ActiveMembers
  BY DEF Candidates
<1>. QED BY <1>1, <1>2 DEF Resolve, AgentOf, ActiveMembers

LEMMA PreviewTypes ==
  ASSUME Types, NEW p \in Handlers, Preview(p)
  PROVE  Types'
<1>. PICK g : g = h[p]
  OBVIOUS
<1>1. g \in Locals /\ PlaceSound(g, jobs, Len(messages)) /\ g.pc = "preview"
  BY AtPlace DEF Preview, At
<1>2. PICK r \in Requests : r = g.req /\ r.op = "message" /\ g.message = 0
  BY <1>1 DEF PlaceSound, Asked
<1>3. PICK next \in {"sender", "store"} : next = IF FromAgent(p) THEN "sender" ELSE "store"
  OBVIOUS
<1>4. PICK names : names = r.names
  OBVIOUS
<1>. PICK n \in Nat : DOMAIN names = 1 .. n
  BY <1>2, <1>4, RequestsAssumption
<1>5. PICK todo : todo = [i \in DOMAIN names |->
          [agent |-> Resolve(names[i]), runtime |-> members[Resolve(names[i])].runtime]]
  OBVIOUS
<1>6. AllResolvable(names) => todo \in Seq(MentionRow)
  <2>1. ASSUME AllResolvable(names), NEW i \in DOMAIN names
        PROVE  [agent |-> Resolve(names[i]), runtime |-> members[Resolve(names[i])].runtime]
                 \in MentionRow
    <3>1. Resolve(names[i]) \in Agents
      BY <2>1, ResolveKnown DEF AllResolvable
    <3>2. members[Resolve(names[i])] \in MaybeMember
      BY <3>1 DEF Types, TablesOK
    <3>3. members[Resolve(names[i])].runtime \in MaybeAgent
      BY <3>2 DEF MaybeMember, MemberRow, NotMember, MaybeAgent
    <3>. QED BY <3>1, <3>3 DEF MentionRow
  <2>2. AllResolvable(names) => todo \in [1 .. n -> MentionRow]
    BY <1>5, <2>1
  <2>. QED BY <2>2
<1>7. PICK l : /\ \/ l = [g EXCEPT !.pc = next]
                  \/ l = [g EXCEPT !.pc = next, !.todo = todo] /\ AllResolvable(names)
                  \/ l = Idle
               /\ h' = [h EXCEPT ![p] = l]
  BY <1>2, <1>3, <1>4, <1>5 DEF Preview, Become
<1>8. next \in Places
  BY DEF Places
<1>9. CASE l = Idle
  BY <1>7, <1>9, IdleTypes, AtPlace, LocalTypes DEF Preview, ghosts, counters
<1>10. CASE l # Idle
  <2>1. PICK todo1 \in Seq(MentionRow) : l = [g EXCEPT !.pc = next, !.todo = todo1]
    <3>1. CASE l = [g EXCEPT !.pc = next]
      <4>1. [g EXCEPT !.pc = next] = [g EXCEPT !.pc = next, !.todo = g.todo] /\ g.todo \in Seq(MentionRow)
        BY <1>1 DEF Locals
      <4>. QED BY <3>1, <4>1
    <3>. QED BY <1>6, <1>7, <1>10, <3>1
  <2>2. l \in Locals
    BY <1>1, <1>8, <2>1 DEF Locals
  <2>3. PlaceSound(l, jobs, Len(messages))
    BY <1>1, <2>1 DEF PlaceSound, Locals, Filling, Placing, Answering, Dispatching
  <2>. QED BY <1>7, <2>2, <2>3, LocalTypes DEF Preview, ghosts, counters
<1>. QED BY <1>9, <1>10

LEMMA GotoTypes ==
  ASSUME Types, NEW p \in Handlers, NEW pc \in Places, Goto(p, pc),
         UNCHANGED <<poolVars, intakeVars, ghosts>>,
         \A l : l = [h[p] EXCEPT !.pc = pc] => PlaceSound(l, jobs, Len(messages))
  PROVE  Types'
<1>. PICK g : g = h[p]
  OBVIOUS
<1>1. g \in Locals
  BY AtPlace
<1>2. PICK l : l = [g EXCEPT !.pc = pc]
  OBVIOUS
<1>3. l \in Locals
  BY <1>1, <1>2 DEF Locals
<1>4. h' = [h EXCEPT ![p] = l]
  BY <1>2 DEF Goto
<1>. QED BY <1>2, <1>3, <1>4, LocalTypes DEF ghosts, counters

LEMMA ReturnLocal ==
  ASSUME Types, NEW p \in Handlers, Return(p), UNCHANGED <<poolVars, intakeVars, ghosts>>
  PROVE  Types'
BY IdleTypes, AtPlace, LocalTypes DEF Return, Become, ghosts, counters

LEMMA SenderTypes ==
  ASSUME Types, NEW p \in Handlers, CheckSender(p)
  PROVE  Types'
<1>. PICK g : g = h[p]
  OBVIOUS
<1>1. g \in Locals /\ PlaceSound(g, jobs, Len(messages)) /\ g.pc = "sender"
  BY AtPlace DEF CheckSender, At
<1>2. CASE Goto(p, "store")
  <2>1. \A l : l = [g EXCEPT !.pc = "store"] => PlaceSound(l, jobs, Len(messages))
    BY <1>1 DEF PlaceSound, Locals, Filling, Placing, Answering, Dispatching
  <2>2. "store" \in Places
    BY DEF Places
  <2>. QED BY <1>2, <2>1, <2>2, GotoTypes DEF CheckSender
<1>3. CASE Return(p)
  BY <1>3, ReturnLocal DEF CheckSender
<1>. QED BY <1>2, <1>3 DEF CheckSender

LEMMA StoreMessageTypes ==
  ASSUME Types, NEW p \in Handlers, StoreMessage(p)
  PROVE  Types'
<1>. PICK g : g = h[p]
  OBVIOUS
<1>. PICK n \in Nat : n = Len(messages)
  BY AtPlace
<1>1. g \in Locals /\ PlaceSound(g, jobs, n) /\ g.pc = "store"
  BY AtPlace DEF StoreMessage, At
<1>2. g.req \in Asked({"message"})
  BY <1>1 DEF PlaceSound
<1>3. PICK row : row = [sender |-> g.req.sender, command |-> g.req.command, mentions |-> <<>>]
  OBVIOUS
<1>4. row \in MessageRow
  <2>1. g.req.sender \in Senders /\ g.req.command \in Commands \union {None} /\ <<>> \in Seq(Agents)
    BY <1>2, RequestsAssumption DEF Senders, Asked
  <2>. QED BY <1>3, <2>1 DEF MessageRow
<1>5. messages' = Append(messages, row) /\ messages \in Seq(MessageRow)
  BY <1>3 DEF StoreMessage, InsertMessage, Types, TablesOK
<1>6. messages' \in Seq(MessageRow) /\ Len(messages') = n + 1
  BY <1>4, <1>5
<1>7. PICK l : l = [g EXCEPT !.message = n + 1, !.pc = "session"]
  OBVIOUS
<1>8. h' = [h EXCEPT ![p] = l]
  BY <1>7 DEF StoreMessage, Become
<1>9. l \in Locals
  <2>1. "session" \in Places /\ n + 1 \in Nat
    BY DEF Places
  <2>. QED BY <1>1, <1>7, <2>1 DEF Locals
<1>10. TablesOK'
  BY <1>6 DEF Types, TablesOK, StoreMessage, poolVars, ghosts, counters
<1>11. Grow
  BY <1>6 DEF Grow, StoreMessage, poolVars
<1>12. PlaceSound(l, jobs', Len(messages'))
  <2>1. jobs' = jobs
    BY DEF StoreMessage, poolVars
  <2>2. PlaceSound(l, jobs, n + 1)
    BY <1>1, <1>2, <1>7 DEF PlaceSound, Locals, Filling, Placing, Answering, Dispatching
  <2>. QED BY <1>6, <2>1, <2>2
<1>. QED BY <1>8, <1>9, <1>10, <1>11, <1>12, StepTypes

\* Nothing but the messages changes.
LEMMA SessionTypes ==
  ASSUME Types, NEW p \in Handlers, TouchSession(p)
  PROVE  Types'
<1>. PICK g : g = h[p]
  OBVIOUS
<1>1. g \in Locals /\ PlaceSound(g, jobs, Len(messages)) /\ g.pc = "session"
  BY AtPlace DEF TouchSession, At
<1>2. TablesOK' /\ Grow /\ jobs' = jobs /\ messages' = messages
  BY DEF Types, TablesOK, Grow, TouchSession, poolVars, ghosts, counters
<1>3. CASE Return(p)
  BY <1>2, <1>3, ReturnTypes
<1>4. ASSUME NEW pc \in {"command", "route"}, Goto(p, pc) PROVE Types'
  <2>1. PICK l : l = [g EXCEPT !.pc = pc]
    OBVIOUS
  <2>2. l \in Locals
    <3>1. pc \in Places
      BY DEF Places
    <3>. QED BY <1>1, <2>1, <3>1 DEF Locals
  <2>3. PlaceSound(l, jobs, Len(messages))
    BY <1>1, <2>1 DEF PlaceSound, Locals, Filling, Placing, Answering, Dispatching
  <2>4. h' = [h EXCEPT ![p] = l]
    BY <1>4, <2>1 DEF Goto
  <2>. QED BY <1>2, <2>2, <2>3, <2>4, StepTypes
<1>. QED BY <1>3, <1>4 DEF TouchSession

\* Of a set of numbers that is finite and not empty, the largest and the smallest.
LEMMA Smallest ==
  ASSUME NEW S \in SUBSET Nat, S # {}
  PROVE  \E x \in S : \A y \in S : x <= y
<1>1. PICK x \in S : \A y \in S : <<y, x>> \notin OpToRel(<, Nat)
  BY NatLessThanWellFounded, WFMin
<1>2. \A y \in S : ~(y < x)
  BY <1>1 DEF OpToRel
<1>. QED BY <1>2

LEMMA Largest ==
  ASSUME NEW n \in Nat, NEW S \in SUBSET (1 .. n), S # {}
  PROVE  \E x \in S : \A y \in S : y <= x
<1>1. PICK T : T = {n - y : y \in S}
  OBVIOUS
<1>2. T \in SUBSET Nat /\ T # {}
  <2>1. \A y \in S : n - y \in Nat
    OBVIOUS
  <2>. QED BY <1>1, <2>1
<1>3. PICK z \in T : \A y \in T : z <= y
  BY <1>2, Smallest
<1>4. PICK x \in S : z = n - x
  BY <1>1, <1>3
<1>5. ASSUME NEW y \in S PROVE y <= x
  <2>1. n - y \in T
    BY <1>1
  <2>2. n - x <= n - y
    BY <1>3, <1>4, <2>1
  <2>. QED BY <2>2
<1>. QED BY <1>5

LEMMA ChannelKnown ==
  ASSUME NEW among \in SUBSET DOMAIN Rules, NEW channel \in Channels
  PROVE  Overridden(Rules, among, channel) \in Channels
<1>1. PICK routing :
        routing = {i \in among : Rules[i].type \in RoutingTypes /\ Rules[i].target # "none"}
  OBVIOUS
<1>2. CASE routing = {}
  BY <1>1, <1>2 DEF Overridden
<1>3. CASE routing # {}
  <2>1. routing \in SUBSET (1 .. Len(Rules)) /\ Len(Rules) \in Nat
    BY <1>1, RulesAssumption
  <2>. PICK x \in routing : \A y \in routing : y <= x
    BY <1>3, <2>1, Largest
  <2>2. Max(routing) \in routing
    BY DEF Max
  <2>. QED BY <1>1, <1>3, <2>2 DEF Overridden, Channels
<1>. QED BY <1>2, <1>3

LEMMA RouteTypes ==
  ASSUME Types, NEW p \in Handlers, Route(p)
  PROVE  Types'
<1>. PICK g : g = h[p]
  OBVIOUS
<1>1. g \in Locals /\ PlaceSound(g, jobs, Len(messages)) /\ g.pc = "route"
  BY AtPlace DEF Route, At
<1>2. PICK channel : channel = RoutingChannel(Rules, ActiveRules, g.req.channel, g.req.sender)
  OBVIOUS
<1>3. channel \in Channels
  <2>1. g.req.channel \in Channels
    BY <1>1 DEF PlaceSound, Answering, Channels
  <2>2. Matching(Rules, ActiveRules, g.req.channel, g.req.sender) \in SUBSET DOMAIN Rules
    BY DEF Matching, ActiveRules
  <2>. QED BY <1>2, <2>1, <2>2, ChannelKnown DEF RoutingChannel
<1>4. PICK l : l = [g EXCEPT !.channel = channel, !.pc = "mention"]
  OBVIOUS
<1>5. l \in Locals
  <2>1. "mention" \in Places
    BY DEF Places
  <2>. QED BY <1>1, <1>3, <1>4, <2>1 DEF Locals
<1>6. PlaceSound(l, jobs, Len(messages))
  BY <1>1, <1>4 DEF PlaceSound, Locals, Filling, Placing, Answering, Dispatching
<1>. QED BY <1>2, <1>4, <1>5, <1>6, LocalTypes DEF Route, Become, ghosts, counters

LEMMA ScheduleTypes ==
  ASSUME Types, NEW p \in Handlers, Schedule(p)
  PROVE  Types'
<1>. PICK g : g = h[p]
  OBVIOUS
<1>1. g \in Locals /\ PlaceSound(g, jobs, Len(messages)) /\ g.pc = "schedule"
  BY AtPlace DEF Schedule, At
<1>2. PICK j : j = Head(g.made)
  OBVIOUS
<1>3. j \in DOMAIN jobs /\ j \in Nat /\ j # 0 /\ jobs[j] \in JobRows
  <2>1. g.made # <<>> /\ g.made \in Seq(Nat) /\ \A i \in DOMAIN g.made : g.made[i] \in DOMAIN jobs
    BY <1>1 DEF PlaceSound, Dispatching, Locals
  <2>2. j \in DOMAIN jobs
    BY <1>2, <2>1
  <2>3. jobs \in Seq(JobRows)
    BY DEF Types, TablesOK
  <2>. QED BY <2>2, <2>3
<1>4. PICK rule : rule = JobDispatch(Rules, ActiveRules, jobs[j].channel, jobs[j].agent)
  OBVIOUS
<1>5. rule.channel \in Channels /\ rule.held \in BOOLEAN
  <2>1. PICK matching : matching = Matching(Rules, ActiveRules, jobs[j].channel, jobs[j].agent)
    OBVIOUS
  <2>2. matching \in SUBSET DOMAIN Rules
    BY <2>1 DEF Matching, ActiveRules
  <2>3. PICK held \in BOOLEAN, seen \in SUBSET DOMAIN Rules :
          rule = [held |-> held, channel |-> Overridden(Rules, seen, jobs[j].channel)]
    <3>1. PICK holds : holds = {i \in matching : Rules[i].type \in HoldTypes}
      OBVIOUS
    <3>2. PICK seen : seen = IF holds = {} THEN matching ELSE {i \in matching : i <= Min(holds)}
      OBVIOUS
    <3>3. seen \in SUBSET DOMAIN Rules /\ (holds # {}) \in BOOLEAN
      BY <2>2, <3>2
    <3>4. rule = [held |-> holds # {}, channel |-> Overridden(Rules, seen, jobs[j].channel)]
      BY <1>4, <2>1, <3>1, <3>2 DEF JobDispatch
    <3>. QED BY <3>3, <3>4
  <2>4. jobs[j].channel \in Channels
    BY <1>3 DEF JobRows
  <2>5. Overridden(Rules, seen, jobs[j].channel) \in Channels
    BY <2>3, <2>4, ChannelKnown
  <2>. QED BY <2>3, <2>5
<1>6. PICK channel \in Channels, held \in BOOLEAN : channel = rule.channel /\ held = rule.held
  BY <1>5
<1>7. PICK row : row = [jobs[j] EXCEPT !.channel = channel]
  OBVIOUS
<1>8. row \in AnyJobRow /\ row.agent = jobs[j].agent /\ row.source = jobs[j].source
  BY <1>3, <1>6, <1>7 DEF JobRows, AnyJobRow, MaybeAgent
<1>9. PICK pc \in {"reroute", "hold", "dispatch"} :
        pc = IF channel # jobs[j].channel THEN "reroute" ELSE IF held THEN "hold" ELSE "dispatch"
  OBVIOUS
<1>10. PICK l : l = [g EXCEPT !.job = j, !.row = row, !.held = held, !.pc = pc]
  OBVIOUS
<1>11. l \in Locals
  <2>1. PICK k : k = [g EXCEPT !.job = j, !.row = row]
    OBVIOUS
  <2>2. k \in Locals
    BY <1>1, <1>3, <1>8, <2>1 DEF Locals
  <2>3. l = [k EXCEPT !.held = held, !.pc = pc] /\ pc \in Places
    BY <1>10, <2>1 DEF Places
  <2>. QED BY <2>2, <2>3 DEF Locals
<1>12. PlaceSound(l, jobs, Len(messages))
  <2>1. /\ l.job = j /\ l.row = row /\ l.pc = pc /\ l.made = g.made /\ l.message = g.message
        /\ l.req = g.req
    BY <1>1, <1>10 DEF Locals
  <2>. QED BY <1>1, <1>3, <1>8, <2>1 DEF PlaceSound, Filling, Placing, Answering, Dispatching
<1>13. h' = [h EXCEPT ![p] = l]
  BY <1>2, <1>4, <1>6, <1>7, <1>9, <1>10 DEF Schedule, Become
<1>. QED BY <1>11, <1>12, <1>13, LocalTypes DEF Schedule, ghosts, counters

\* A row of a job is replaced by one of the same agent and message.
LEMMA UpdateTypes ==
  ASSUME Types, NEW j \in DOMAIN jobs, NEW row \in JobRows, UpdateJob(j, row),
         row.agent = jobs[j].agent, row.source = jobs[j].source
  PROVE  /\ jobs' \in Seq(JobRows) /\ Len(jobs') = Len(jobs) /\ DOMAIN jobs' = DOMAIN jobs
         /\ \A k \in DOMAIN jobs : /\ jobs'[k].agent = jobs[k].agent
                                   /\ jobs'[k].source = jobs[k].source
<1>1. jobs \in Seq(JobRows) /\ jobs' = [jobs EXCEPT ![j] = row]
  BY DEF Types, TablesOK, UpdateJob
<1>. QED BY <1>1

\* The handler goes on with the next job of its request or is done.
LEMMA ScheduledTypes ==
  ASSUME Types, NEW p \in Handlers, Become(p, Scheduled(h[p])), h[p].pc \in Dispatching,
         TablesOK', Grow, UNCHANGED messages, DOMAIN jobs' = DOMAIN jobs
  PROVE  Types'
<1>. PICK g : g = h[p]
  OBVIOUS
<1>1. g \in Locals /\ PlaceSound(g, jobs, Len(messages)) /\ g.pc \in Dispatching
  BY AtPlace
<1>2. CASE Len(g.made) = 1
  BY <1>2, ReturnTypes DEF Return, Become, Scheduled
<1>3. CASE Len(g.made) # 1
  <2>1. PICK made : made = Tail(g.made)
    OBVIOUS
  <2>2. /\ made \in Seq(Nat) /\ made # <<>>
        /\ \A i \in DOMAIN made : made[i] \in DOMAIN jobs
    <3>1. g.made # <<>> /\ g.made \in Seq(Nat) /\ \A i \in DOMAIN g.made : g.made[i] \in DOMAIN jobs
      BY <1>1 DEF PlaceSound, Locals
    <3>2. PICK s : s = g.made
      OBVIOUS
    <3>3. PICK n \in Nat : n = Len(s) /\ DOMAIN s = 1 .. n
      BY <3>1, <3>2
    <3>4. n > 1
      <4>1. Len(s) # 0
        BY <3>1, <3>2
      <4>2. Len(s) # 1
        BY <1>3, <3>2
      <4>. QED BY <3>3, <4>1, <4>2
    <3>5. made \in Seq(Nat) /\ Len(made) = n - 1 /\ \A i \in 1 .. n - 1 : made[i] = s[i + 1]
      BY <2>1, <3>1, <3>2, <3>3, <3>4
    <3>6. \A i \in 1 .. n - 1 : i + 1 \in DOMAIN s
      BY <3>3
    <3>7. DOMAIN made = 1 .. n - 1 /\ Len(made) # 0
      BY <3>4, <3>5
    <3>. QED BY <3>1, <3>2, <3>5, <3>6, <3>7
  <2>3. PICK l : l = [g EXCEPT !.pc = "schedule", !.made = made]
    OBVIOUS
  <2>4. l \in Locals
    <3>1. "schedule" \in Places
      BY DEF Places
    <3>. QED BY <1>1, <2>2, <2>3, <3>1 DEF Locals
  <2>5. PlaceSound(l, jobs', Len(messages'))
    <3>1. /\ l.pc = "schedule" /\ l.job = g.job /\ l.message = g.message /\ l.made = made
          /\ l.req = g.req
      BY <1>1, <2>3 DEF Locals
    <3>. QED BY <1>1, <2>2, <3>1 DEF PlaceSound, Filling, Placing, Answering, Dispatching
  <2>6. h' = [h EXCEPT ![p] = l]
    BY <1>3, <2>1, <2>3 DEF Become, Scheduled
  <2>. QED BY <2>4, <2>5, <2>6, StepTypes
<1>. QED BY <1>2, <1>3

LEMMA RerouteTypes ==
  ASSUME Types, NEW p \in Handlers, Reroute(p)
  PROVE  Types'
<1>. PICK g : g = h[p]
  OBVIOUS
<1>1. g \in Locals /\ PlaceSound(g, jobs, Len(messages)) /\ g.pc = "reroute"
  BY AtPlace DEF Reroute, At
<1>2. PICK j, row : j = g.job /\ row = g.row
  OBVIOUS
<1>3. j \in DOMAIN jobs /\ row.agent = jobs[j].agent /\ row.source = jobs[j].source
  BY <1>1, <1>2 DEF PlaceSound
<1>4. row \in JobRows
  <2>1. jobs[j] \in JobRows
    BY <1>3 DEF Types, TablesOK
  <2>. QED BY <1>1, <1>2, <1>3, <2>1 DEF Locals, AnyJobRow, JobRows
<1>5. UpdateJob(j, row)
  BY <1>2 DEF Reroute
<1>6. /\ jobs' \in Seq(JobRows) /\ Len(jobs') = Len(jobs) /\ DOMAIN jobs' = DOMAIN jobs
      /\ \A k \in DOMAIN jobs : /\ jobs'[k].agent = jobs[k].agent
                                /\ jobs'[k].source = jobs[k].source
  BY <1>3, <1>4, <1>5, UpdateTypes
<1>7. TablesOK'
  BY <1>6 DEF Types, TablesOK, Reroute, intakeVars, ghosts, counters
<1>8. Grow
  BY <1>6, AtPlace DEF Grow, Reroute, intakeVars
<1>9. PICK pc \in {"hold", "dispatch"} : h' = [h EXCEPT ![p].pc = pc]
  BY DEF Reroute, Goto
<1>10. PICK l : l = [g EXCEPT !.pc = pc]
  OBVIOUS
<1>11. l \in Locals
  <2>1. pc \in Places
    BY DEF Places
  <2>. QED BY <1>1, <1>10, <2>1 DEF Locals
<1>12. PlaceSound(l, jobs', Len(messages'))
  <2>1. messages' = messages
    BY DEF Reroute, intakeVars
  <2>. QED BY <1>1, <1>6, <1>10, <2>1 DEF PlaceSound, Locals, Filling, Placing, Answering, Dispatching
<1>13. h' = [h EXCEPT ![p] = l]
  BY <1>9, <1>10
<1>. QED BY <1>7, <1>8, <1>11, <1>12, <1>13, StepTypes

LEMMA HeldTypes ==
  ASSUME Types, NEW p \in Handlers, Hold(p)
  PROVE  Types'
<1>. PICK g : g = h[p]
  OBVIOUS
<1>1. g \in Locals /\ PlaceSound(g, jobs, Len(messages)) /\ g.pc = "hold"
  BY AtPlace DEF Hold, At
<1>2. PICK j, row : j = g.job /\ row = [g.row EXCEPT !.status = "input_required"]
  OBVIOUS
<1>3. /\ j \in DOMAIN jobs /\ g.row.agent = jobs[j].agent /\ g.row.source = jobs[j].source
      /\ g.row \in AnyJobRow
  BY <1>1, <1>2 DEF PlaceSound, Locals
<1>4. row \in JobRows /\ row.agent = jobs[j].agent /\ row.source = jobs[j].source
  <2>1. jobs[j] \in JobRows
    BY <1>3 DEF Types, TablesOK
  <2>. QED BY <1>2, <1>3, <2>1 DEF AnyJobRow, JobRows, Statuses
<1>5. UpdateJob(j, row)
  BY <1>2 DEF Hold
<1>6. /\ jobs' \in Seq(JobRows) /\ Len(jobs') = Len(jobs) /\ DOMAIN jobs' = DOMAIN jobs
      /\ \A k \in DOMAIN jobs : /\ jobs'[k].agent = jobs[k].agent
                                /\ jobs'[k].source = jobs[k].source
  BY <1>3, <1>4, <1>5, UpdateTypes
<1>7. TablesOK'
  BY <1>6 DEF Types, TablesOK, Hold, intakeVars, ghosts, counters
<1>8. Grow
  BY <1>6, AtPlace DEF Grow, Hold, intakeVars
<1>. QED BY <1>1, <1>6, <1>7, <1>8, ScheduledTypes DEF Hold, intakeVars, Dispatching

LEMMA DispatchTypes ==
  ASSUME Types, NEW p \in Handlers, Dispatch(p)
  PROVE  Types'
<1>. PICK g : g = h[p]
  OBVIOUS
<1>1. g \in Locals /\ PlaceSound(g, jobs, Len(messages)) /\ g.pc = "dispatch"
  BY AtPlace DEF Dispatch, At
<1>2. PICK j : j = g.job
  OBVIOUS
<1>3. j \in DOMAIN jobs /\ jobs[j] \in JobRows /\ jobs \in Seq(JobRows)
  BY <1>1, <1>2 DEF PlaceSound, Types, TablesOK
<1>4. PICK row : row = [jobs[j] EXCEPT !.status = "running"]
  OBVIOUS
<1>5. row \in JobRows /\ row.agent = jobs[j].agent /\ row.source = jobs[j].source
  BY <1>3, <1>4 DEF JobRows, Statuses
<1>6. UpdateJob(j, row) \/ UNCHANGED jobs
  BY <1>2, <1>4 DEF Dispatch
<1>7. /\ jobs' \in Seq(JobRows) /\ Len(jobs') = Len(jobs) /\ DOMAIN jobs' = DOMAIN jobs
      /\ \A k \in DOMAIN jobs : /\ jobs'[k].agent = jobs[k].agent
                                /\ jobs'[k].source = jobs[k].source
  BY <1>3, <1>5, <1>6, UpdateTypes
<1>8. TablesOK'
  BY <1>7 DEF Types, TablesOK, Dispatch, intakeVars, ghosts, counters
<1>9. Grow
  BY <1>7, AtPlace DEF Grow, Dispatch, intakeVars
<1>. QED BY <1>1, <1>7, <1>8, <1>9, ScheduledTypes DEF Dispatch, intakeVars, Dispatching

LEMMA PendingTypes ==
  ASSUME Types, NEW p \in Handlers, DispatchPending(p)
  PROVE  Types'
<1>1. jobs \in Seq(JobRows)
  BY DEF Types, TablesOK
<1>2. \A j \in DOMAIN jobs :
        /\ jobs[j] \in JobRows
        /\ jobs'[j] = jobs[j] \/ jobs'[j] = [jobs[j] EXCEPT !.status = "running"]
  BY <1>1 DEF DispatchPending
<1>3. \A j \in DOMAIN jobs : /\ jobs'[j] \in JobRows /\ jobs'[j].agent = jobs[j].agent
                             /\ jobs'[j].source = jobs[j].source
  BY <1>2 DEF JobRows, Statuses
<1>4. jobs' \in Seq(JobRows) /\ Len(jobs') = Len(jobs) /\ DOMAIN jobs' = DOMAIN jobs
  <2>1. PICK n \in Nat : n = Len(jobs) /\ DOMAIN jobs = 1 .. n
    BY <1>1
  <2>2. PICK f : f = [j \in DOMAIN jobs |->
                        IF jobs[j].agent = h[p].agent /\ jobs[j].status = "queued" /\ CanDispatch(h[p].agent)
                          THEN [jobs[j] EXCEPT !.status = "running"] ELSE jobs[j]]
    OBVIOUS
  <2>3. jobs' = f
    BY <2>2 DEF DispatchPending
  <2>4. f \in [1 .. n -> JobRows]
    BY <1>3, <2>1, <2>2, <2>3
  <2>5. f \in Seq(JobRows) /\ Len(f) = n /\ DOMAIN f = 1 .. n
    BY <2>4
  <2>. QED BY <2>1, <2>3, <2>5
<1>5. TablesOK'
  BY <1>4 DEF Types, TablesOK, DispatchPending, intakeVars, ghosts, counters
<1>6. Grow
  BY <1>3, <1>4, AtPlace DEF Grow, DispatchPending, intakeVars
<1>. QED BY <1>5, <1>6, ReturnTypes DEF DispatchPending

LEMMA MentionTypes ==
  ASSUME Types, NEW p \in Handlers, InsertMention(p),
         LET n == Len(messages[h[p].message].mentions)
         IN  n + 1 \in DOMAIN h[p].todo
  PROVE  Types'
<1>. PICK g : g = h[p]
  OBVIOUS
<1>1. g \in Locals /\ PlaceSound(g, jobs, Len(messages)) /\ g.pc = "mention"
  BY AtPlace DEF InsertMention, At
<1>2. PICK m : m = g.message
  OBVIOUS
<1>3. m \in DOMAIN messages /\ messages[m] \in MessageRow /\ messages \in Seq(MessageRow)
  <2>1. messages \in Seq(MessageRow)
    BY DEF Types, TablesOK
  <2>2. m \in Nat /\ m # 0 /\ m <= Len(messages)
    BY <1>1, <1>2 DEF PlaceSound, Answering, Locals
  <2>. QED BY <2>1, <2>2
<1>4. PICK i, a : i = Len(messages[m].mentions) + 1 /\ a = g.todo[i].agent
  OBVIOUS
<1>5. a \in Agents
  <2>1. g.todo \in Seq(MentionRow) /\ i \in DOMAIN g.todo
    BY <1>1, <1>2, <1>4 DEF Locals
  <2>2. g.todo[i] \in MentionRow
    BY <2>1
  <2>. QED BY <1>4, <2>2 DEF MentionRow
<1>6. PICK mentions : mentions = Append(messages[m].mentions, a)
  OBVIOUS
<1>7. mentions \in Seq(Agents)
  BY <1>3, <1>5, <1>6 DEF MessageRow
<1>8. PICK row : row = [messages[m] EXCEPT !.mentions = mentions]
  OBVIOUS
<1>9. row \in MessageRow
  BY <1>3, <1>7, <1>8 DEF MessageRow
<1>10. messages' = [messages EXCEPT ![m] = row]
  BY <1>2, <1>4, <1>6, <1>8 DEF InsertMention, InsertMentionRow
<1>11. messages' \in Seq(MessageRow) /\ Len(messages') = Len(messages)
  BY <1>3, <1>9, <1>10
<1>12. TablesOK'
  BY <1>11 DEF Types, TablesOK, InsertMention, poolVars, ghosts, counters
<1>13. Grow
  BY <1>11, AtPlace DEF Grow, InsertMention, poolVars
<1>14. PICK l : /\ l = [g EXCEPT !.pc = "next_job"] \/ l = g
                /\ h' = [h EXCEPT ![p] = l]
  <2>1. UNCHANGED h => h' = [h EXCEPT ![p] = g]
    BY DEF Types
  <2>. QED BY <2>1 DEF InsertMention, Goto
<1>15. l \in Locals /\ PlaceSound(l, jobs, Len(messages))
  <2>1. CASE l = g
    BY <1>1, <2>1
  <2>2. CASE l = [g EXCEPT !.pc = "next_job"]
    <3>1. "next_job" \in Places
      BY DEF Places
    <3>2. l \in Locals
      BY <1>1, <2>2, <3>1 DEF Locals
    <3>3. PlaceSound(l, jobs, Len(messages))
      BY <1>1, <2>2 DEF PlaceSound, Locals, Filling, Placing, Answering, Dispatching
    <3>. QED BY <3>2, <3>3
  <2>. QED BY <1>14, <2>1, <2>2
<1>17. jobs' = jobs
  BY DEF InsertMention, poolVars
<1>. QED BY <1>11, <1>12, <1>13, <1>14, <1>15, <1>17, StepTypes

LEMMA MinKnown ==
  ASSUME NEW S \in SUBSET Nat, S # {}
  PROVE  Min(S) \in S /\ \A y \in S : Min(S) <= y
<1>1. PICK x \in S : \A y \in S : x <= y
  BY Smallest
<1>. QED BY <1>1 DEF Min

LEMMA NextJobTypes ==
  ASSUME Types, NEW p \in Handlers, NextJob(p), h[p].made = <<>> => h[p].todo # <<>>
  PROVE  Types'
<1>. PICK g : g = h[p]
  OBVIOUS
<1>1. g \in Locals /\ PlaceSound(g, jobs, Len(messages)) /\ g.pc = "next_job"
  BY AtPlace DEF NextJob, CreateNext, At
<1>. PICK seen : seen = {jobs[h[p].made[i]].agent : i \in DOMAIN h[p].made}
  OBVIOUS
<1>. PICK fresh : fresh = {i \in DOMAIN h[p].todo : h[p].todo[i].agent \notin seen}
  OBVIOUS
<1>. PICK todo : todo = h[p].todo
  OBVIOUS
<1>2. /\ todo = g.todo /\ todo \in Seq(MentionRow)
      /\ fresh = {i \in DOMAIN todo : todo[i].agent \notin seen}
  BY <1>1 DEF Locals
<1>6. CreateNext(p, seen)
  BY DEF NextJob
<1>3. /\ g.message \in Nat /\ g.channel \in Channels /\ g.made \in Seq(Nat) /\ g.message # 0
      /\ g.req \in Asked({"message"}) /\ g.message \in 0 .. Len(messages)
      /\ \A i \in DOMAIN g.made : g.made[i] \in DOMAIN jobs
  BY <1>1 DEF Locals, PlaceSound, Answering
<1>4. CASE fresh = {}
  <2>1. g.made # <<>>
    <3>1. g.made = <<>> => seen = {}
      OBVIOUS
    <3>. QED BY <1>2, <1>4, <3>1
  <2>2. PICK l : l = [g EXCEPT !.pc = "schedule", !.todo = <<>>]
    OBVIOUS
  <2>3. l \in Locals
    <3>1. "schedule" \in Places /\ <<>> \in Seq(MentionRow)
      BY DEF Places
    <3>. QED BY <1>1, <2>2, <3>1 DEF Locals
  <2>4. PlaceSound(l, jobs, Len(messages))
    BY <1>1, <1>3, <2>1, <2>2 DEF PlaceSound, Locals, Filling, Placing, Answering, Dispatching
  <2>5. h' = [h EXCEPT ![p] = l]
    BY <1>4, <1>6, <2>2 DEF CreateNext, Become
  <2>. QED BY <2>3, <2>4, <2>5, LocalTypes DEF NextJob, CreateNext, ghosts, counters
<1>5. CASE fresh # {}
  <2>1. PICK i : i = Min(fresh)
    OBVIOUS
  <2>. PICK mention : mention = todo[i]
    OBVIOUS
  <2>2. i \in DOMAIN todo /\ mention \in MentionRow
    <3>1. Min(fresh) \in DOMAIN todo
      <4>1. fresh \in SUBSET Nat
        BY <1>2
      <4>2. Min(fresh) \in fresh
        BY <1>5, <4>1, MinKnown
      <4>. QED BY <1>2, <4>2
    <3>2. i \in DOMAIN todo
      BY <2>1, <3>1
    <3>3. todo \in Seq(MentionRow)
      BY <1>2
    <3>4. todo[i] \in MentionRow
      BY <3>2, <3>3
    <3>. QED BY <3>2, <3>4
  <2>3. PICK runtime : runtime = Runtime(mention)
    OBVIOUS
  <2>4. mention.agent \in Agents /\ runtime \in MaybeAgent
    BY <2>2, <2>3 DEF Runtime, MentionRow, MaybeAgent
  <2>5. PICK k : k = Creating(g, mention.agent, g.message, g.channel, runtime, "next_job")
    OBVIOUS
  <2>6. /\ k \in Locals /\ k.pc = "plan" /\ k.agent = mention.agent /\ k.source = g.message
        /\ k.cont = "next_job" /\ k.job = 0
        /\ k.message = g.message /\ k.req = g.req /\ k.todo = g.todo /\ k.made = g.made
    <3>1. PICK a \in Agents, n \in Nat, channel \in Channels :
            a = mention.agent /\ n = g.message /\ channel = g.channel
      BY <1>3, <2>4
    <3>2. /\ g \in Locals /\ k = Creating(g, a, n, channel, runtime, "next_job")
          /\ runtime \in MaybeAgent
          /\ "next_job" \in {"idle", "record", "next_job", "schedule"}
      BY <1>1, <2>4, <2>5, <3>1
    <3>3. /\ k \in Locals /\ k.pc = "plan" /\ k.agent = a /\ k.source = n
          /\ k.cont = "next_job" /\ k.job = 0
          /\ k.message = g.message /\ k.req = g.req /\ k.todo = g.todo /\ k.made = g.made
      BY <3>1, <3>2, CreatingTypes
    <3>. QED BY <3>1, <3>3
  <2>7. PICK rest : rest = SubSeq(todo, i + 1, Len(todo))
    OBVIOUS
  <2>8. rest \in Seq(MentionRow)
    <3>1. PICK n \in Nat : n = Len(todo) /\ DOMAIN todo = 1 .. n
      BY <1>2
    <3>2. i \in 1 .. n /\ rest = SubSeq(todo, i + 1, n)
      BY <2>2, <2>7, <3>1
    <3>. QED BY <1>2, <3>1, <3>2
  <2>9. PICK l : l = [k EXCEPT !.todo = rest]
    OBVIOUS
  <2>10. l \in Locals
    BY <2>6, <2>8, <2>9 DEF Locals
  <2>11. PlaceSound(l, jobs, Len(messages))
    <3>1. /\ l.pc = "plan" /\ l.agent = mention.agent /\ l.source = g.message
          /\ l.cont = "next_job" /\ l.job = 0
          /\ l.message = g.message /\ l.req = g.req /\ l.made = g.made
      BY <2>6, <2>9 DEF Locals
    <3>. QED BY <1>3, <2>4, <3>1 DEF PlaceSound, Filling, Placing, Answering, Dispatching
  <2>12. h' = [h EXCEPT ![p] = l]
    <3>1. h' = [h EXCEPT ![p] =
              [Creating(h[p], todo[Min(fresh)].agent, h[p].message, h[p].channel,
                        Runtime(todo[Min(fresh)]), "next_job")
                 EXCEPT !.todo = SubSeq(todo, Min(fresh) + 1, Len(todo))]]
      BY <1>5, <1>6 DEF CreateNext, Become
    <3>. QED BY <2>1, <2>3, <2>5, <2>7, <2>9, <3>1
  <2>. QED BY <2>10, <2>11, <2>12, LocalTypes DEF NextJob, CreateNext, ghosts, counters
<1>. QED BY <1>4, <1>5

LEMMA ResolveTargetTypes ==
  ASSUME Types, NEW p \in Handlers, ResolveTarget(p)
  PROVE  Types'
<1>. PICK g : g = h[p]
  OBVIOUS
<1>1. g \in Locals /\ PlaceSound(g, jobs, Len(messages)) /\ g.pc = "command"
  BY AtPlace DEF ResolveTarget, At
<1>2. PICK r \in Requests : r = g.req /\ r.op = "message"
  BY <1>1 DEF PlaceSound, Asked, Answering
<1>3. PICK names : names = r.names
  OBVIOUS
<1>. PICK n \in Nat : DOMAIN names = 1 .. n /\ n = Len(names)
  BY <1>2, <1>3, RequestsAssumption
<1>4. PICK a : a = IF names # <<>> /\ AllResolvable(names) THEN Resolve(Head(names))
                   ELSE r.sender
  OBVIOUS
<1>5. CASE Return(p)
  BY <1>5, ReturnLocal DEF ResolveTarget
<1>6. CASE ~Return(p)
  <2>1. PICK l : l = [g EXCEPT !.target = a, !.pc = "permit"]
    OBVIOUS
  <2>2. a \in Agents /\ h' = [h EXCEPT ![p] = l]
    <3>1. CASE names # <<>> /\ AllResolvable(names)
      <4>1. 1 \in DOMAIN names /\ Head(names) = names[1]
        BY <3>1
      <4>2. Resolve(names[1]) \in Agents
        BY <3>1, <4>1, ResolveKnown DEF AllResolvable
      <4>. QED BY <1>2, <1>3, <1>4, <2>1, <3>1, <4>1, <4>2 DEF ResolveTarget, Become
    <3>2. CASE ~(names # <<>> /\ AllResolvable(names))
      BY <1>2, <1>3, <1>4, <1>6, <2>1, <3>2 DEF ResolveTarget, Become, Return, FromAgent
    <3>. QED BY <3>1, <3>2
  <2>3. l \in Locals
    <3>1. a \in MaybeAgent /\ "permit" \in Places
      BY <2>2 DEF MaybeAgent, Places
    <3>. QED BY <1>1, <2>1, <3>1 DEF Locals
  <2>4. PlaceSound(l, jobs, Len(messages))
    BY <1>1, <2>1, <2>2 DEF PlaceSound, Locals, Filling, Placing, Answering, Dispatching
  <2>. QED BY <2>2, <2>3, <2>4, LocalTypes DEF ResolveTarget, ghosts, counters
<1>. QED BY <1>5, <1>6

LEMMA PermitTypes ==
  ASSUME Types, NEW p \in Handlers, Permit(p)
  PROVE  Types'
<1>. PICK g : g = h[p]
  OBVIOUS
<1>1. g \in Locals /\ PlaceSound(g, jobs, Len(messages)) /\ g.pc = "permit"
  BY AtPlace DEF Permit, At
<1>2. /\ g.target \in Agents /\ g.message \in Nat /\ g.req.channel \in Channels
      /\ g.message # 0 /\ g.message \in 0 .. Len(messages) /\ g.req \in Asked({"message"})
      /\ \A i \in DOMAIN g.made : g.made[i] \in DOMAIN jobs
  BY <1>1 DEF PlaceSound, Locals, Answering, Channels
<1>3. PICK a \in Agents, n \in Nat, channel \in Channels :
        a = g.target /\ n = g.message /\ channel = g.req.channel
  BY <1>2
<1>4. PICK k : k = Creating(g, a, n, channel, None, "record")
  OBVIOUS
<1>5. PICK l : l = [g EXCEPT !.pc = "target"]
  OBVIOUS
<1>6. /\ k \in Locals /\ k.pc = "plan" /\ k.agent = a /\ k.source = n
      /\ k.cont = "record" /\ k.job = 0
      /\ k.message = g.message /\ k.req = g.req /\ k.made = g.made
  <2>1. None \in MaybeAgent /\ "record" \in {"idle", "record", "next_job", "schedule"}
    BY DEF MaybeAgent
  <2>. QED BY <1>1, <1>4, <2>1, CreatingTypes
<1>7. PlaceSound(k, jobs, Len(messages))
  BY <1>2, <1>3, <1>6 DEF PlaceSound, Filling, Placing, Answering, Dispatching
<1>8. l \in Locals /\ PlaceSound(l, jobs, Len(messages))
  <2>1. "target" \in Places
    BY DEF Places
  <2>. QED BY <1>1, <1>5, <2>1 DEF Locals, PlaceSound, Filling, Placing, Answering, Dispatching
<1>9. h' = [h EXCEPT ![p] = k] \/ h' = [h EXCEPT ![p] = l] \/ Return(p)
  BY <1>3, <1>4, <1>5 DEF Permit, Become
<1>10. UNCHANGED <<poolVars, intakeVars, ghosts>>
  BY DEF Permit
<1>11. CASE h' = [h EXCEPT ![p] = k]
  BY <1>6, <1>7, <1>10, <1>11, LocalTypes DEF ghosts, counters
<1>12. CASE h' = [h EXCEPT ![p] = l]
  BY <1>8, <1>10, <1>12, LocalTypes DEF ghosts, counters
<1>. QED BY <1>9, <1>10, <1>11, <1>12, ReturnLocal

\* The job a command is about: the latest of those considered.
LEMMA LatestKnown ==
  ASSUME Types, NEW among \in SUBSET DOMAIN jobs, among # {}
  PROVE  (CHOOSE j \in among : \A k \in among : k <= j) \in among
<1>1. PICK n \in Nat : DOMAIN jobs = 1 .. n
  BY AtPlace DEF Types, TablesOK
<1>2. \E x \in among : \A y \in among : y <= x
  BY <1>1, Largest
<1>. QED BY <1>2

LEMMA TargetTypes ==
  ASSUME Types, NEW p \in Handlers, TargetJob(p)
  PROVE  Types'
<1>. PICK g : g = h[p]
  OBVIOUS
<1>1. g \in Locals /\ PlaceSound(g, jobs, Len(messages)) /\ g.pc = "target"
  BY AtPlace DEF TargetJob, At
<1>2. PICK all : all = JobsOf(g.target)
  OBVIOUS
<1>3. PICK open : open = {j \in all : jobs[j].status \notin TerminalStatuses}
  OBVIOUS
<1>4. PICK among : among = IF open # {} THEN open ELSE all
  OBVIOUS
<1>5. CASE among = {}
  <2>1. Return(p)
    BY <1>2, <1>3, <1>4, <1>5 DEF TargetJob, Return
  <2>. QED BY <2>1, ReturnLocal DEF TargetJob
<1>6. CASE among # {}
  <2>1. PICK j : j = CHOOSE i \in among : \A k \in among : k <= i
    OBVIOUS
  <2>2. j \in DOMAIN jobs /\ j \in Nat /\ j # 0
    <3>1. among \in SUBSET DOMAIN jobs
      BY <1>2, <1>3, <1>4 DEF JobsOf
    <3>2. j \in DOMAIN jobs
      BY <1>6, <2>1, <3>1, LatestKnown
    <3>. QED BY <3>2, AtPlace
  <2>3. PICK l : l = [g EXCEPT !.job = j, !.pc = "effect"]
    OBVIOUS
  <2>4. l \in Locals
    <3>1. "effect" \in Places
      BY DEF Places
    <3>. QED BY <1>1, <2>2, <2>3, <3>1 DEF Locals
  <2>5. PlaceSound(l, jobs, Len(messages))
    BY <1>1, <2>2, <2>3 DEF PlaceSound, Locals, Filling, Placing, Answering, Dispatching
  <2>6. h' = [h EXCEPT ![p] = l]
    BY <1>2, <1>3, <1>4, <1>6, <2>1, <2>3 DEF TargetJob, Become
  <2>. QED BY <2>4, <2>5, <2>6, LocalTypes DEF TargetJob, ghosts, counters
<1>. QED BY <1>5, <1>6

\* What the relay engine, the review service and the events are told.
LEMMA ControlTypes ==
  ASSUME Types, NEW p \in Handlers, h[p].req.command \in Commands
  PROVE  ControlOf(p) \in Control
<1>1. h[p].message \in Nat /\ h[p].job \in Nat
  BY AtPlace DEF Locals
<1>. QED BY <1>1 DEF ControlOf, Control

LEMMA EffectTypes ==
  ASSUME Types, NEW p \in Handlers, Effect(p), h[p].req.command \in Commands
  PROVE  Types'
<1>. PICK g : g = h[p]
  OBVIOUS
<1>1. g \in Locals /\ PlaceSound(g, jobs, Len(messages)) /\ g.pc = "effect"
  BY AtPlace DEF Effect, At
<1>2. PICK j : j = g.job
  OBVIOUS
<1>3. j \in DOMAIN jobs /\ jobs[j] \in JobRows /\ jobs \in Seq(JobRows)
  BY <1>1, <1>2 DEF PlaceSound, Types, TablesOK
<1>4. PICK row : row = [jobs[j] EXCEPT !.status = "canceled"]
  OBVIOUS
<1>5. row \in JobRows /\ row.agent = jobs[j].agent /\ row.source = jobs[j].source
  BY <1>3, <1>4 DEF JobRows, Statuses
<1>6. UpdateJob(j, row) \/ UNCHANGED jobs
  BY <1>2, <1>4 DEF Effect
<1>7. /\ jobs' \in Seq(JobRows) /\ Len(jobs') = Len(jobs) /\ DOMAIN jobs' = DOMAIN jobs
      /\ \A k \in DOMAIN jobs : /\ jobs'[k].agent = jobs[k].agent
                                /\ jobs'[k].source = jobs[k].source
  BY <1>3, <1>5, <1>6, UpdateTypes
<1>8. signals' \subseteq Control
  BY ControlTypes DEF Effect, Types, TablesOK
<1>9. TablesOK'
  BY <1>7, <1>8 DEF Types, TablesOK, Effect, ghosts, counters
<1>10. Grow /\ messages' = messages
  BY <1>7, AtPlace DEF Grow, Effect
<1>11. CASE Return(p)
  BY <1>9, <1>10, <1>11, ReturnTypes
<1>12. CASE Goto(p, "record")
  <2>1. PICK l : l = [g EXCEPT !.pc = "record"]
    OBVIOUS
  <2>2. l \in Locals
    <3>1. "record" \in Places
      BY DEF Places
    <3>. QED BY <1>1, <2>1, <3>1 DEF Locals
  <2>3. PlaceSound(l, jobs', Len(messages'))
    BY <1>1, <1>7, <1>10, <2>1 DEF PlaceSound, Locals, Filling, Placing, Answering, Dispatching
  <2>4. h' = [h EXCEPT ![p] = l]
    BY <1>12, <2>1 DEF Goto
  <2>. QED BY <1>9, <1>10, <2>2, <2>3, <2>4, StepTypes
<1>. QED BY <1>11, <1>12 DEF Effect

LEMMA RecordTypes ==
  ASSUME Types, NEW p \in Handlers, RecordCommand(p), h[p].req.command \in Commands,
         h[p].req.command = "new" => h[p].made # <<>>
  PROVE  Types'
<1>. PICK g : g = h[p]
  OBVIOUS
<1>1. g \in Locals /\ PlaceSound(g, jobs, Len(messages)) /\ g.pc = "record"
  BY AtPlace DEF RecordCommand, At
<1>2. events' \subseteq Control
  BY ControlTypes DEF RecordCommand, Types, TablesOK
<1>3. TablesOK' /\ Grow /\ jobs' = jobs /\ messages' = messages
  BY <1>2 DEF Types, TablesOK, Grow, RecordCommand, poolVars, ghosts, counters
<1>4. CASE Return(p)
  BY <1>3, <1>4, ReturnTypes
<1>5. CASE Goto(p, "schedule") /\ g.made # <<>>
  <2>1. PICK l : l = [g EXCEPT !.pc = "schedule"]
    OBVIOUS
  <2>2. l \in Locals
    <3>1. "schedule" \in Places
      BY DEF Places
    <3>. QED BY <1>1, <2>1, <3>1 DEF Locals
  <2>3. PlaceSound(l, jobs, Len(messages))
    BY <1>1, <1>5, <2>1 DEF PlaceSound, Locals, Filling, Placing, Answering, Dispatching
  <2>4. h' = [h EXCEPT ![p] = l]
    BY <1>5, <2>1 DEF Goto
  <2>. QED BY <1>3, <2>2, <2>3, <2>4, StepTypes
<1>. QED BY <1>4, <1>5 DEF RecordCommand

LEMMA CrashTypes ==
  ASSUME Types, Crash
  PROVE  Types'
<1>1. TablesOK' /\ jobs' = jobs /\ messages' = messages /\ Len(messages) \in Nat
  BY DEF Types, TablesOK, Crash, poolVars, intakeVars
<1>2. h' \in [Handlers -> Locals]
  BY IdleTypes DEF Crash
<1>3. \A p \in Handlers : PlaceSound(h'[p], jobs', Len(messages'))
  BY <1>1, IdleTypes DEF Crash
<1>. QED BY <1>1, <1>2, <1>3 DEF Types

LEMMA InitTypes ==
  ASSUME Init
  PROVE  Types /\ DOMAIN messages = {}
<1>1. Placed0 \in Seq(ContextRows)
  BY PlacedAssumption
<1>. PICK n \in Nat : n = Len(Placed0) /\ DOMAIN Placed0 = 1 .. n
  BY <1>1
<1>2. agents \in [Agents -> Roles \union {"absent"}]
  BY AgentsAssumption DEF Init, PoolInit
<1>3. runtimes \in [Agents -> RuntimeStatuses]
  BY DEF Init, PoolInit, RuntimeStatuses, Dispatchable
<1>4. stored \subseteq CustomPools
  BY DEF Init, PoolInit
<1>5. jobs \in Seq(JobRows) /\ Len(jobs) = n
  <2>1. \A j \in 1 .. n : JobRow(Placed0[j].agent, 0, Placed0[j].runtime, "general") \in JobRows
    <3>1. ASSUME NEW j \in 1 .. n
          PROVE  JobRow(Placed0[j].agent, 0, Placed0[j].runtime, "general") \in JobRows
      <4>1. Placed0[j].agent \in Agents /\ Placed0[j].runtime \in MaybeAgent
        <5>1. Placed0[j] \in ContextRows
          BY <1>1
        <5>. QED BY <5>1 DEF ContextRows, MaybeAgent
      <4>2. "general" \in Channels /\ "queued" \in Statuses
        BY DEF Channels, Statuses
      <4>. QED BY <4>1, <4>2 DEF JobRow, JobRows
    <3>. QED BY <3>1
  <2>2. jobs \in [1 .. n -> JobRows]
    BY <2>1 DEF Init, PoolInit
  <2>. QED BY <2>2
<1>6. contexts \in Seq(MaybeContext) /\ Len(contexts) = n
  <2>1. contexts = Placed0
    BY DEF Init, PoolInit
  <2>2. \A j \in 1 .. n : Placed0[j] \in MaybeContext
    BY <1>1 DEF MaybeContext
  <2>. QED BY <1>1, <2>1, <2>2
<1>7. members \in [Agents -> MaybeMember]
  <2>1. ASSUME NEW a \in Agents PROVE members[a] \in MaybeMember
    <3>1. PICK lead \in BOOLEAN : lead = (a = Lead)
      OBVIOUS
    <3>2. PICK role : role = DefaultRole(RoleOf[a], lead)
      OBVIOUS
    <3>3. role \in Roles \union {"absent"} /\ a \in MaybeAgent
      BY <3>2, AgentsAssumption DEF DefaultRole, Roles, MaybeAgent
    <3>4. PICK policy \in PolicyRows : policy = Policy(DefaultPolicy(role, lead))
      <4>1. PolicyOnCreate(role, lead, {}, {}) \in PolicyRows
        BY CreatedPolicy
      <4>2. (DefaultPolicy(role, lead) \ {}) \union {} = DefaultPolicy(role, lead)
        OBVIOUS
      <4>. QED BY <4>1, <4>2 DEF PolicyOnCreate
    <3>5. [id |-> 0, agent |-> a, role |-> role, lead |-> lead, runtime |-> a, policy |-> policy]
            \in MemberRow
      BY <3>3, MemberTypes
    <3>. QED BY <3>1, <3>2, <3>4, <3>5 DEF Init, MaybeMember
  <2>. QED BY <2>1 DEF Init
<1>8. active \in [DOMAIN Rules -> BOOLEAN]
  BY DEF Init
<1>9. messages \in Seq(MessageRow) /\ Len(messages) = 0 /\ DOMAIN messages = {}
  BY DEF Init
<1>10. TablesOK
  BY <1>2, <1>3, <1>4, <1>5, <1>6, <1>7, <1>8, <1>9 DEF TablesOK, Init, PoolInit
<1>11. h \in [Handlers -> Locals] /\ \A p \in Handlers : h[p] = Idle
  BY IdleTypes DEF Init, PoolInit
<1>12. \A p \in Handlers : PlaceSound(h[p], jobs, Len(messages))
  BY <1>9, <1>11, IdleTypes
<1>. QED BY <1>9, <1>10, <1>11, <1>12 DEF Types

\* What the invariant about messages says of the handler at its place.
LEMMA ServingHolds ==
  ASSUME Types, NEW p \in Handlers, ServeSound(h[p])
  PROVE  /\ h[p].pc = "mention" =>
              Len(messages[h[p].message].mentions) + 1 \in DOMAIN h[p].todo
         /\ h[p].pc = "next_job" => (h[p].made = <<>> => h[p].todo # <<>>)
         /\ h[p].pc \in {"effect", "record"} => h[p].req.command \in Commands
         /\ h[p].pc = "record" => (h[p].req.command = "new" => h[p].made # <<>>)
<1>. PICK g : g = h[p]
  OBVIOUS
<1>1. g \in Locals /\ PlaceSound(g, jobs, Len(messages)) /\ Len(messages) \in Nat
  BY AtPlace
<1>. PICK m : m = g.message
  OBVIOUS
<1>2. g.pc \in Answering => m \in DOMAIN messages /\ messages[m] \in MessageRow /\ m # 0
  <2>1. messages \in Seq(MessageRow)
    BY DEF Types, TablesOK
  <2>2. g.pc \in Answering => m \in Nat /\ m # 0 /\ m <= Len(messages)
    BY <1>1 DEF PlaceSound, Locals
  <2>. QED BY <2>1, <2>2
<1>3. g.pc = "mention" => Len(messages[m].mentions) + 1 \in DOMAIN g.todo
  <2>1. g.todo \in Seq(MentionRow)
    BY <1>1 DEF Locals
  <2>2. ASSUME g.pc = "mention" PROVE Len(messages[m].mentions) + 1 \in DOMAIN g.todo
    <3>1. Len(messages[m].mentions) < Len(g.todo)
      BY <1>2, <2>2 DEF ServeSound, Answering
    <3>2. messages[m].mentions \in Seq(Agents)
      BY <1>2, <2>2 DEF Answering, MessageRow
    <3>3. Len(messages[m].mentions) \in Nat /\ Len(g.todo) \in Nat /\ DOMAIN g.todo = 1 .. Len(g.todo)
      BY <2>1, <3>2
    <3>. QED BY <3>1, <3>3
  <2>. QED BY <2>2
<1>4. g.pc = "next_job" => (g.made = <<>> => g.todo # <<>>)
  BY <1>2 DEF ServeSound, Answering
<1>5. g.pc \in {"effect", "record"} => g.req.command \in Commands
  BY <1>2 DEF ServeSound, Answering, MessageRow
<1>6. g.pc = "record" => (g.req.command = "new" => g.made # <<>>)
  BY <1>2 DEF ServeSound, Answering
<1>. QED BY <1>3, <1>4, <1>5, <1>6

LEMMA TypesStep ==
  ASSUME Types, Intake, Next
  PROVE  Types'
<1>1. ASSUME NEW p \in Handlers, PoolStep(p), UNCHANGED intakeVars PROVE Types'
  BY <1>1, PlanTypes, SelectTypes, ResolveTypes, InsertTypes, ReadContextTypes, WriteTypes,
     RebindTypes, StoreTypes DEF PoolStep
<1>2. ASSUME NEW p \in Handlers, MessageStep(p) PROVE Types'
  <2>1. ServeSound(h[p])
    BY DEF Intake
  <2>2. CASE InsertMention(p)
    BY <2>1, <2>2, ServingHolds, MentionTypes DEF InsertMention, At
  <2>3. CASE NextJob(p)
    BY <2>1, <2>3, ServingHolds, NextJobTypes DEF NextJob, CreateNext, At
  <2>. QED BY <1>2, <2>2, <2>3, PreviewTypes, SenderTypes, StoreMessageTypes, SessionTypes,
              RouteTypes, ScheduleTypes, RerouteTypes, HeldTypes, DispatchTypes, PendingTypes
              DEF MessageStep
<1>3. ASSUME NEW p \in Handlers, CommandStep(p) PROVE Types'
  <2>1. ServeSound(h[p])
    BY DEF Intake
  <2>2. CASE Effect(p)
    BY <2>1, <2>2, ServingHolds, EffectTypes DEF Effect, At
  <2>3. CASE RecordCommand(p)
    BY <2>1, <2>3, ServingHolds, RecordTypes DEF RecordCommand, At
  <2>. QED BY <1>3, <2>2, <2>3, ResolveTargetTypes, PermitTypes, TargetTypes DEF CommandStep
<1>4. ASSUME NEW p \in Handlers, NEW r \in Requests,
             (PoolRequest(p, r) /\ UNCHANGED intakeVars) \/ IntakeRequest(p, r)
      PROVE  Types'
  BY <1>4, AssignTypes, RecoverTypes, PoolTypes, PostTypes, CreateJobTypes, BeatTypes,
     MemberRequestTypes, RuleTypes DEF PoolRequest, IntakeRequest
<1>. QED BY <1>1, <1>2, <1>3, <1>4, MemberStepTypes, CrashTypes DEF Next

LEMMA StutterTypes ==
  ASSUME Types, UNCHANGED vars
  PROVE  Types'
<1>1. TablesOK'
  BY DEF Types, TablesOK, vars, poolVars, intakeVars, ghosts, counters
<1>2. h' = h /\ jobs' = jobs /\ messages' = messages
  BY DEF vars, poolVars, intakeVars
<1>. QED BY <1>1, <1>2 DEF Types
----------------------------------------------------------------------------
(* Work contexts *)

\* A pool is chosen, and its context is not written yet.
Chosen == {"runtime", "insert", "read_context", "write_context"}

\* The handler p goes on or begins, and only one handler at a time if nothing overlaps.
Turn(p) ==
  \/ h[p].pc # "idle" /\ overlapped' = overlapped
  \/ h[p].pc = "idle" /\ overlapped' = (overlapped \/ \E q \in Handlers \ {p} : ~At(q, "idle"))

\* A step that no context and no choice of a pool depends on.
Quiet(p, l) ==
  /\ h' = [h EXCEPT ![p] = l] /\ l.pc \notin Chosen \union {"recover"}
  /\ h[p].pc \notin Placing
  /\ contexts' = contexts /\ DOMAIN jobs' = DOMAIN jobs /\ crashes' = crashes /\ Turn(p)

LEMMA ReturnQuiet ==
  ASSUME Types, NEW p \in Handlers, Return(p), h[p].pc \notin Placing, contexts' = contexts,
         DOMAIN jobs' = DOMAIN jobs, crashes' = crashes, Turn(p)
  PROVE  Quiet(p, Idle)
BY DEF Return, Become, Quiet, Idle, Chosen

LEMMA GotoQuiet ==
  ASSUME Types, NEW p \in Handlers, NEW pc, Goto(p, pc), pc \notin Chosen \union {"recover"},
         h[p].pc \notin Placing, contexts' = contexts,
         DOMAIN jobs' = DOMAIN jobs, crashes' = crashes, Turn(p)
  PROVE  Quiet(p, [h[p] EXCEPT !.pc = pc])
BY AtPlace DEF Goto, Quiet, Locals

LEMMA MessageQuiet ==
  ASSUME Types, NEW p \in Handlers, MessageStep(p)
  PROVE  \E l : Quiet(p, l)
<1>. PICK g : g = h[p]
  OBVIOUS
<1>1. g \in Locals
  BY AtPlace
<1>. Idle.pc = "idle"
  BY DEF Idle
<1>2. CASE Preview(p)
  <2>1. PICK l : h' = [h EXCEPT ![p] = l] /\ l.pc \in {"sender", "store", "idle"}
    <3>1. PICK next \in {"sender", "store"} : next = IF FromAgent(p) THEN "sender" ELSE "store"
      OBVIOUS
    <3>2. PICK todo : todo = [i \in DOMAIN g.req.names |->
            [agent |-> Resolve(g.req.names[i]), runtime |-> members[Resolve(g.req.names[i])].runtime]]
      OBVIOUS
    <3>3. PICK l : /\ h' = [h EXCEPT ![p] = l]
                   /\ \/ l = [g EXCEPT !.pc = next] \/ l = Idle
                      \/ l = [g EXCEPT !.pc = next, !.todo = todo]
      BY <1>2, <3>1, <3>2 DEF Preview, Become
    <3>4. l.pc \in {"sender", "store", "idle"}
      BY <1>1, <3>3 DEF Locals
    <3>. QED BY <3>3, <3>4
  <2>. QED BY <1>2, <2>1 DEF Preview, At, Quiet, Turn, Chosen, Placing, poolVars, ghosts, counters
<1>3. CASE CheckSender(p) \/ TouchSession(p)
  <2>1. /\ Return(p) \/ \E pc \in {"store", "command", "route"} : Goto(p, pc)
        /\ h[p].pc \in {"sender", "session"} /\ contexts' = contexts /\ jobs' = jobs
        /\ crashes' = crashes /\ overlapped' = overlapped
    BY <1>3 DEF CheckSender, TouchSession, At, poolVars, ghosts, counters
  <2>. QED BY <2>1, ReturnQuiet, GotoQuiet DEF Turn, Chosen, Placing
<1>4. CASE StoreMessage(p) \/ Route(p)
  <2>1. PICK l : h' = [h EXCEPT ![p] = l] /\ l.pc \in {"session", "mention"}
    <3>1. PICK l : /\ h' = [h EXCEPT ![p] = l]
                   /\ \/ l = [g EXCEPT !.message = Len(messages) + 1, !.pc = "session"]
                      \/ l = [g EXCEPT !.channel = RoutingChannel(Rules, ActiveRules, g.req.channel, g.req.sender),
                                       !.pc = "mention"]
      BY <1>4 DEF StoreMessage, Route, Become
    <3>2. l.pc \in {"session", "mention"}
      BY <1>1, <3>1 DEF Locals
    <3>. QED BY <3>1, <3>2
  <2>. QED BY <1>4, <2>1 DEF StoreMessage, Route, At, Quiet, Turn, Chosen, Placing, poolVars, ghosts, counters
<1>5. CASE InsertMention(p)
  <2>1. PICK l : h' = [h EXCEPT ![p] = l] /\ l.pc \in {"mention", "next_job"}
    <3>1. UNCHANGED h => h' = [h EXCEPT ![p] = g] /\ g.pc = "mention"
      BY <1>5 DEF Types, InsertMention, At
    <3>2. PICK l : h' = [h EXCEPT ![p] = l] /\ (l = g \/ l = [g EXCEPT !.pc = "next_job"])
      BY <1>5, <3>1 DEF InsertMention, Goto
    <3>3. l.pc \in {"mention", "next_job"}
      BY <1>1, <1>5, <3>2 DEF Locals, InsertMention, At
    <3>. QED BY <3>2, <3>3
  <2>. QED BY <1>5, <2>1 DEF InsertMention, At, Quiet, Turn, Chosen, Placing, poolVars, ghosts, counters
<1>6. CASE NextJob(p)
  <2>1. PICK l : h' = [h EXCEPT ![p] = l] /\ l.pc \in {"schedule", "plan"}
    <3>1. PICK seen : seen = {jobs[h[p].made[i]].agent : i \in DOMAIN h[p].made}
      OBVIOUS
    <3>2. PICK first : first = Min({i \in DOMAIN g.todo : g.todo[i].agent \notin seen})
      OBVIOUS
    <3>3. PICK l : /\ h' = [h EXCEPT ![p] = l]
                   /\ \/ l = [g EXCEPT !.pc = "schedule", !.todo = <<>>]
                      \/ l = [Creating(g, g.todo[first].agent, g.message, g.channel,
                                       Runtime(g.todo[first]), "next_job")
                                EXCEPT !.todo = SubSeq(g.todo, first + 1, Len(g.todo))]
      BY <1>6, <3>1, <3>2 DEF NextJob, CreateNext, Become
    <3>4. l.pc \in {"schedule", "plan"}
      BY <1>1, <3>3 DEF Creating, Locals
    <3>. QED BY <3>3, <3>4
  <2>. QED BY <1>6, <2>1 DEF NextJob, CreateNext, At, Quiet, Turn, Chosen, Placing, poolVars, ghosts, counters
<1>7. CASE Schedule(p)
  <2>1. PICK l : h' = [h EXCEPT ![p] = l] /\ l.pc \in {"reroute", "hold", "dispatch"}
    <3>1. PICK j, rule : j = Head(g.made) /\ rule = JobDispatch(Rules, ActiveRules, jobs[j].channel, jobs[j].agent)
      OBVIOUS
    <3>2. PICK pc \in {"reroute", "hold", "dispatch"} :
            pc = IF rule.channel # jobs[j].channel THEN "reroute"
                 ELSE IF rule.held THEN "hold" ELSE "dispatch"
      OBVIOUS
    <3>3. PICK l : l = [g EXCEPT !.job = j, !.row = [jobs[j] EXCEPT !.channel = rule.channel],
                                 !.held = rule.held, !.pc = pc]
      OBVIOUS
    <3>4. h' = [h EXCEPT ![p] = l]
      BY <1>7, <3>1, <3>2, <3>3 DEF Schedule, Become
    <3>5. l.pc = pc
      BY <1>1, <3>3 DEF Locals
    <3>. QED BY <3>2, <3>4, <3>5
  <2>. QED BY <1>7, <2>1 DEF Schedule, At, Quiet, Turn, Chosen, Placing, poolVars, ghosts, counters
<1>8. CASE Reroute(p)
  <2>1. PICK pc \in {"hold", "dispatch"} : Goto(p, pc)
    BY <1>8 DEF Reroute
  <2>. QED BY <1>8, <2>1, GotoQuiet
           DEF Reroute, At, Turn, Chosen, Placing, UpdateJob, intakeVars, ghosts, counters
<1>9. CASE Hold(p) \/ Dispatch(p)
  <2>1. PICK l : h' = [h EXCEPT ![p] = l] /\ l.pc \in {"idle", "schedule"}
    <3>1. PICK l : /\ h' = [h EXCEPT ![p] = l]
                   /\ l = Idle \/ l = [g EXCEPT !.pc = "schedule", !.made = Tail(@)]
      BY <1>9 DEF Hold, Dispatch, Scheduled, Become
    <3>2. l.pc \in {"idle", "schedule"}
      BY <1>1, <3>1 DEF Locals
    <3>. QED BY <3>1, <3>2
  <2>. QED BY <1>9, <2>1 DEF Hold, Dispatch, At, Quiet, Turn, Chosen, Placing, UpdateJob, ghosts, counters
<1>10. CASE DispatchPending(p)
  BY <1>10, ReturnQuiet DEF DispatchPending, At, Turn, Placing, ghosts, counters
<1>. QED BY <1>2, <1>3, <1>4, <1>5, <1>6, <1>7, <1>8, <1>9, <1>10 DEF MessageStep

LEMMA CommandQuiet ==
  ASSUME Types, NEW p \in Handlers, CommandStep(p)
  PROVE  \E l : Quiet(p, l)
<1>. PICK g : g = h[p]
  OBVIOUS
<1>1. g \in Locals
  BY AtPlace
<1>. Idle.pc = "idle"
  BY DEF Idle
<1>2. CASE ResolveTarget(p)
  <2>1. PICK l : h' = [h EXCEPT ![p] = l] /\ l.pc \in {"permit", "idle"}
    <3>1. PICK l : /\ h' = [h EXCEPT ![p] = l]
                   /\ \/ l = [g EXCEPT !.target = Resolve(Head(g.req.names)), !.pc = "permit"]
                      \/ l = [g EXCEPT !.target = g.req.sender, !.pc = "permit"]
                      \/ l = Idle
      BY <1>2 DEF ResolveTarget, Become
    <3>2. l.pc \in {"permit", "idle"}
      BY <1>1, <3>1 DEF Locals
    <3>. QED BY <3>1, <3>2
  <2>. QED BY <1>2, <2>1 DEF ResolveTarget, At, Quiet, Turn, Chosen, Placing, poolVars, ghosts, counters
<1>3. CASE Permit(p)
  <2>1. PICK l : h' = [h EXCEPT ![p] = l] /\ l.pc \in {"plan", "target", "idle"}
    <3>1. PICK l : /\ h' = [h EXCEPT ![p] = l]
                   /\ \/ l = Creating(g, g.target, g.message, g.req.channel, None, "record")
                      \/ l = [g EXCEPT !.pc = "target"]
                      \/ l = Idle
      BY <1>3 DEF Permit, Return, Become
    <3>2. l.pc \in {"plan", "target", "idle"}
      BY <1>1, <3>1 DEF Creating, Locals
    <3>. QED BY <3>1, <3>2
  <2>. QED BY <1>3, <2>1 DEF Permit, At, Quiet, Turn, Chosen, Placing, poolVars, ghosts, counters
<1>4. CASE TargetJob(p)
  <2>1. PICK l : h' = [h EXCEPT ![p] = l] /\ l.pc \in {"effect", "idle"}
    <3>1. PICK all : all = JobsOf(g.target)
      OBVIOUS
    <3>2. PICK open : open = {j \in all : jobs[j].status \notin TerminalStatuses}
      OBVIOUS
    <3>3. PICK among : among = IF open # {} THEN open ELSE all
      OBVIOUS
    <3>4. PICK j : j = CHOOSE i \in among : \A k \in among : k <= i
      OBVIOUS
    <3>5. PICK l : /\ h' = [h EXCEPT ![p] = l]
                   /\ l = Idle \/ l = [g EXCEPT !.job = j, !.pc = "effect"]
      BY <1>4, <3>1, <3>2, <3>3, <3>4 DEF TargetJob, Become
    <3>6. l.pc \in {"effect", "idle"}
      BY <1>1, <3>5 DEF Locals
    <3>. QED BY <3>5, <3>6
  <2>. QED BY <1>4, <2>1 DEF TargetJob, At, Quiet, Turn, Chosen, Placing, poolVars, ghosts, counters
<1>5. CASE Effect(p) \/ RecordCommand(p)
  <2>1. Return(p) \/ \E pc \in {"record", "schedule"} : Goto(p, pc)
    BY <1>5 DEF Effect, RecordCommand
  <2>2. /\ h[p].pc \in {"effect", "record"} /\ contexts' = contexts /\ DOMAIN jobs' = DOMAIN jobs
        /\ crashes' = crashes /\ overlapped' = overlapped
    BY <1>5 DEF Effect, RecordCommand, At, UpdateJob, poolVars, ghosts, counters
  <2>. QED BY <2>1, <2>2, ReturnQuiet, GotoQuiet DEF Turn, Chosen, Placing
<1>. QED BY <1>2, <1>3, <1>4, <1>5 DEF CommandStep

LEMMA MemberQuiet ==
  ASSUME Types, NEW p \in Handlers, MemberStep(p)
  PROVE  \E l : Quiet(p, l)
<1>1. Return(p) /\ h[p].pc \in {"join", "patch", "leave"} /\ contexts' = contexts
      /\ jobs' = jobs /\ crashes' = crashes /\ overlapped' = overlapped
  BY DEF MemberStep, InsertParticipant, UpdateParticipant, DeleteParticipant, At, poolVars,
         ghosts, counters
<1>. QED BY <1>1, ReturnQuiet DEF Turn, Placing

LEMMA BeginQuiet ==
  ASSUME Types, NEW p \in Handlers, NEW r, NEW l, Begin(p, r, l),
         [l EXCEPT !.req = r].pc \notin Chosen \union {"recover"},
         contexts' = contexts, jobs' = jobs
  PROVE  Quiet(p, [l EXCEPT !.req = r])
BY DEF Begin, Become, Quiet, Turn, At, Placing, Chosen

LEMMA RequestQuiet ==
  ASSUME Types, NEW p \in Handlers, NEW r \in Requests,
         \/ IntakeRequest(p, r)
         \/ PoolRequest(p, r) /\ ~Recover(p, r)
  PROVE  \E l : Quiet(p, l) /\ l.message = 0 /\ jobs' = jobs /\ conflicts' = conflicts
<1>. PICK i : i = Idle
  OBVIOUS
<1>1. i \in Locals /\ i.pc = "idle" /\ i.message = 0
  BY IdleTypes DEF Idle
<1>2. PICK l : /\ Begin(p, r, l) /\ contexts' = contexts /\ jobs' = jobs
               /\ [l EXCEPT !.req = r].pc \notin Chosen \union {"recover"}
               /\ [l EXCEPT !.req = r].message = 0
  <2>1. CASE PostMessage(p, r)
    <3>1. PICK l : l = [i EXCEPT !.pc = "preview"]
      OBVIOUS
    <3>2. [l EXCEPT !.req = r].pc = "preview" /\ [l EXCEPT !.req = r].message = 0
      BY <1>1, <3>1 DEF Locals
    <3>3. Begin(p, r, l)
      BY <2>1, <3>1 DEF PostMessage
    <3>. QED BY <2>1, <3>2, <3>3 DEF PostMessage, poolVars, Chosen
  <2>2. CASE CreateJob(p, r)
    <3>1. Begin(p, r, [Creating(i, r.agent, 0, "general", None, "schedule")
                         EXCEPT !.pref = r.pool, !.caps = r.caps])
      BY <2>2 DEF CreateJob
    <3>2. PICK l : l = [Creating(i, r.agent, 0, "general", None, "schedule")
                          EXCEPT !.pref = r.pool, !.caps = r.caps]
      OBVIOUS
    <3>3. [l EXCEPT !.req = r].pc = "plan" /\ [l EXCEPT !.req = r].message = 0
      BY <1>1, <3>2 DEF Creating, Locals
    <3>. QED BY <2>2, <3>1, <3>2, <3>3 DEF CreateJob, poolVars, Chosen
  <2>3. CASE Heartbeat(p, r)
    <3>1. PICK l : Begin(p, r, l) /\ (l = [i EXCEPT !.agent = r.agent, !.pc = "pending"] \/ l = i)
      BY <2>3 DEF Heartbeat
    <3>2. [l EXCEPT !.req = r].pc \in {"pending", "idle"} /\ [l EXCEPT !.req = r].message = 0
      BY <1>1, <3>1 DEF Locals
    <3>. QED BY <2>3, <3>1, <3>2 DEF Heartbeat, Chosen
  <2>4. CASE Join(p, r) \/ Patch(p, r) \/ Leave(p, r)
    <3>1. PICK pc \in {"join", "patch", "leave"}, row \in MemberRow :
            /\ Begin(p, r, [i EXCEPT !.member = row, !.pc = pc])
            /\ UNCHANGED <<poolVars, intakeVars>>
      BY <2>4, MemberRead
    <3>2. PICK l : l = [i EXCEPT !.member = row, !.pc = pc]
      OBVIOUS
    <3>3. [l EXCEPT !.req = r].pc = pc /\ [l EXCEPT !.req = r].message = 0
      BY <1>1, <3>2 DEF Locals
    <3>. QED BY <3>1, <3>2, <3>3 DEF poolVars, Chosen
  <2>5. CASE SwitchRule(p, r) \/ PatchAgent(p, r)
    <3>1. Begin(p, r, i)
      BY <2>5 DEF SwitchRule, PatchAgent
    <3>. QED BY <1>1, <2>5, <3>1 DEF SwitchRule, PatchAgent, poolVars, Locals, Chosen
  <2>6. CASE Assign(p, r)
    <3>1. PICK l : l = [i EXCEPT !.job = r.job, !.agent = jobs[r.job].agent,
                                !.pref = r.pool, !.caps = r.caps, !.pc = "plan"]
      OBVIOUS
    <3>2. [l EXCEPT !.req = r].pc = "plan" /\ [l EXCEPT !.req = r].message = 0
      BY <1>1, <3>1 DEF Locals
    <3>3. Begin(p, r, l)
      BY <2>6, <3>1 DEF Assign
    <3>. QED BY <2>6, <3>2, <3>3 DEF Assign, poolVars, Chosen
  <2>7. CASE CreatePool(p, r)
    <3>1. PICK l : l = [i EXCEPT !.pool = r.key, !.pc = "store_pool"]
      OBVIOUS
    <3>2. [l EXCEPT !.req = r].pc = "store_pool" /\ [l EXCEPT !.req = r].message = 0
      BY <1>1, <3>1 DEF Locals
    <3>3. Begin(p, r, l)
      BY <2>7, <3>1 DEF CreatePool
    <3>. QED BY <2>7, <3>2, <3>3 DEF CreatePool, poolVars, Chosen
  <2>8. CASE CreateAgent(p, r)
    <3>1. PICK l : l = [i EXCEPT !.agent = r.agent, !.pc = "store_runtime"]
      OBVIOUS
    <3>2. [l EXCEPT !.req = r].pc = "store_runtime" /\ [l EXCEPT !.req = r].message = 0
      BY <1>1, <3>1 DEF Locals
    <3>3. Begin(p, r, l)
      BY <2>8, <3>1 DEF CreateAgent
    <3>. QED BY <2>8, <3>2, <3>3 DEF CreateAgent, Chosen
  <2>. QED BY <2>1, <2>2, <2>3, <2>4, <2>5, <2>6, <2>7, <2>8 DEF IntakeRequest, PoolRequest
<1>. QED BY <1>2, BeginQuiet DEF Begin

\* A job is without a context only as long as its handler is about to place it.
LEMMA FollowStep ==
  ASSUME Types, ContextFollowsJob, NEW p \in Handlers, NEW l, h' = [h EXCEPT ![p] = l],
         crashes' = crashes, 0 \notin DOMAIN jobs',
         \A j \in DOMAIN jobs' :
           contexts'[j] = NoContext => \/ j \in DOMAIN jobs /\ contexts[j] = NoContext
                                       \/ l.job = j /\ l.pc \in Placing,
         h[p].pc \in Placing => \/ l.job = h[p].job /\ (l.pc \in Placing \/ l.job = 0)
                                \/ contexts'[h[p].job] # NoContext
  PROVE  ContextFollowsJob'
<1>. SUFFICES ASSUME NEW j \in DOMAIN jobs', contexts'[j] = NoContext, ~(crashes > 0)
              PROVE  \E q \in Handlers : h'[q].job = j /\ h'[q].pc \in Placing
  BY DEF ContextFollowsJob
<1>1. h'[p] = l /\ \A q \in Handlers : q # p => h'[q] = h[q]
  BY DEF Types
<1>2. CASE l.job = j /\ l.pc \in Placing
  BY <1>1, <1>2
<1>3. CASE ~(l.job = j /\ l.pc \in Placing)
  <2>1. PICK q \in Handlers : h[q].job = j /\ h[q].pc \in Placing
    BY <1>3 DEF ContextFollowsJob
  <2>2. CASE q = p
    BY <1>3, <2>1, <2>2
  <2>3. CASE q # p
    BY <1>1, <2>1, <2>3
  <2>. QED BY <2>2, <2>3
<1>. QED BY <1>2, <1>3

LEMMA FollowQuiet ==
  ASSUME Types, ContextFollowsJob, NEW p \in Handlers, NEW l, Quiet(p, l)
  PROVE  ContextFollowsJob'
<1>1. 0 \notin DOMAIN jobs'
  BY AtPlace DEF Quiet
<1>. QED BY <1>1, FollowStep DEF Quiet

\* A handler that places a job keeps what it creates the job for.
Keeps(l, g) ==
  /\ l.agent = g.agent /\ l.made = g.made /\ l.todo = g.todo /\ l.cont = g.cont
  /\ l.message = g.message /\ l.req = g.req /\ l.source = g.source

\* The steps of a placement that write nothing.
LEMMA PlacingStep ==
  ASSUME Types, NEW p \in Handlers,
         PlanAssignment(p) \/ SelectPool(p) \/ ResolveRuntime(p) \/ ReadContext(p)
  PROVE  \E l : /\ h' = [h EXCEPT ![p] = l] /\ l.job = h[p].job /\ Keeps(l, h[p])
                /\ l.pc \in Placing \/ l.job = 0
                /\ l.pc \in Placing \union {"insert"} /\ h[p].pc \in Placing
<1>. PICK g : g = h[p]
  OBVIOUS
<1>1. g \in Locals
  BY AtPlace
<1>2. CASE PlanAssignment(p)
  <2>1. PICK l : l = [g EXCEPT !.pool = FirstPool(g.pref), !.visited = {}, !.fallback = FALSE, !.pc = "select"]
    OBVIOUS
  <2>2. l.job = g.job /\ Keeps(l, g) /\ l.pc = "select"
    BY <1>1, <2>1 DEF Locals, Keeps
  <2>3. h' = [h EXCEPT ![p] = l]
    BY <1>2, <2>1 DEF PlanAssignment, Become
  <2>. QED BY <1>2, <2>2, <2>3 DEF PlanAssignment, At, Placing
<1>3. CASE SelectPool(p)
  <2>1. PICK seen, next : seen = g.visited \union {g.pool} /\ next = NextPool(g.pool, seen)
    OBVIOUS
  <2>2. PICK l : /\ h' = [h EXCEPT ![p] = l]
                 /\ \/ l = [g EXCEPT !.visited = seen, !.pc = "runtime"]
                    \/ l = [g EXCEPT !.visited = seen, !.pool = next, !.fallback = TRUE]
    BY <1>3, <2>1 DEF SelectPool, Become
  <2>3. l.job = g.job /\ Keeps(l, g) /\ l.pc \in {"runtime", g.pc}
    <3>1. CASE l = [g EXCEPT !.visited = seen, !.pc = "runtime"]
      BY <1>1, <3>1 DEF Locals, Keeps
    <3>2. CASE l = [g EXCEPT !.visited = seen, !.pool = next, !.fallback = TRUE]
      BY <1>1, <3>2 DEF Locals, Keeps
    <3>. QED BY <2>2, <3>1, <3>2
  <2>. QED BY <1>3, <2>2, <2>3 DEF SelectPool, At, Placing
<1>4. CASE ResolveRuntime(p)
  <2>1. PICK runtime, pc : /\ runtime = Resolved(g.agent, Row(g.pool).kind, g.explicit)
                           /\ pc = IF g.job = 0 THEN "insert" ELSE "read_context"
    OBVIOUS
  <2>2. PICK l : l = [g EXCEPT !.runtime = runtime, !.pc = pc]
    OBVIOUS
  <2>3. l.job = g.job /\ Keeps(l, g) /\ l.pc = pc
    BY <1>1, <2>2 DEF Locals, Keeps
  <2>4. h' = [h EXCEPT ![p] = l]
    BY <1>4, <2>1, <2>2 DEF ResolveRuntime, Become
  <2>. QED BY <1>4, <2>1, <2>3, <2>4 DEF ResolveRuntime, At, Placing
<1>5. CASE ReadContext(p)
  <2>1. PICK l : l = [g EXCEPT !.exists = ContextOf(g.job) # NoContext, !.pc = "write_context"]
    OBVIOUS
  <2>2. l.job = g.job /\ Keeps(l, g) /\ l.pc = "write_context"
    BY <1>1, <2>1 DEF Locals, Keeps
  <2>3. h' = [h EXCEPT ![p] = l]
    BY <1>5, <2>1 DEF ReadContext, Become
  <2>. QED BY <1>5, <2>2, <2>3 DEF ReadContext, At, Placing
<1>. QED BY <1>2, <1>3, <1>4, <1>5

LEMMA InsertFollows ==
  ASSUME Types, NEW p \in Handlers, InsertJob(p)
  PROVE  \E l, n : /\ h' = [h EXCEPT ![p] = l] /\ l.pc = "plan" /\ l.job = n
                   /\ n = Len(jobs) + 1 /\ DOMAIN jobs' = 1 .. n /\ DOMAIN contexts' = 1 .. n
                   /\ \A j \in DOMAIN jobs : contexts'[j] = contexts[j]
                   /\ contexts'[n] = NoContext
<1>. PICK g : g = h[p]
  OBVIOUS
<1>1. g \in Locals
  BY AtPlace
<1>2. PICK n : n = Len(jobs) + 1
  OBVIOUS
<1>3. PICK runtime : runtime = IF g.explicit # None THEN g.explicit ELSE g.runtime
  OBVIOUS
<1>4. PICK l : l = [g EXCEPT !.job = n, !.explicit = runtime, !.pc = "plan"]
  OBVIOUS
<1>5. l.pc = "plan" /\ l.job = n
  BY <1>1, <1>4 DEF Locals
<1>6. h' = [h EXCEPT ![p] = l]
  BY <1>2, <1>3, <1>4 DEF InsertJob, Become
<1>7. PICK row : jobs' = Append(jobs, row)
  BY DEF InsertJob
<1>8. contexts' = Append(contexts, NoContext)
  BY DEF InsertJob
<1>9. jobs \in Seq(JobRows) /\ contexts \in Seq(MaybeContext) /\ Len(contexts) = Len(jobs)
  BY DEF Types, TablesOK
<1>10. PICK k \in Nat : k = Len(jobs) /\ n = k + 1
  BY <1>2, <1>9
<1>11. /\ DOMAIN jobs' = 1 .. k + 1 /\ DOMAIN contexts' = 1 .. k + 1
       /\ \A j \in 1 .. k : contexts'[j] = contexts[j]
       /\ contexts'[k + 1] = NoContext /\ DOMAIN jobs = 1 .. k
  BY <1>7, <1>8, <1>9, <1>10
<1>. QED BY <1>2, <1>5, <1>6, <1>10, <1>11

\* A context that is written is one.
LEMMA WrittenContext ==
  ASSUME Types, NEW p \in Handlers, WriteContext(p) \/ Rebind(p)
  PROVE  /\ h[p].job \in DOMAIN jobs /\ jobs' = jobs /\ crashes' = crashes
         /\ overlapped' = overlapped
         /\ \/ contexts' = contexts /\ (WriteContext(p) => contexts[h[p].job] # NoContext)
            \/ \E row \in ContextRows : contexts' = [contexts EXCEPT ![h[p].job] = row]
<1>. PICK g : g = h[p]
  OBVIOUS
<1>1. g \in Locals /\ PlaceSound(g, jobs, Len(messages)) /\ g.pc \in {"write_context", "recover"}
  BY AtPlace DEF WriteContext, Rebind, At
<1>2. g.job \in DOMAIN jobs
  BY <1>1 DEF PlaceSound
<1>3. CASE WriteContext(p)
  <2>1. jobs' = jobs /\ crashes' = crashes /\ overlapped' = overlapped
    BY <1>3 DEF WriteContext, counters
  <2>2. CASE ~g.exists /\ ContextOf(g.job) # NoContext
    <3>1. contexts' = contexts
      BY <1>3, <2>2 DEF WriteContext
    <3>. QED BY <1>2, <2>1, <2>2, <3>1 DEF ContextOf
  <2>3. CASE ~(~g.exists /\ ContextOf(g.job) # NoContext)
    <3>1. g.pool \in PoolKeys /\ g.agent \in Agents
      BY <1>1, <1>3 DEF WriteContext, At, PlaceSound, Filling, Placing
    <3>2. Planned(g) \in ContextRows
      BY <1>1, <3>1, PlannedTypes
    <3>3. contexts' = [contexts EXCEPT ![g.job] = Planned(g)]
      BY <1>3, <2>3 DEF WriteContext, UpdateContext
    <3>. QED BY <1>2, <2>1, <3>2, <3>3
  <2>. QED BY <2>2, <2>3
<1>4. CASE Rebind(p)
  <2>1. g.context \in ContextRows /\ g.context.agent \in Agents
    BY <1>1, <1>4 DEF Rebind, At, PlaceSound, ContextRows
  <2>2. PICK row : row = [g.context EXCEPT !.runtime = g.context.agent,
              !.status = IF g.context.status = "active" THEN "active" ELSE "recovered"]
    OBVIOUS
  <2>3. row \in ContextRows
    BY <2>1, <2>2 DEF ContextRows
  <2>4. contexts' = contexts \/ contexts' = [contexts EXCEPT ![g.job] = row]
    BY <1>4, <2>2 DEF Rebind, UpdateContext
  <2>5. ~WriteContext(p)
    BY <1>4 DEF Rebind, WriteContext, At
  <2>. QED BY <1>2, <1>4, <2>3, <2>4, <2>5 DEF Rebind, ghosts, counters
<1>. QED BY <1>3, <1>4

LEMMA WriteLeaves ==
  ASSUME Types, NEW p \in Handlers, WriteContext(p) \/ Rebind(p)
  PROVE  \E l : /\ h' = [h EXCEPT ![p] = l] /\ l.pc \notin Chosen \union {"recover"} \union Placing
<1>. PICK g : g = h[p]
  OBVIOUS
<1>1. g \in Locals
  BY AtPlace
<1>2. Idle.pc = "idle"
  BY DEF Idle
<1>3. PICK l : h' = [h EXCEPT ![p] = l] /\ (l = Idle \/ l = Placed(g))
  BY DEF WriteContext, Rebind, Return, Become
<1>4. Placed(g).pc = g.cont
  BY <1>1 DEF Placed, Locals
<1>5. l.pc \in {"idle", "record", "next_job", "schedule"}
  BY <1>1, <1>2, <1>3, <1>4 DEF Locals
<1>. QED BY <1>3, <1>5 DEF Chosen, Placing

\* Every step that is part of Next is one of four kinds.
LEMMA StepKinds ==
  ASSUME Types, Next
  PROVE  \/ \E p \in Handlers : \E l : Quiet(p, l)
         \/ \E p \in Handlers :
              \/ PlanAssignment(p) \/ SelectPool(p) \/ ResolveRuntime(p) \/ ReadContext(p)
              \/ InsertJob(p) \/ WriteContext(p) \/ Rebind(p)
              \/ \E r \in Requests : Recover(p, r)
         \/ Crash
<1>1. ASSUME NEW p \in Handlers, StorePool(p) \/ StoreRuntime(p) PROVE \E l : Quiet(p, l)
  <2>1. Return(p) /\ h[p].pc \in {"store_pool", "store_runtime"} /\ contexts' = contexts
        /\ jobs' = jobs /\ crashes' = crashes /\ overlapped' = overlapped
    BY <1>1 DEF StorePool, StoreRuntime, At, ghosts, counters
  <2>. QED BY <2>1, ReturnQuiet DEF Turn, Placing
<1>2. ASSUME NEW p \in Handlers, NEW r \in Requests, PoolRequest(p, r) \/ IntakeRequest(p, r)
      PROVE  Recover(p, r) \/ \E l : Quiet(p, l)
  BY <1>2, RequestQuiet
<1>. QED BY <1>1, <1>2, MessageQuiet, CommandQuiet, MemberQuiet DEF Next, PoolStep

LEMMA FollowsStep ==
  ASSUME Types, ContextFollowsJob, Next
  PROVE  ContextFollowsJob'
<1>1. ASSUME NEW p \in Handlers,
             PlanAssignment(p) \/ SelectPool(p) \/ ResolveRuntime(p) \/ ReadContext(p)
      PROVE  ContextFollowsJob'
  <2>1. PICK l : /\ h' = [h EXCEPT ![p] = l] /\ l.job = h[p].job
                 /\ l.pc \in Placing \/ l.job = 0
    BY <1>1, PlacingStep
  <2>2. contexts' = contexts /\ jobs' = jobs /\ crashes' = crashes
    BY <1>1 DEF PlanAssignment, SelectPool, ResolveRuntime, ReadContext, poolVars, ghosts, counters
  <2>3. 0 \notin DOMAIN jobs'
    BY <2>2, AtPlace
  <2>. QED BY <2>1, <2>2, <2>3, FollowStep
<1>2. ASSUME NEW p \in Handlers, InsertJob(p) PROVE ContextFollowsJob'
  <2>1. PICK l, n : /\ h' = [h EXCEPT ![p] = l] /\ l.pc = "plan" /\ l.job = n
                    /\ n = Len(jobs) + 1 /\ DOMAIN jobs' = 1 .. n
                    /\ \A j \in DOMAIN jobs : contexts'[j] = contexts[j]
    BY <1>2, InsertFollows
  <2>2. PICK k \in Nat : n = k + 1 /\ DOMAIN jobs = 1 .. k
    BY <2>1, AtPlace
  <2>3. crashes' = crashes /\ h[p].pc \notin Placing /\ l.pc \in Placing
    BY <1>2, <2>1 DEF InsertJob, At, Placing, ghosts, counters
  <2>4. \A j \in DOMAIN jobs' : j \in DOMAIN jobs \/ l.job = j
    BY <2>1, <2>2
  <2>5. 0 \notin DOMAIN jobs'
    BY <2>1
  <2>. QED BY <2>1, <2>3, <2>4, <2>5, FollowStep
<1>3. ASSUME NEW p \in Handlers, WriteContext(p) \/ Rebind(p) PROVE ContextFollowsJob'
  <2>1. PICK l : h' = [h EXCEPT ![p] = l]
    BY <1>3, WriteLeaves
  <2>2. /\ h[p].job \in DOMAIN jobs /\ jobs' = jobs /\ crashes' = crashes
        /\ \/ contexts' = contexts /\ (WriteContext(p) => contexts[h[p].job] # NoContext)
           \/ \E row \in ContextRows : contexts' = [contexts EXCEPT ![h[p].job] = row]
    BY <1>3, WrittenContext
  <2>3. \A row \in ContextRows : row # NoContext
    BY DEF ContextRows, NoContext
  <2>4. contexts \in Seq(MaybeContext) /\ DOMAIN contexts = DOMAIN jobs
    BY DEF Types, TablesOK
  <2>5. \A j \in DOMAIN jobs : contexts'[j] = NoContext => contexts[j] = NoContext
    BY <2>2, <2>3, <2>4
  <2>6. h[p].pc \in Placing => contexts'[h[p].job] # NoContext
    BY <1>3, <2>2, <2>3, <2>4 DEF Rebind, At, Placing
  <2>7. 0 \notin DOMAIN jobs'
    BY <2>2, AtPlace
  <2>. QED BY <2>1, <2>2, <2>5, <2>6, <2>7, FollowStep
<1>4. ASSUME NEW p \in Handlers, NEW r \in Requests, Recover(p, r) PROVE ContextFollowsJob'
  <2>1. /\ contexts' = contexts /\ jobs' = jobs /\ crashes' = crashes /\ h[p].pc = "idle"
        /\ \E l : h' = [h EXCEPT ![p] = l]
    BY <1>4 DEF Recover, Begin, Become, At, poolVars
  <2>2. 0 \notin DOMAIN jobs' /\ h[p].pc \notin Placing
    BY <2>1, AtPlace DEF Placing
  <2>. QED BY <2>1, <2>2, FollowStep
<1>5. ASSUME Crash PROVE ContextFollowsJob'
  <2>1. crashes' > 0
    BY <1>5 DEF Crash, Types, TablesOK
  <2>. QED BY <2>1 DEF ContextFollowsJob
<1>. QED BY <1>1, <1>2, <1>3, <1>4, <1>5, FollowQuiet, StepKinds
----------------------------------------------------------------------------
(* Capacity *)

LEMMA FinitePools ==
  ASSUME Types, NEW k
  PROVE  /\ IsFiniteSet(PlacedIn(k)) /\ IsFiniteSet(Held(k))
         /\ IsFiniteSet(Recovering(k)) /\ IsFiniteSet(Choosing(k))
         /\ Cardinality(PlacedIn(k)) \in Nat /\ Cardinality(Held(k)) \in Nat
         /\ Cardinality(Recovering(k)) \in Nat /\ Cardinality(Choosing(k)) \in Nat
         /\ Cardinality(Held(k)) <= Cardinality(PlacedIn(k)) + Cardinality(Recovering(k))
<1>1. IsFiniteSet(DOMAIN contexts)
  <2>1. PICK n \in Nat : DOMAIN contexts = 1 .. n
    BY DEF Types, TablesOK
  <2>. QED BY <2>1, FS_Interval
<1>2. IsFiniteSet(PlacedIn(k))
  BY <1>1, FS_Subset DEF PlacedIn
<1>3. IsFiniteSet(Recovering(k)) /\ IsFiniteSet(Choosing(k))
  BY HandlersAssumption, FS_Subset DEF Recovering, Choosing
<1>4. PICK R : R = Recovering(k)
  OBVIOUS
<1>5. PICK T : T = {h[p].job : p \in R}
  OBVIOUS
<1>6. IsFiniteSet(T) /\ Cardinality(T) <= Cardinality(R)
  <2>1. PICK f : f = [p \in R |-> h[p].job]
    OBVIOUS
  <2>2. f \in Surjection(R, T)
    BY <1>5, <2>1 DEF Surjection
  <2>. QED BY <1>3, <1>4, <2>2, FS_Surjection
<1>7. Held(k) = PlacedIn(k) \union T
  BY <1>4, <1>5 DEF Held
<1>8. /\ IsFiniteSet(Held(k))
      /\ Cardinality(Held(k)) = Cardinality(PlacedIn(k)) + Cardinality(T) - Cardinality(PlacedIn(k) \intersect T)
  BY <1>2, <1>6, <1>7, FS_Union
<1>9. /\ Cardinality(T) \in Nat /\ Cardinality(PlacedIn(k)) \in Nat /\ Cardinality(Held(k)) \in Nat
      /\ Cardinality(Recovering(k)) \in Nat /\ Cardinality(Choosing(k)) \in Nat
  BY <1>2, <1>3, <1>6, <1>8, FS_CardinalityType
<1>10. Cardinality(PlacedIn(k) \intersect T) \in Nat
  <2>1. PICK S : S = PlacedIn(k) \intersect T
    OBVIOUS
  <2>2. S \in SUBSET T
    BY <2>1
  <2>3. IsFiniteSet(S)
    BY <1>6, <2>2, FS_Subset
  <2>. QED BY <2>1, <2>3, FS_CardinalityType
<1>. QED BY <1>2, <1>3, <1>4, <1>6, <1>8, <1>9, <1>10

\* The other handlers, and what they may add beyond the limit.
LEMMA SlackTypes ==
  ASSUME NEW p \in Handlers, overlapped \in BOOLEAN
  PROVE  /\ Cardinality(Handlers \ {p}) = Cardinality(Handlers) - 1
         /\ Cardinality(Handlers) - 1 \in Nat
         /\ Slack \in Nat /\ (overlapped => Slack = Cardinality(Handlers) - 1)
<1>1. Cardinality(Handlers \ {p}) = Cardinality(Handlers) - 1
  BY HandlersAssumption, FS_RemoveElement
<1>2. IsFiniteSet(Handlers \ {p})
  BY HandlersAssumption, FS_RemoveElement
<1>3. Cardinality(Handlers \ {p}) \in Nat
  BY <1>2, FS_CardinalityType
<1>. QED BY <1>1, <1>3 DEF Slack

LEMMA MaxTypes ==
  ASSUME NEW k \in PoolKeys
  PROVE  Row(k).max \in Nat
BY RowTypes DEF PoolRows

\* Nothing is added to the pool.
LEMMA RoomKept ==
  ASSUME Types, NEW k \in PoolKeys, Bounded(k), Held(k)' \subseteq Held(k),
         Choosing(k)' \subseteq Choosing(k), Slack \in Nat, Slack' \in Nat, Slack <= Slack'
  PROVE  Bounded(k)'
<1>1. PICK A, B, C, D : A = Held(k) /\ B = Held(k)' /\ C = Choosing(k) /\ D = Choosing(k)'
  OBVIOUS
<1>2. IsFiniteSet(A) /\ IsFiniteSet(C) /\ Cardinality(A) \in Nat /\ Cardinality(C) \in Nat
  BY <1>1, FinitePools
<1>3. B \in SUBSET A /\ D \in SUBSET C
  BY <1>1
<1>4. /\ IsFiniteSet(B) /\ Cardinality(B) <= Cardinality(A)
      /\ IsFiniteSet(D) /\ Cardinality(D) <= Cardinality(C)
  BY <1>2, <1>3, FS_Subset
<1>5. Cardinality(B) \in Nat /\ Cardinality(D) \in Nat
  BY <1>4, FS_CardinalityType
<1>6. PICK m \in Nat : m = Row(k).max
  BY MaxTypes
<1>7. Cardinality(A) + Cardinality(C) <= m + Slack
  BY <1>1, <1>6 DEF Bounded
<1>8. Cardinality(B) + Cardinality(D) <= m + Slack'
  BY <1>2, <1>4, <1>5, <1>7
<1>9. Row(k)' = Row(k)
  BY DEF Row
<1>. QED BY <1>1, <1>6, <1>8, <1>9 DEF Bounded

\* Handlers begin one at a time, or overlap.
LEMMA OneStep ==
  ASSUME Types, OneAtATime, NEW p \in Handlers, NEW l, h' = [h EXCEPT ![p] = l], Turn(p)
  PROVE  OneAtATime' /\ (overlapped => overlapped')
<1>1. h'[p] = l /\ \A q \in Handlers : q # p => h'[q] = h[q]
  BY DEF Types
<1>2. overlapped => overlapped'
  BY DEF Turn
<1>3. ~overlapped' => \A q \in Handlers : q # p => h[q].pc = "idle"
  BY DEF Turn, OneAtATime, At
<1>. QED BY <1>1, <1>2, <1>3 DEF OneAtATime, At

\* The handlers whose place is not one of these do not count.
LEMMA Stay ==
  ASSUME Types, NEW p \in Handlers, NEW l, h' = [h EXCEPT ![p] = l], NEW k,
         l.pc \in Chosen /\ l.pool = k => h[p].pc \in Chosen /\ h[p].pool = k,
         l.pc = "recover" /\ l.context.status = "active" /\ l.context.pool = k =>
           l.job \in PlacedIn(k),
         PlacedIn(k)' \subseteq Held(k)
  PROVE  Held(k)' \subseteq Held(k) /\ Choosing(k)' \subseteq Choosing(k)
<1>1. h'[p] = l /\ \A q \in Handlers : q # p => h'[q] = h[q]
  BY DEF Types
<1>2. Choosing(k)' \subseteq Choosing(k)
  BY <1>1 DEF Choosing, Chosen
<1>3. \A q \in Recovering(k)' : h'[q].job \in Held(k)
  <2>1. ASSUME NEW q \in Recovering(k)' PROVE h'[q].job \in Held(k)
    <3>1. CASE q = p
      BY <1>1, <2>1, <3>1 DEF Recovering, At, Held
    <3>2. CASE q # p
      <4>1. q \in Recovering(k) /\ h'[q].job = h[q].job
        BY <1>1, <2>1, <3>2 DEF Recovering, At
      <4>. QED BY <4>1 DEF Held
    <3>. QED BY <3>1, <3>2
  <2>. QED BY <2>1
<1>. QED BY <1>2, <1>3 DEF Held

LEMMA RoomStays ==
  ASSUME Types, Capacity, NEW p \in Handlers, NEW l, h' = [h EXCEPT ![p] = l], Turn(p),
         overlapped' \in BOOLEAN, NEW k \in PoolKeys \ {DefaultPool}, Row(k).max > 0,
         l.pc \in Chosen /\ l.pool = k => h[p].pc \in Chosen /\ h[p].pool = k,
         l.pc = "recover" /\ l.context.status = "active" /\ l.context.pool = k =>
           l.job \in PlacedIn(k),
         PlacedIn(k)' \subseteq Held(k)
  PROVE  Bounded(k)'
<1>1. overlapped => overlapped'
  BY DEF Turn
<1>2. Slack \in Nat /\ Slack' \in Nat /\ Slack <= Slack'
  <2>1. Cardinality(Handlers) - 1 \in Nat
    BY SlackTypes DEF Types, TablesOK
  <2>. QED BY <1>1, <2>1 DEF Slack, Types, TablesOK
<1>3. Held(k)' \subseteq Held(k) /\ Choosing(k)' \subseteq Choosing(k)
  BY Stay
<1>4. Bounded(k)
  BY DEF Capacity
<1>. QED BY <1>2, <1>3, <1>4, RoomKept

\* Every pool is as before, for its own reason.
LEMMA CapacityFrom ==
  ASSUME Types, Capacity, NEW p \in Handlers, NEW l, h' = [h EXCEPT ![p] = l], Turn(p),
         \A k \in PoolKeys \ {DefaultPool} : Row(k).max > 0 => Bounded(k)'
  PROVE  Capacity'
<1>1. OneAtATime'
  BY OneStep DEF Capacity
<1>2. \A k : Row(k)' = Row(k)
  BY DEF Row
<1>. QED BY <1>1, <1>2 DEF Capacity

LEMMA QuietRoom ==
  ASSUME Types, Capacity, NEW p \in Handlers, NEW l, Quiet(p, l)
  PROVE  Capacity'
<1>1. overlapped' \in BOOLEAN
  BY DEF Quiet, Turn, Types, TablesOK
<1>2. \A k : PlacedIn(k)' = PlacedIn(k)
  BY DEF Quiet, PlacedIn
<1>3. ASSUME NEW k \in PoolKeys \ {DefaultPool}, Row(k).max > 0 PROVE Bounded(k)'
  BY <1>1, <1>2, <1>3, RoomStays DEF Quiet, Held
<1>. QED BY <1>3, CapacityFrom DEF Quiet

\* The steps of a placement before the context is written, but for the choice.
LEMMA PlacingRoom ==
  ASSUME Types, Capacity, NEW p \in Handlers,
         PlanAssignment(p) \/ ResolveRuntime(p) \/ ReadContext(p) \/ InsertJob(p)
  PROVE  Capacity'
<1>. PICK g : g = h[p]
  OBVIOUS
<1>1. g \in Locals
  BY AtPlace
<1>2. overlapped' = overlapped /\ overlapped' \in BOOLEAN /\ Turn(p)
  BY DEF PlanAssignment, ResolveRuntime, ReadContext, InsertJob, At, ghosts, counters, Turn,
         Types, TablesOK
<1>3. PICK l : /\ h' = [h EXCEPT ![p] = l] /\ l.pc # "recover"
               /\ l.pc \in Chosen => g.pc \in Chosen /\ l.pool = g.pool
  <2>1. CASE PlanAssignment(p)
    <3>1. PICK l : l = [g EXCEPT !.pool = FirstPool(g.pref), !.visited = {}, !.fallback = FALSE, !.pc = "select"]
      OBVIOUS
    <3>2. l.pc = "select"
      BY <1>1, <3>1 DEF Locals
    <3>3. h' = [h EXCEPT ![p] = l]
      BY <2>1, <3>1 DEF PlanAssignment, Become
    <3>. QED BY <3>2, <3>3 DEF Chosen
  <2>2. CASE ResolveRuntime(p)
    <3>1. PICK runtime, pc : /\ runtime = Resolved(g.agent, Row(g.pool).kind, g.explicit)
                             /\ pc = IF g.job = 0 THEN "insert" ELSE "read_context"
      OBVIOUS
    <3>2. PICK l : l = [g EXCEPT !.runtime = runtime, !.pc = pc]
      OBVIOUS
    <3>3. l.pool = g.pool /\ l.pc = pc
      BY <1>1, <3>2 DEF Locals
    <3>4. h' = [h EXCEPT ![p] = l]
      BY <2>2, <3>1, <3>2 DEF ResolveRuntime, Become
    <3>. QED BY <2>2, <3>1, <3>3, <3>4 DEF ResolveRuntime, At, Chosen
  <2>3. CASE ReadContext(p)
    <3>1. PICK l : l = [g EXCEPT !.exists = ContextOf(g.job) # NoContext, !.pc = "write_context"]
      OBVIOUS
    <3>2. l.pool = g.pool /\ l.pc = "write_context"
      BY <1>1, <3>1 DEF Locals
    <3>3. h' = [h EXCEPT ![p] = l]
      BY <2>3, <3>1 DEF ReadContext, Become
    <3>. QED BY <2>3, <3>2, <3>3 DEF ReadContext, At, Chosen
  <2>4. CASE InsertJob(p)
    BY <2>4, InsertFollows DEF Chosen
  <2>. QED BY <2>1, <2>2, <2>3, <2>4
<1>4. ASSUME NEW k \in PoolKeys \ {DefaultPool} PROVE PlacedIn(k)' \subseteq PlacedIn(k)
  <2>1. CASE InsertJob(p)
    <3>1. PICK n \in Nat : /\ DOMAIN contexts' = 1 .. n + 1 /\ DOMAIN contexts = 1 .. n
                           /\ \A j \in 1 .. n : contexts'[j] = contexts[j]
                           /\ contexts'[n + 1] = NoContext
      <4>1. PICK m : /\ m = Len(jobs) + 1 /\ DOMAIN contexts' = 1 .. m
                     /\ \A j \in DOMAIN jobs : contexts'[j] = contexts[j]
                     /\ contexts'[m] = NoContext
        BY <2>1, InsertFollows
      <4>2. PICK n \in Nat : n = Len(jobs) /\ DOMAIN jobs = 1 .. n /\ DOMAIN contexts = 1 .. n
        BY DEF Types, TablesOK
      <4>. QED BY <4>1, <4>2
    <3>2. NoContext.status = "absent"
      BY DEF NoContext
    <3>3. \A j \in 1 .. n + 1 : j \in 1 .. n \/ j = n + 1
      OBVIOUS
    <3>. QED BY <3>1, <3>2, <3>3 DEF PlacedIn
  <2>2. CASE ~InsertJob(p)
    <3>1. contexts' = contexts
      BY <2>2 DEF PlanAssignment, ResolveRuntime, ReadContext, poolVars
    <3>. QED BY <3>1 DEF PlacedIn
  <2>. QED BY <2>1, <2>2
<1>5. ASSUME NEW k \in PoolKeys \ {DefaultPool}, Row(k).max > 0 PROVE Bounded(k)'
  <2>1. PlacedIn(k)' \subseteq Held(k)
    BY <1>4 DEF Held
  <2>. QED BY <1>2, <1>3, <1>5, <2>1, RoomStays
<1>. QED BY <1>2, <1>3, <1>5, CapacityFrom

LEMMA RecoverRoom ==
  ASSUME Types, Capacity, NEW p \in Handlers, NEW r \in Requests, Recover(p, r)
  PROVE  Capacity'
<1>1. PICK j, c : j = r.job /\ c = contexts[j]
  OBVIOUS
<1>2. PICK l : l = [[Idle EXCEPT !.job = j, !.context = c, !.pc = "recover"] EXCEPT !.req = r]
  OBVIOUS
<1>3. l.pc = "recover" /\ l.job = j /\ l.context = c
  BY <1>2 DEF Idle
<1>4. h' = [h EXCEPT ![p] = l]
  BY <1>1, <1>2 DEF Recover, Begin, Become, ContextOf
<1>5. Turn(p) /\ overlapped' \in BOOLEAN /\ contexts' = contexts
  BY DEF Recover, Begin, Turn, At, poolVars, Types, TablesOK
<1>6. j \in DOMAIN contexts
  BY <1>1 DEF Recover, Types, TablesOK
<1>7. ASSUME NEW k \in PoolKeys \ {DefaultPool}, Row(k).max > 0 PROVE Bounded(k)'
  <2>1. l.context.status = "active" /\ l.context.pool = k => l.job \in PlacedIn(k)
    BY <1>1, <1>3, <1>6 DEF PlacedIn
  <2>2. PlacedIn(k)' \subseteq Held(k)
    BY <1>5 DEF PlacedIn, Held
  <2>3. l.pc \notin Chosen
    BY <1>3 DEF Chosen
  <2>. QED BY <1>4, <1>5, <1>7, <2>1, <2>2, <2>3, RoomStays
<1>. QED BY <1>4, <1>5, <1>7, CapacityFrom

LEMMA RebindRoom ==
  ASSUME Types, Capacity, NEW p \in Handlers, Rebind(p)
  PROVE  Capacity'
<1>. PICK g : g = h[p]
  OBVIOUS
<1>1. g \in Locals /\ PlaceSound(g, jobs, Len(messages)) /\ g.pc = "recover"
  BY AtPlace DEF Rebind, At
<1>2. PICK j, c : j = g.job /\ c = g.context
  OBVIOUS
<1>3. j \in DOMAIN contexts /\ c \in ContextRows
  BY <1>1, <1>2 DEF PlaceSound, Types, TablesOK
<1>4. PICK row : row = [c EXCEPT !.runtime = c.agent,
              !.status = IF c.status = "active" THEN "active" ELSE "recovered"]
  OBVIOUS
<1>5. row.pool = c.pool /\ row.status = IF c.status = "active" THEN "active" ELSE "recovered"
  BY <1>3, <1>4 DEF ContextRows
<1>6. contexts' = contexts \/ contexts' = [contexts EXCEPT ![j] = row]
  BY <1>2, <1>4 DEF Rebind, UpdateContext
<1>7. Turn(p) /\ overlapped' \in BOOLEAN
  BY DEF Rebind, Turn, At, ghosts, counters, Types, TablesOK
<1>8. PICK l : h' = [h EXCEPT ![p] = l] /\ l.pc \notin Chosen \union {"recover"}
  BY WriteLeaves
<1>9. ASSUME NEW k \in PoolKeys \ {DefaultPool}, Row(k).max > 0 PROVE Bounded(k)'
  <2>1. row.pool = k /\ row.status \in {"active", "fallback"} => j \in Held(k)
    <3>1. row.pool = k /\ row.status \in {"active", "fallback"} => p \in Recovering(k)
      BY <1>1, <1>2, <1>5 DEF Recovering, At
    <3>. QED BY <1>2, <3>1 DEF Held
  <2>2. PlacedIn(k)' \subseteq Held(k)
    <3>1. ASSUME NEW i \in PlacedIn(k)' PROVE i \in Held(k)
      <4>1. i \in DOMAIN contexts
        BY <1>6, <3>1 DEF PlacedIn
      <4>2. CASE contexts'[i] = contexts[i]
        BY <3>1, <4>1, <4>2 DEF PlacedIn, Held
      <4>3. CASE contexts'[i] # contexts[i]
        BY <1>3, <1>6, <2>1, <3>1, <4>1, <4>3 DEF PlacedIn
      <4>. QED BY <4>2, <4>3
    <3>. QED BY <3>1
  <2>. QED BY <1>7, <1>8, <1>9, <2>2, RoomStays
<1>. QED BY <1>7, <1>8, <1>9, CapacityFrom

\* A handler writes the context it has chosen the pool for.
LEMMA RoomMoved ==
  ASSUME Types, NEW k \in PoolKeys, Bounded(k), NEW p \in Choosing(k), NEW j,
         Held(k)' \subseteq Held(k) \union {j}, Choosing(k)' \subseteq Choosing(k) \ {p},
         Slack \in Nat, Slack' = Slack
  PROVE  Bounded(k)'
<1>1. PICK A, B, C, D : A = Held(k) /\ B = Held(k)' /\ C = Choosing(k) /\ D = Choosing(k)'
  OBVIOUS
<1>2. IsFiniteSet(A) /\ IsFiniteSet(C) /\ Cardinality(A) \in Nat /\ Cardinality(C) \in Nat
  BY <1>1, FinitePools
<1>3. IsFiniteSet(A \union {j}) /\ Cardinality(A \union {j}) <= Cardinality(A) + 1
  <2>1. /\ IsFiniteSet(A \union {j})
        /\ \/ Cardinality(A \union {j}) = Cardinality(A)
           \/ Cardinality(A \union {j}) = Cardinality(A) + 1
    BY <1>2, FS_AddElement
  <2>. QED BY <1>2, <2>1
<1>4. IsFiniteSet(C \ {p}) /\ Cardinality(C \ {p}) = Cardinality(C) - 1
  BY <1>1, <1>2, FS_RemoveElement
<1>5. B \in SUBSET (A \union {j}) /\ D \in SUBSET (C \ {p})
  BY <1>1
<1>6. /\ IsFiniteSet(B) /\ Cardinality(B) <= Cardinality(A \union {j})
      /\ IsFiniteSet(D) /\ Cardinality(D) <= Cardinality(C \ {p})
  BY <1>3, <1>4, <1>5, FS_Subset
<1>7. Cardinality(B) \in Nat /\ Cardinality(D) \in Nat /\ Cardinality(A \union {j}) \in Nat
  BY <1>3, <1>6, FS_CardinalityType
<1>8. PICK m \in Nat : m = Row(k).max
  BY MaxTypes
<1>9. Cardinality(A) + Cardinality(C) <= m + Slack
  BY <1>1, <1>8 DEF Bounded
<1>10. Cardinality(B) + Cardinality(D) <= m + Slack'
  BY <1>2, <1>3, <1>4, <1>6, <1>7, <1>9
<1>11. Row(k)' = Row(k)
  BY DEF Row
<1>. QED BY <1>1, <1>8, <1>10, <1>11 DEF Bounded

LEMMA WriteRoom ==
  ASSUME Types, Capacity, NEW p \in Handlers, WriteContext(p)
  PROVE  Capacity'
<1>. PICK g : g = h[p]
  OBVIOUS
<1>1. g \in Locals /\ PlaceSound(g, jobs, Len(messages)) /\ g.pc = "write_context"
  BY AtPlace DEF WriteContext, At
<1>2. PICK j, row : j = g.job /\ row = Planned(g)
  OBVIOUS
<1>3. g.pool \in PoolKeys /\ row.pool = g.pool /\ j \in DOMAIN contexts
  <2>1. g.pool \in PoolKeys /\ g.agent \in Agents
    BY <1>1 DEF PlaceSound, Filling, Placing
  <2>2. row.pool = g.pool
    BY <1>2 DEF Planned
  <2>3. j \in DOMAIN contexts
    BY <1>1, <1>2 DEF PlaceSound, Types, TablesOK
  <2>. QED BY <2>1, <2>2, <2>3
<1>4. contexts' = contexts \/ contexts' = [contexts EXCEPT ![j] = row]
  BY <1>2 DEF WriteContext, UpdateContext
<1>5. Turn(p) /\ overlapped' \in BOOLEAN /\ overlapped' = overlapped
  BY DEF WriteContext, Turn, At, counters, Types, TablesOK
<1>6. PICK l : h' = [h EXCEPT ![p] = l] /\ l.pc \notin Chosen \union {"recover"}
  BY WriteLeaves
<1>7. ASSUME NEW k \in PoolKeys, NEW i \in PlacedIn(k)' PROVE i \in PlacedIn(k) \/ (i = j /\ k = g.pool)
  <2>1. i \in DOMAIN contexts
    BY <1>4, <1>7 DEF PlacedIn
  <2>2. CASE contexts'[i] = contexts[i]
    BY <1>7, <2>1, <2>2 DEF PlacedIn
  <2>3. CASE contexts'[i] # contexts[i]
    BY <1>3, <1>4, <1>7, <2>1, <2>3 DEF PlacedIn
  <2>. QED BY <2>2, <2>3
<1>8. ASSUME NEW k \in PoolKeys \ {DefaultPool}, Row(k).max > 0 PROVE Bounded(k)'
  <2>1. CASE k # g.pool
    <3>1. PlacedIn(k)' \subseteq Held(k)
      BY <1>7, <2>1 DEF Held
    <3>. QED BY <1>5, <1>6, <1>8, <3>1, RoomStays
  <2>2. CASE k = g.pool
    <3>1. p \in Choosing(k)
      BY <1>1, <2>2 DEF Choosing
    <3>2. h'[p] = l /\ \A q \in Handlers : q # p => h'[q] = h[q]
      BY <1>6 DEF Types
    <3>3. Choosing(k)' \subseteq Choosing(k) \ {p}
      BY <1>6, <3>2 DEF Choosing, Chosen
    <3>4. Held(k)' \subseteq Held(k) \union {j}
      <4>1. ASSUME NEW q \in Recovering(k)' PROVE h'[q].job \in Held(k)
        <5>1. q \in Recovering(k) /\ h'[q].job = h[q].job
          BY <1>6, <3>2, <4>1 DEF Recovering, At
        <5>. QED BY <5>1 DEF Held
      <4>2. PlacedIn(k)' \subseteq Held(k) \union {j}
        BY <1>7 DEF Held
      <4>. QED BY <4>1, <4>2 DEF Held
    <3>5. Slack \in Nat /\ Slack' = Slack
      BY <1>5, SlackTypes DEF Slack, Types, TablesOK
    <3>6. Bounded(k)
      BY <1>8 DEF Capacity
    <3>. QED BY <3>1, <3>3, <3>4, <3>5, <3>6, RoomMoved
  <2>. QED BY <2>1, <2>2
<1>. QED BY <1>5, <1>6, <1>8, CapacityFrom

\* Below its limit a pool takes one more, and the others that are under way.
LEMMA RoomTaken ==
  ASSUME Types, OneAtATime, NEW k \in PoolKeys, Row(k).max > 0, ~AtCapacity(k),
         NEW p \in Handlers, h[p].pc = "select", overlapped' = overlapped,
         Held(k)' \subseteq Held(k), Choosing(k)' \subseteq Choosing(k) \union {p}
  PROVE  Bounded(k)'
<1>1. PICK A, B, C, D, P, R : /\ A = Held(k) /\ B = Held(k)' /\ C = Choosing(k) /\ D = Choosing(k)'
                              /\ P = PlacedIn(k) /\ R = Recovering(k)
  OBVIOUS
<1>2. /\ IsFiniteSet(A) /\ IsFiniteSet(C) /\ IsFiniteSet(P) /\ IsFiniteSet(R)
      /\ Cardinality(A) \in Nat /\ Cardinality(C) \in Nat /\ Cardinality(P) \in Nat
      /\ Cardinality(R) \in Nat /\ Cardinality(A) <= Cardinality(P) + Cardinality(R)
  BY <1>1, FinitePools
<1>3. PICK U : U = {j \in ListByPool(k) : contexts[j].status \in InUse}
  OBVIOUS
<1>4. PICK m \in Nat : m = Row(k).max
  BY MaxTypes
<1>5. Cardinality(P) + 1 <= m
  <2>1. IsFiniteSet(U)
    <3>1. PICK n \in Nat : DOMAIN contexts = 1 .. n
      BY DEF Types, TablesOK
    <3>2. U \in SUBSET (1 .. n)
      BY <1>3, <3>1 DEF ListByPool
    <3>. QED BY <3>2, FS_Interval, FS_Subset
  <2>2. P \in SUBSET U
    BY <1>1, <1>3 DEF PlacedIn, ListByPool, InUse
  <2>3. Cardinality(P) <= Cardinality(U)
    BY <2>1, <2>2, FS_Subset
  <2>4. Cardinality(U) \in Nat
    BY <2>1, FS_CardinalityType
  <2>5. ~(Cardinality(U) >= m)
    BY <1>3, <1>4 DEF AtCapacity
  <2>. QED BY <1>2, <2>3, <2>4, <2>5
<1>6. Cardinality(R) + Cardinality(C) <= Slack /\ Slack \in Nat
  <2>1. R \intersect C = {} /\ R \union C \in SUBSET (Handlers \ {p})
    BY <1>1 DEF Recovering, Choosing, At
  <2>2. PICK N : /\ N = Cardinality(Handlers) - 1 /\ N \in Nat /\ Cardinality(Handlers \ {p}) = N
                 /\ Slack \in Nat /\ (overlapped => Slack = N)
    BY SlackTypes DEF Types, TablesOK
  <2>3. CASE overlapped
    <3>1. IsFiniteSet(Handlers \ {p})
      BY HandlersAssumption, FS_RemoveElement
    <3>2. Cardinality(R \union C) <= N
      BY <2>1, <2>2, <3>1, FS_Subset
    <3>3. Cardinality(R \union C) = Cardinality(R) + Cardinality(C) - Cardinality(R \intersect C)
      BY <1>2, FS_Union
    <3>4. Cardinality(R \intersect C) = 0
      BY <2>1, FS_EmptySet
    <3>. QED BY <1>2, <2>2, <2>3, <3>2, <3>3, <3>4
  <2>4. CASE ~overlapped
    <3>1. \A q \in Handlers : q # p => h[q].pc = "idle"
      BY <2>4 DEF OneAtATime, At
    <3>2. R = {} /\ C = {}
      BY <1>1, <3>1 DEF Recovering, Choosing, At
    <3>. QED BY <2>2, <3>2, FS_EmptySet
  <2>. QED BY <2>3, <2>4
<1>7. IsFiniteSet(C \union {p}) /\ Cardinality(C \union {p}) <= Cardinality(C) + 1
  <2>1. /\ IsFiniteSet(C \union {p})
        /\ \/ Cardinality(C \union {p}) = Cardinality(C)
           \/ Cardinality(C \union {p}) = Cardinality(C) + 1
    BY <1>2, FS_AddElement
  <2>. QED BY <1>2, <2>1
<1>8. B \in SUBSET A /\ D \in SUBSET (C \union {p})
  BY <1>1
<1>9. /\ IsFiniteSet(B) /\ Cardinality(B) <= Cardinality(A)
      /\ IsFiniteSet(D) /\ Cardinality(D) <= Cardinality(C \union {p})
  BY <1>2, <1>7, <1>8, FS_Subset
<1>10. Cardinality(B) \in Nat /\ Cardinality(D) \in Nat /\ Cardinality(C \union {p}) \in Nat
  BY <1>7, <1>9, FS_CardinalityType
<1>11. Cardinality(B) + Cardinality(D) <= m + Slack
  BY <1>2, <1>5, <1>6, <1>7, <1>9, <1>10
<1>12. Row(k)' = Row(k) /\ Slack' = Slack
  BY DEF Row, Slack
<1>. QED BY <1>1, <1>4, <1>11, <1>12 DEF Bounded

LEMMA SelectRoom ==
  ASSUME Types, Capacity, NEW p \in Handlers, SelectPool(p)
  PROVE  Capacity'
<1>. PICK g : g = h[p]
  OBVIOUS
<1>1. g \in Locals /\ PlaceSound(g, jobs, Len(messages)) /\ g.pc = "select"
  BY AtPlace DEF SelectPool, At
<1>2. g.pool \in PoolKeys /\ DefaultPool \notin g.visited
  BY <1>1 DEF PlaceSound
<1>3. PICK seen : seen = g.visited \union {g.pool}
  OBVIOUS
<1>4. PICK next : next = NextPool(g.pool, seen)
  OBVIOUS
<1>5. PICK l : /\ h' = [h EXCEPT ![p] = l]
               /\ \/ /\ l = [g EXCEPT !.visited = seen, !.pc = "runtime"]
                     /\ ~AtCapacity(g.pool) \/ next = None
                  \/ l = [g EXCEPT !.visited = seen, !.pool = next, !.fallback = TRUE]
  BY <1>3, <1>4 DEF SelectPool, Become
<1>6. \/ l.pc = "runtime" /\ l.pool = g.pool /\ (~AtCapacity(g.pool) \/ next = None)
      \/ l.pc = "select"
  BY <1>1, <1>5 DEF Locals
\* The default pool is tried last: it is not full for the choice, whatever it holds.
<1>7. next = None => g.pool = DefaultPool
  <2>1. None # DefaultPool /\ None \notin Pools \ seen
    BY PoolKeysKnown DEF None, DefaultPool
  <2>. QED BY <1>2, <1>3, <1>4, <2>1 DEF NextPool
<1>8. Turn(p) /\ overlapped' = overlapped /\ overlapped' \in BOOLEAN /\ contexts' = contexts
  BY DEF SelectPool, Turn, At, poolVars, ghosts, counters, Types, TablesOK
<1>9. \A k : PlacedIn(k)' \subseteq Held(k)
  BY <1>8 DEF PlacedIn, Held
<1>10. ASSUME NEW k \in PoolKeys \ {DefaultPool}, Row(k).max > 0 PROVE Bounded(k)'
  <2>1. CASE l.pc = "runtime" /\ k = g.pool
    <3>1. ~AtCapacity(k)
      BY <1>6, <1>7, <1>10, <2>1
    <3>2. h'[p] = l /\ \A q \in Handlers : q # p => h'[q] = h[q]
      BY <1>5 DEF Types
    <3>3. Choosing(k)' \subseteq Choosing(k) \union {p}
      BY <3>2 DEF Choosing
    <3>4. \A q \in Recovering(k)' : q \in Recovering(k) /\ h'[q].job = h[q].job
      BY <2>1, <3>2 DEF Recovering, At
    <3>5. Held(k)' \subseteq Held(k)
      BY <1>9, <3>4 DEF Held
    <3>. QED BY <1>1, <1>8, <1>10, <3>1, <3>3, <3>5, RoomTaken DEF Capacity
  <2>2. CASE ~(l.pc = "runtime" /\ k = g.pool)
    <3>1. ~(l.pc \in Chosen /\ l.pool = k) /\ l.pc # "recover"
      BY <1>6, <2>2 DEF Chosen
    <3>. QED BY <1>5, <1>8, <1>9, <1>10, <3>1, RoomStays
  <2>. QED BY <2>1, <2>2
<1>. QED BY <1>5, <1>8, <1>10, CapacityFrom

LEMMA CrashRoom ==
  ASSUME Types, Capacity, Crash
  PROVE  Capacity'
<1>1. \A p \in Handlers : h'[p] = Idle
  BY DEF Crash
<1>2. Idle.pc = "idle"
  BY DEF Idle
<1>3. OneAtATime'
  BY <1>1, <1>2 DEF OneAtATime, At
<1>4. contexts' = contexts /\ overlapped' = overlapped
  BY DEF Crash, poolVars
<1>5. Slack \in Nat /\ Slack' = Slack
  <2>1. PICK p \in Handlers : TRUE
    BY DEF Crash
  <2>. QED BY <1>4, SlackTypes DEF Slack, Types, TablesOK
<1>6. ASSUME NEW k \in PoolKeys \ {DefaultPool}, Row(k).max > 0 PROVE Bounded(k)'
  <2>1. Recovering(k)' = {} /\ Choosing(k)' = {}
    BY <1>1, <1>2 DEF Recovering, Choosing, At
  <2>2. Held(k)' \subseteq Held(k)
    BY <1>4, <2>1 DEF Held, PlacedIn
  <2>3. Bounded(k)
    BY <1>6 DEF Capacity
  <2>4. Slack <= Slack' /\ Slack' \in Nat /\ Choosing(k)' \subseteq Choosing(k)
    BY <1>5, <2>1
  <2>. QED BY <1>5, <2>2, <2>3, <2>4, RoomKept
<1>7. \A k : Row(k)' = Row(k)
  BY DEF Row
<1>. QED BY <1>3, <1>6, <1>7 DEF Capacity

LEMMA CapacityStep ==
  ASSUME Types, Capacity, Next
  PROVE  Capacity'
BY StepKinds, QuietRoom, PlacingRoom, SelectRoom, WriteRoom, RebindRoom, RecoverRoom, CrashRoom

LEMMA InitCapacity ==
  ASSUME Init
  PROVE  Capacity /\ ContextFollowsJob
<1>1. Types
  BY InitTypes
<1>2. \A p \in Handlers : h[p].pc = "idle"
  BY DEF Init, PoolInit, Idle
<1>3. contexts = Placed0 /\ overlapped = FALSE
  BY DEF Init, PoolInit
<1>4. \A j \in DOMAIN jobs : contexts[j].pool = DefaultPool /\ contexts[j] # NoContext
  BY <1>3, PlacedAssumption DEF Init, PoolInit, NoContext, None, DefaultPool
<1>5. ContextFollowsJob
  BY <1>4 DEF ContextFollowsJob
<1>6. ASSUME NEW k \in PoolKeys \ {DefaultPool} PROVE Bounded(k)
  <2>1. PlacedIn(k) = {}
    BY <1>3, PlacedAssumption DEF PlacedIn
  <2>2. Recovering(k) = {} /\ Choosing(k) = {}
    BY <1>2 DEF Recovering, Choosing, At
  <2>3. Held(k) = {}
    BY <2>1, <2>2 DEF Held
  <2>4. Slack = 0
    BY <1>3 DEF Slack
  <2>5. Row(k).max \in Nat
    BY MaxTypes
  <2>. QED BY <2>2, <2>3, <2>4, <2>5, FS_EmptySet DEF Bounded
<1>7. OneAtATime
  BY <1>2 DEF OneAtATime, At
<1>. QED BY <1>5, <1>6, <1>7 DEF Capacity

LEMMA CapacityImplied ==
  ASSUME Types, Capacity
  PROVE  CapacityHeld
<1>1. SUFFICES ASSUME NEW k \in PoolKeys \ {DefaultPool}, Row(k).max > 0
               PROVE  Cardinality(PlacedIn(k)) <=
                        Row(k).max + IF overlapped THEN Cardinality(Handlers) - 1 ELSE 0
  BY DEF CapacityHeld
<1>2. Bounded(k)
  BY <1>1 DEF Capacity
<1>3. PICK A, P, C : A = Held(k) /\ P = PlacedIn(k) /\ C = Choosing(k)
  OBVIOUS
<1>4. IsFiniteSet(A) /\ Cardinality(A) \in Nat /\ Cardinality(P) \in Nat /\ Cardinality(C) \in Nat
  BY <1>3, FinitePools
<1>5. P \in SUBSET A
  BY <1>3 DEF Held
<1>6. Cardinality(P) <= Cardinality(A)
  BY <1>4, <1>5, FS_Subset
<1>7. Row(k).max \in Nat
  BY MaxTypes
<1>8. Slack \in Int
  <2>1. Cardinality(Handlers) \in Nat
    BY HandlersAssumption, FS_CardinalityType
  <2>. QED BY <2>1 DEF Slack
<1>. QED BY <1>2, <1>3, <1>4, <1>6, <1>7, <1>8 DEF Bounded, Slack
----------------------------------------------------------------------------
(* From messages to jobs *)

\* All that is right of message m, or how far its handler is, depends on this.
Same(m) ==
  /\ messages'[m] = messages[m] /\ Made(m)' = Made(m) /\ Done(m)' = Done(m)
  /\ Told(m)' = Told(m) /\ \A j \in Made(m) : jobs'[j].agent = jobs[j].agent

LEMMA SameSound ==
  ASSUME NEW m, Same(m)
  PROVE  /\ Given(m)' = Given(m) /\ Named(m)' = Named(m)
         /\ MessageSound(m) => MessageSound(m)'
         /\ Finished(m) => Finished(m)'
<1>1. Given(m)' = Given(m)
  BY DEF Same, Given
<1>2. Named(m)' = Named(m)
  BY DEF Same, Named
<1>3. MessageSound(m) => MessageSound(m)'
  BY <1>1, <1>2 DEF Same, MessageSound
<1>. QED BY <1>1, <1>2, <1>3 DEF Same, Finished

LEMMA SameServed ==
  ASSUME NEW l, Same(l.message), ServeSound(l)
  PROVE  ServeSound(l)'
<1>. PICK m : m = l.message
  OBVIOUS
<1>1. CASE m = 0
  BY <1>1 DEF ServeSound
<1>2. CASE m # 0
  <2>1. Given(m)' = Given(m) /\ Named(m)' = Named(m) /\ (Finished(m) => Finished(m)')
    BY SameSound
  <2>2. messages'[m] = messages[m] /\ Made(m)' = Made(m) /\ Done(m)' = Done(m) /\ Told(m)' = Told(m)
    BY DEF Same
  <2>3. \A c : c.message = m => (c \in signals' <=> c \in signals)
    BY <2>2 DEF Done
  <2>4. [message |-> m, command |-> messages[m].command, job |-> l.job].message = m
    OBVIOUS
  <2>5. [message |-> m, command |-> messages[m].command, job |-> l.job] \in signals' <=>
          [message |-> m, command |-> messages[m].command, job |-> l.job] \in signals
    BY <2>3, <2>4
  <2>. QED BY <1>2, <2>1, <2>2, <2>5 DEF ServeSound
<1>. QED BY <1>1, <1>2

\* A step of a handler concerns its own message only.
LEMMA IntakeStep ==
  ASSUME Types, Types', Intake, NEW p \in Handlers, NEW l, h' = [h EXCEPT ![p] = l],
         NEW m0, m0 = h[p].message, l.message \in {0, m0},
         DOMAIN messages' = DOMAIN messages, crashes' = crashes, conflicts => conflicts',
         \A m \in DOMAIN messages : m # m0 => Same(m),
         \A j \in DOMAIN jobs' : jobs'[j].source <= Len(messages'),
         \A s \in signals' \union events' : s.message \in DOMAIN messages',
         m0 \in DOMAIN messages => MessageSound(m0)',
         ServeSound(l)',
         (l.message = 0 /\ m0 # 0) => crashes' > 0 \/ conflicts' \/ Finished(m0)'
  PROVE  Intake'
<1>1. h'[p] = l /\ \A q \in Handlers : q # p => h'[q] = h[q]
  BY DEF Types
<1>2. \A q \in Handlers : h[q].message # 0 => h[q].message \in DOMAIN messages
  <2>1. ASSUME NEW q \in Handlers, h[q].message # 0 PROVE h[q].message \in DOMAIN messages
    <3>1. PICK g : g = h[q] /\ g.message \in 0 .. Len(messages) /\ messages \in Seq(MessageRow)
      BY AtPlace DEF PlaceSound, Types, TablesOK
    <3>. QED BY <2>1, <3>1
  <2>. QED BY <2>1
<1>3. \A q, r \in Handlers : h'[q].message = h'[r].message => q = r \/ h'[q].message = 0
  BY <1>1 DEF Intake
<1>4. ASSUME NEW q \in Handlers PROVE ServeSound(h[q])'
  <2>1. PICK k : k = h'[q]
    OBVIOUS
  <2>2. ServeSound(k)'
    <3>1. CASE q = p
      BY <1>1, <2>1, <3>1
    <3>2. CASE q # p
      <4>1. ServeSound(k) /\ k = h[q]
        BY <1>1, <2>1, <3>2 DEF Intake
      <4>2. CASE k.message = 0
        BY <4>1, <4>2 DEF ServeSound
      <4>3. CASE k.message # 0
        <5>1. k.message \in DOMAIN messages /\ k.message # m0
          BY <1>2, <3>2, <4>1, <4>3 DEF Intake
        <5>. QED BY <4>1, <5>1, SameServed
      <4>. QED BY <4>2, <4>3
    <3>. QED BY <3>1, <3>2
  <2>. QED BY <2>1, <2>2 DEF ServeSound
<1>5. ASSUME NEW m \in DOMAIN messages' PROVE MessageSound(m)' /\ Excused(m)'
  <2>1. MessageSound(m) /\ Excused(m)
    BY DEF Intake
  <2>2. CASE m = m0
    <3>1. m # 0
      BY DEF Types, TablesOK
    <3>2. l.message = m => p \in Serving(m)'
      BY <1>1 DEF Serving
    <3>. QED BY <2>2, <3>1, <3>2 DEF Excused
  <2>3. CASE m # m0
    <3>1. Same(m)
      BY <2>3
    <3>2. m # 0
      BY DEF Types, TablesOK
    <3>3. Serving(m)' = Serving(m)
      BY <1>1, <2>3, <3>2 DEF Serving
    <3>. QED BY <2>1, <3>1, <3>3, SameSound DEF Excused
  <2>. QED BY <2>2, <2>3
<1>. QED BY <1>1, <1>3, <1>4, <1>5 DEF Intake

\* Rows and trails are as before, but for the status of jobs and their channel.
Unmoved ==
  /\ messages' = messages /\ signals' = signals /\ events' = events
  /\ DOMAIN jobs' = DOMAIN jobs
  /\ \A j \in DOMAIN jobs : jobs'[j].agent = jobs[j].agent /\ jobs'[j].source = jobs[j].source

LEMMA UnmovedSame ==
  ASSUME Unmoved
  PROVE  \A m : Same(m)
BY DEF Unmoved, Same, Made, Done, Told

LEMMA IntakeLocal ==
  ASSUME Types, Types', Intake, NEW p \in Handlers, NEW l, h' = [h EXCEPT ![p] = l],
         Unmoved, crashes' = crashes, conflicts => conflicts',
         l.message \in {0, h[p].message}, ServeSound(l),
         (l.message = 0 /\ h[p].message # 0) => conflicts' \/ Finished(h[p].message)
  PROVE  Intake'
<1>1. PICK m0 : m0 = h[p].message
  OBVIOUS
<1>2. \A m : Same(m)
  BY UnmovedSame
<1>3. DOMAIN messages' = DOMAIN messages /\ Len(messages') = Len(messages)
  BY DEF Unmoved
<1>4. \A j \in DOMAIN jobs' : jobs'[j].source <= Len(messages')
  BY <1>3 DEF Unmoved, Intake
<1>5. \A s \in signals' \union events' : s.message \in DOMAIN messages'
  BY <1>3 DEF Unmoved, Intake
<1>6. m0 \in DOMAIN messages => MessageSound(m0)'
  BY <1>2, SameSound DEF Intake
<1>7. ServeSound(l)'
  BY <1>2, SameServed
<1>8. (l.message = 0 /\ m0 # 0) => crashes' > 0 \/ conflicts' \/ Finished(m0)'
  BY <1>1, <1>2, SameSound
<1>. QED BY <1>1, <1>2, <1>3, <1>4, <1>5, <1>6, <1>7, <1>8, IntakeStep

\* The handler serves no message, or none that is stored.
LEMMA IntakeOutside ==
  ASSUME Types, Types', Intake, NEW p \in Handlers, NEW l, h' = [h EXCEPT ![p] = l],
         Unmoved, crashes' = crashes, conflicts' = conflicts, h[p].message = 0, l.message = 0
  PROVE  Intake'
BY IntakeLocal DEF ServeSound

LEMMA NotServing ==
  ASSUME Types, Intake, NEW p \in Handlers, h[p].pc \notin Answering \union Filling \union Dispatching
  PROVE  h[p].message = 0
BY DEF Intake, ServeSound

LEMMA ReturnOutside ==
  ASSUME Types, Types', Intake, NEW p \in Handlers, Return(p), Unmoved, crashes' = crashes,
         conflicts' = conflicts, h[p].pc \notin Answering \union Filling \union Dispatching
  PROVE  Intake'
<1>1. Idle.message = 0
  BY DEF Idle
<1>. QED BY <1>1, NotServing, IntakeOutside DEF Return, Become

LEMMA RequestIntake ==
  ASSUME Types, Types', Intake, NEW p \in Handlers, NEW r \in Requests,
         (PoolRequest(p, r) /\ UNCHANGED intakeVars) \/ IntakeRequest(p, r)
  PROVE  Intake'
<1>1. h[p].pc = "idle"
  BY DEF PoolRequest, IntakeRequest, Assign, Recover, CreatePool, CreateAgent, PatchAgent,
         PostMessage, CreateJob, Heartbeat, Join, Patch, Leave, SwitchRule, Begin, At
<1>2. h[p].message = 0
  BY <1>1, NotServing DEF Answering, Filling, Placing, Dispatching
<1>3. messages' = messages /\ signals' = signals /\ events' = events
  BY DEF PoolRequest, IntakeRequest, intakeVars,
         PostMessage, CreateJob, Heartbeat, Join, Patch, Leave, SwitchRule
<1>4. CASE ~Recover(p, r)
  <2>1. PICK l : Quiet(p, l) /\ l.message = 0 /\ jobs' = jobs /\ conflicts' = conflicts
    BY <1>4, RequestQuiet
  <2>2. Unmoved
    BY <1>3, <2>1 DEF Unmoved
  <2>. QED BY <1>2, <2>1, <2>2, IntakeOutside DEF Quiet
<1>5. CASE Recover(p, r)
  <2>1. PICK l : l = [[Idle EXCEPT !.job = r.job, !.context = ContextOf(r.job), !.pc = "recover"] EXCEPT !.req = r]
    OBVIOUS
  <2>2. h' = [h EXCEPT ![p] = l] /\ jobs' = jobs /\ crashes' = crashes /\ conflicts' = conflicts
    BY <1>5, <2>1 DEF Recover, Begin, Become, poolVars
  <2>3. l.message = 0
    BY <2>1 DEF Idle
  <2>4. Unmoved
    BY <1>3, <2>2 DEF Unmoved
  <2>. QED BY <1>2, <2>2, <2>3, <2>4, IntakeOutside
<1>. QED BY <1>4, <1>5

\* A row of a job takes another status or channel.
LEMMA UpdateUnmoved ==
  ASSUME Types, NEW j \in DOMAIN jobs, NEW row, UpdateJob(j, row),
         row.agent = jobs[j].agent, row.source = jobs[j].source,
         messages' = messages, signals' = signals, events' = events
  PROVE  Unmoved
BY DEF UpdateJob, Unmoved, Types, TablesOK

LEMMA OutsideSteps ==
  ASSUME Types, Types', Intake, NEW p \in Handlers,
         \/ UNCHANGED intakeVars /\ (Rebind(p) \/ StorePool(p) \/ StoreRuntime(p))
         \/ MemberStep(p) \/ DispatchPending(p)
  PROVE  Intake'
<1>1. /\ Return(p) /\ crashes' = crashes /\ conflicts' = conflicts
      /\ h[p].pc \in {"recover", "store_pool", "store_runtime", "join", "patch", "leave", "pending"}
  BY DEF Rebind, StorePool, StoreRuntime, MemberStep, InsertParticipant, UpdateParticipant,
         DeleteParticipant, DispatchPending, At, ghosts, counters
<1>2. messages' = messages /\ signals' = signals /\ events' = events
  BY DEF intakeVars, MemberStep, InsertParticipant, UpdateParticipant, DeleteParticipant,
         DispatchPending
<1>3. CASE jobs' = jobs
  <2>1. Unmoved
    BY <1>2, <1>3 DEF Unmoved
  <2>. QED BY <1>1, <2>1, ReturnOutside DEF Answering, Filling, Placing, Dispatching
<1>4. CASE DispatchPending(p)
  <2>1. \A j \in DOMAIN jobs :
          /\ jobs[j] \in JobRows
          /\ jobs'[j] = jobs[j] \/ jobs'[j] = [jobs[j] EXCEPT !.status = "running"]
    BY <1>4 DEF DispatchPending, Types, TablesOK
  <2>2. \A j \in DOMAIN jobs : jobs'[j].agent = jobs[j].agent /\ jobs'[j].source = jobs[j].source
    BY <2>1 DEF JobRows
  <2>3. DOMAIN jobs' = DOMAIN jobs
    BY <1>4 DEF DispatchPending
  <2>4. Unmoved
    BY <1>2, <2>2, <2>3 DEF Unmoved
  <2>. QED BY <1>1, <2>4, ReturnOutside DEF Answering, Filling, Placing, Dispatching
<1>. QED BY <1>3, <1>4 DEF Rebind, StorePool, StoreRuntime, MemberStep, InsertParticipant,
                            UpdateParticipant, DeleteParticipant, poolVars

LEMMA BeforeStored ==
  ASSUME Types, Types', Intake, NEW p \in Handlers, Preview(p) \/ CheckSender(p)
  PROVE  Intake'
<1>. PICK g : g = h[p]
  OBVIOUS
<1>1. g \in Locals /\ g.message = 0
  BY AtPlace DEF Preview, CheckSender, At, PlaceSound
<1>2. Idle.message = 0
  BY DEF Idle
<1>3. PICK l : h' = [h EXCEPT ![p] = l] /\ l.message = 0
  <2>1. CASE Preview(p)
    <3>1. PICK next \in {"sender", "store"} : next = IF FromAgent(p) THEN "sender" ELSE "store"
      OBVIOUS
    <3>2. PICK todo : todo = [i \in DOMAIN g.req.names |->
            [agent |-> Resolve(g.req.names[i]), runtime |-> members[Resolve(g.req.names[i])].runtime]]
      OBVIOUS
    <3>3. PICK l : /\ h' = [h EXCEPT ![p] = l]
                   /\ \/ l = [g EXCEPT !.pc = next] \/ l = Idle
                      \/ l = [g EXCEPT !.pc = next, !.todo = todo]
      BY <2>1, <3>1, <3>2 DEF Preview, Become
    <3>4. l.message = 0
      BY <1>1, <1>2, <3>3 DEF Locals
    <3>. QED BY <3>3, <3>4
  <2>2. CASE CheckSender(p)
    <3>1. PICK l : h' = [h EXCEPT ![p] = l] /\ (l = Idle \/ l = [g EXCEPT !.pc = "store"])
      BY <2>2 DEF CheckSender, Goto, Return, Become
    <3>2. l.message = 0
      BY <1>1, <1>2, <3>1 DEF Locals
    <3>. QED BY <3>1, <3>2
  <2>. QED BY <2>1, <2>2
<1>4. Unmoved /\ crashes' = crashes /\ conflicts' = conflicts
  BY DEF Preview, CheckSender, poolVars, intakeVars, ghosts, counters, Unmoved
<1>. QED BY <1>1, <1>3, <1>4, IntakeOutside

\* The message a handler serves.
LEMMA ServedMessage ==
  ASSUME Types, Intake, NEW p \in Handlers, NEW m, m = h[p].message, m # 0
  PROVE  /\ m \in DOMAIN messages /\ messages[m] \in MessageRow /\ messages \in Seq(MessageRow)
         /\ MessageSound(m) /\ ServeSound(h[p])
         /\ messages[m].command = None => Done(m) = {} /\ Told(m) = {}
         /\ messages[m].command # None => Named(m) = {}
<1>1. m \in DOMAIN messages /\ messages \in Seq(MessageRow)
  <2>1. PICK g : g = h[p] /\ g.message \in 0 .. Len(messages) /\ messages \in Seq(MessageRow)
    BY AtPlace DEF PlaceSound, Types, TablesOK
  <2>. QED BY <2>1
<1>2. messages[m] \in MessageRow
  BY <1>1
<1>3. MessageSound(m) /\ ServeSound(h[p])
  BY <1>1 DEF Intake
<1>4. messages[m].command = None => Done(m) = {} /\ Told(m) = {}
  <2>1. \A e \in Done(m) \union Told(m) : e.command = messages[m].command
    BY <1>3 DEF MessageSound
  <2>2. \A e \in Done(m) \union Told(m) : e.command \in Commands
    BY DEF Done, Told, Types, TablesOK, Control
  <2>3. None \notin Commands
    BY DEF None, Commands
  <2>. QED BY <2>1, <2>2, <2>3
<1>5. messages[m].command # None => Named(m) = {}
  BY <1>3 DEF MessageSound
<1>. QED BY <1>1, <1>2, <1>3, <1>4, <1>5

LEMMA ReturnIntake ==
  ASSUME Types, Types', Intake, NEW p \in Handlers, Return(p), Unmoved, crashes' = crashes,
         conflicts => conflicts', h[p].message # 0 => conflicts' \/ Finished(h[p].message)
  PROVE  Intake'
<1>1. PICK i : i = Idle
  OBVIOUS
<1>2. i.message = 0
  BY <1>1 DEF Idle
<1>3. h' = [h EXCEPT ![p] = i]
  BY <1>1 DEF Return, Become
<1>4. ServeSound(i)
  BY <1>2 DEF ServeSound
<1>. QED BY <1>2, <1>3, <1>4, IntakeLocal

\* The steps on a message that concern no job and no trail.
LEMMA SessionIntake ==
  ASSUME Types, Types', Intake, NEW p \in Handlers, TouchSession(p)
  PROVE  Intake'
<1>. PICK g : g = h[p]
  OBVIOUS
<1>1. g \in Locals /\ PlaceSound(g, jobs, Len(messages)) /\ g.pc = "session"
  BY AtPlace DEF TouchSession, At
<1>2. PICK m : m = g.message /\ m # 0
  BY <1>1 DEF PlaceSound, Answering
<1>3. /\ m \in DOMAIN messages /\ ServeSound(g) /\ MessageSound(m)
      /\ messages[m].command # None => Named(m) = {}
  BY <1>2, ServedMessage
<1>4. /\ messages[m].command = g.req.command /\ messages[m].mentions = <<>>
      /\ Made(m) = {} /\ Done(m) = {} /\ Told(m) = {} /\ g.made = <<>>
  BY <1>1, <1>2, <1>3 DEF ServeSound
<1>5. Unmoved /\ crashes' = crashes /\ conflicts' = conflicts
  BY DEF TouchSession, poolVars, ghosts, counters, Unmoved
<1>6. CASE g.req.command # None
  <2>1. PICK l : l = [g EXCEPT !.pc = "command"]
    OBVIOUS
  <2>2. h' = [h EXCEPT ![p] = l]
    BY <1>6, <2>1 DEF TouchSession, Goto
  <2>3. l.pc = "command" /\ l.message = m /\ l.req = g.req /\ l.made = g.made
    BY <1>1, <1>2, <2>1 DEF Locals
  <2>4. ServeSound(l)
    BY <1>4, <1>6, <2>3 DEF ServeSound, Filling, Placing, Answering, Dispatching
  <2>. QED BY <1>2, <1>5, <2>2, <2>3, <2>4, IntakeLocal
<1>7. CASE g.req.command = None /\ g.todo # <<>>
  <2>1. PICK l : l = [g EXCEPT !.pc = "route"]
    OBVIOUS
  <2>2. h' = [h EXCEPT ![p] = l]
    BY <1>7, <2>1 DEF TouchSession, Goto
  <2>3. l.pc = "route" /\ l.message = m /\ l.req = g.req /\ l.made = g.made /\ l.todo = g.todo
    BY <1>1, <1>2, <2>1 DEF Locals
  <2>4. ServeSound(l)
    BY <1>4, <1>7, <2>3 DEF ServeSound, Filling, Placing, Answering, Dispatching
  <2>. QED BY <1>2, <1>5, <2>2, <2>3, <2>4, IntakeLocal
<1>8. CASE g.req.command = None /\ g.todo = <<>>
  <2>1. Return(p)
    BY <1>8 DEF TouchSession
  <2>2. Finished(m)
    BY <1>4, <1>8 DEF Finished, Named
  <2>. QED BY <1>2, <1>5, <2>1, <2>2, ReturnIntake
<1>. QED BY <1>6, <1>7, <1>8

LEMMA RouteIntake ==
  ASSUME Types, Types', Intake, NEW p \in Handlers, Route(p)
  PROVE  Intake'
<1>. PICK g : g = h[p]
  OBVIOUS
<1>1. g \in Locals /\ PlaceSound(g, jobs, Len(messages)) /\ g.pc = "route"
  BY AtPlace DEF Route, At
<1>2. PICK m : m = g.message /\ m # 0
  BY <1>1 DEF PlaceSound, Answering
<1>3. ServeSound(g)
  BY <1>2, ServedMessage
<1>4. /\ messages[m].command = g.req.command /\ messages[m].mentions = <<>>
      /\ messages[m].command = None /\ g.todo # <<>>
      /\ Made(m) = {} /\ Done(m) = {} /\ Told(m) = {} /\ g.made = <<>>
  BY <1>1, <1>2, <1>3 DEF ServeSound
<1>5. Unmoved /\ crashes' = crashes /\ conflicts' = conflicts
  BY DEF Route, poolVars, intakeVars, ghosts, counters, Unmoved
<1>6. PICK l : l = [g EXCEPT !.channel = RoutingChannel(Rules, ActiveRules, g.req.channel, g.req.sender),
                             !.pc = "mention"]
  OBVIOUS
<1>7. h' = [h EXCEPT ![p] = l]
  BY <1>6 DEF Route, Become
<1>8. l.pc = "mention" /\ l.message = m /\ l.req = g.req /\ l.made = g.made /\ l.todo = g.todo
  BY <1>1, <1>2, <1>6 DEF Locals
<1>9. Len(messages[m].mentions) < Len(g.todo) /\ DOMAIN messages[m].mentions = {}
  <2>1. PICK todo : todo = g.todo /\ todo \in Seq(MentionRow) /\ todo # <<>>
    BY <1>1, <1>4 DEF Locals
  <2>2. Len(todo) \in Nat /\ Len(todo) # 0
    BY <2>1
  <2>. QED BY <1>4, <2>1, <2>2
<1>10. ServeSound(l)
  BY <1>4, <1>8, <1>9 DEF ServeSound, Filling, Placing, Answering, Dispatching
<1>. QED BY <1>2, <1>5, <1>7, <1>8, <1>10, IntakeLocal

LEMMA ResolveIntake ==
  ASSUME Types, Types', Intake, NEW p \in Handlers, ResolveTarget(p)
  PROVE  Intake'
<1>. PICK g : g = h[p]
  OBVIOUS
<1>1. g \in Locals /\ PlaceSound(g, jobs, Len(messages)) /\ g.pc = "command"
  BY AtPlace DEF ResolveTarget, At
<1>2. PICK m : m = g.message /\ m # 0
  BY <1>1 DEF PlaceSound, Answering
<1>3. ServeSound(g) /\ (messages[m].command # None => Named(m) = {})
  BY <1>2, ServedMessage
<1>4. /\ messages[m].command = g.req.command /\ messages[m].command # None
      /\ Made(m) = {} /\ Done(m) = {} /\ Told(m) = {} /\ g.made = <<>>
  BY <1>1, <1>2, <1>3 DEF ServeSound
<1>5. Unmoved /\ crashes' = crashes /\ conflicts' = conflicts
  BY DEF ResolveTarget, poolVars, intakeVars, ghosts, counters, Unmoved
<1>6. PICK l : /\ h' = [h EXCEPT ![p] = l]
               /\ \/ l = [g EXCEPT !.target = Resolve(Head(g.req.names)), !.pc = "permit"]
                  \/ l = [g EXCEPT !.target = g.req.sender, !.pc = "permit"]
                  \/ l = Idle
  BY DEF ResolveTarget, Become
<1>7. CASE l = Idle
  <2>1. Finished(m)
    BY <1>3, <1>4 DEF Finished
  <2>. QED BY <1>2, <1>5, <1>6, <1>7, <2>1, ReturnIntake DEF Return, Become
<1>8. CASE l # Idle
  <2>1. l.pc = "permit" /\ l.message = m /\ l.req = g.req /\ l.made = g.made
    BY <1>1, <1>2, <1>6, <1>8 DEF Locals
  <2>2. ServeSound(l)
    BY <1>4, <2>1 DEF ServeSound, Filling, Placing, Answering, Dispatching
  <2>. QED BY <1>2, <1>5, <1>6, <2>1, <2>2, IntakeLocal
<1>. QED BY <1>7, <1>8

LEMMA PermitIntake ==
  ASSUME Types, Types', Intake, NEW p \in Handlers, Permit(p)
  PROVE  Intake'
<1>. PICK g : g = h[p]
  OBVIOUS
<1>1. g \in Locals /\ PlaceSound(g, jobs, Len(messages)) /\ g.pc = "permit"
  BY AtPlace DEF Permit, At
<1>2. PICK m : m = g.message /\ m # 0
  BY <1>1 DEF PlaceSound, Answering
<1>3. ServeSound(g) /\ messages[m] \in MessageRow /\ (messages[m].command # None => Named(m) = {})
  BY <1>2, ServedMessage
<1>4. /\ messages[m].command = g.req.command /\ messages[m].command \in Commands
      /\ Made(m) = {} /\ Done(m) = {} /\ Told(m) = {} /\ g.made = <<>>
  BY <1>1, <1>2, <1>3 DEF ServeSound, MessageRow
<1>5. Unmoved /\ crashes' = crashes /\ conflicts' = conflicts
  BY DEF Permit, poolVars, intakeVars, ghosts, counters, Unmoved
<1>6. CASE Return(p)
  <2>1. Finished(m)
    BY <1>3, <1>4 DEF Finished, Commands, None
  <2>. QED BY <1>2, <1>5, <1>6, <2>1, ReturnIntake
<1>7. CASE ~Return(p) /\ g.req.command # "new"
  <2>1. PICK l : l = [g EXCEPT !.pc = "target"]
    OBVIOUS
  <2>2. h' = [h EXCEPT ![p] = l]
    BY <1>7, <2>1 DEF Permit, Become
  <2>3. l.pc = "target" /\ l.message = m /\ l.req = g.req /\ l.made = g.made
    BY <1>1, <1>2, <2>1 DEF Locals
  <2>4. ServeSound(l)
    BY <1>4, <1>7, <2>3 DEF ServeSound, Filling, Placing, Answering, Dispatching
  <2>. QED BY <1>2, <1>5, <2>2, <2>3, <2>4, IntakeLocal
<1>8. CASE ~Return(p) /\ g.req.command = "new"
  <2>1. PICK a \in Agents, channel \in Channels : a = g.target /\ channel = g.req.channel
    BY <1>1 DEF PlaceSound, Answering, Channels
  <2>2. PICK l : l = Creating(g, a, m, channel, None, "record")
    OBVIOUS
  <2>3. h' = [h EXCEPT ![p] = l]
    BY <1>2, <1>8, <2>1, <2>2 DEF Permit, Become
  <2>4. /\ l.pc = "plan" /\ l.agent = a /\ l.cont = "record" /\ l.job = 0
        /\ l.message = m /\ l.req = g.req /\ l.made = g.made
    <3>1. None \in MaybeAgent /\ "record" \in {"idle", "record", "next_job", "schedule"} /\ m \in Nat
      BY <1>1, <1>2 DEF MaybeAgent, Locals
    <3>. QED BY <1>1, <1>2, <2>1, <2>2, <3>1, CreatingTypes
  <2>5. Given(m) = {} /\ Image(l.made) = {}
    BY <1>4, <2>4 DEF Given, Image
  <2>6. ServeSound(l)
    BY <1>4, <1>8, <2>4, <2>5 DEF ServeSound, Filling, Placing, Answering, Dispatching, None
  <2>. QED BY <1>2, <1>5, <2>3, <2>4, <2>6, IntakeLocal
<1>. QED BY <1>6, <1>7, <1>8

LEMMA TargetIntake ==
  ASSUME Types, Types', Intake, NEW p \in Handlers, TargetJob(p)
  PROVE  Intake'
<1>. PICK g : g = h[p]
  OBVIOUS
<1>1. g \in Locals /\ PlaceSound(g, jobs, Len(messages)) /\ g.pc = "target"
  BY AtPlace DEF TargetJob, At
<1>2. PICK m : m = g.message /\ m # 0
  BY <1>1 DEF PlaceSound, Answering
<1>3. ServeSound(g) /\ (messages[m].command # None => Named(m) = {})
  BY <1>2, ServedMessage
<1>4. /\ messages[m].command = g.req.command /\ messages[m].command \in Commands \ {"new"}
      /\ Made(m) = {} /\ Done(m) = {} /\ Told(m) = {} /\ g.made = <<>>
  BY <1>1, <1>2, <1>3 DEF ServeSound
<1>5. Unmoved /\ crashes' = crashes /\ conflicts' = conflicts
  BY DEF TargetJob, poolVars, intakeVars, ghosts, counters, Unmoved
<1>6. PICK l, j : /\ h' = [h EXCEPT ![p] = l]
                  /\ l = Idle \/ l = [g EXCEPT !.job = j, !.pc = "effect"]
  <2>1. PICK all : all = JobsOf(g.target)
    OBVIOUS
  <2>2. PICK open : open = {j \in all : jobs[j].status \notin TerminalStatuses}
    OBVIOUS
  <2>3. PICK among : among = IF open # {} THEN open ELSE all
    OBVIOUS
  <2>4. PICK j : j = CHOOSE i \in among : \A k \in among : k <= i
    OBVIOUS
  <2>5. PICK l : /\ h' = [h EXCEPT ![p] = l]
                 /\ l = Idle \/ l = [g EXCEPT !.job = j, !.pc = "effect"]
    BY <2>1, <2>2, <2>3, <2>4 DEF TargetJob, Become
  <2>. QED BY <2>5
<1>7. CASE l = Idle
  <2>1. Finished(m)
    BY <1>3, <1>4 DEF Finished, Commands, None
  <2>. QED BY <1>2, <1>5, <1>6, <1>7, <2>1, ReturnIntake DEF Return, Become
<1>8. CASE l # Idle
  <2>1. l.pc = "effect" /\ l.message = m /\ l.req = g.req /\ l.made = g.made
    BY <1>1, <1>2, <1>6, <1>8 DEF Locals
  <2>2. ServeSound(l)
    BY <1>4, <2>1 DEF ServeSound, Filling, Placing, Answering, Dispatching
  <2>. QED BY <1>2, <1>5, <1>6, <2>1, <2>2, IntakeLocal
<1>. QED BY <1>7, <1>8

\* Placing the job of a message.
LEMMA FillingServed ==
  ASSUME NEW g, NEW l, ServeSound(g), g.pc \in Filling, l.pc \in Filling, l.job = g.job, Keeps(l, g)
  PROVE  ServeSound(l)
<1>1. \A pc \in Filling : pc \notin Answering \union Dispatching
  BY DEF Filling, Placing, Answering, Dispatching
<1>. QED BY <1>1 DEF ServeSound, Keeps, Answering

LEMMA PlacementIntake ==
  ASSUME Types, Types', Intake, NEW p \in Handlers, UNCHANGED intakeVars,
         PlanAssignment(p) \/ SelectPool(p) \/ ResolveRuntime(p) \/ ReadContext(p)
  PROVE  Intake'
<1>. PICK g : g = h[p]
  OBVIOUS
<1>1. PICK l : /\ h' = [h EXCEPT ![p] = l] /\ l.job = g.job /\ Keeps(l, g)
               /\ l.pc \in Filling /\ g.pc \in Filling
  BY PlacingStep DEF Filling
<1>2. Unmoved /\ crashes' = crashes /\ conflicts' = conflicts
  BY DEF PlanAssignment, SelectPool, ResolveRuntime, ReadContext, poolVars, intakeVars, ghosts,
         counters, Unmoved
<1>3. ServeSound(g)
  BY DEF Intake
<1>4. ServeSound(l) /\ l.message = g.message
  BY <1>1, <1>3, FillingServed DEF Keeps
<1>. QED BY <1>1, <1>2, <1>4, IntakeLocal

LEMMA ImageAppend ==
  ASSUME NEW s \in Seq(Nat), NEW j \in Nat
  PROVE  Image(Append(s, j)) = Image(s) \union {j} /\ Append(s, j) # <<>>
<1>1. PICK t : t = Append(s, j)
  OBVIOUS
<1>2. PICK n \in Nat : n = Len(s) /\ DOMAIN s = 1 .. n
  OBVIOUS
<1>3. /\ DOMAIN t = 1 .. n + 1 /\ t[n + 1] = j /\ t # <<>>
      /\ \A i \in 1 .. n : t[i] = s[i]
  BY <1>1, <1>2
<1>4. Image(t) = Image(s) \union {j}
  <2>1. ASSUME NEW x \in Image(t) PROVE x \in Image(s) \union {j}
    <3>1. PICK i \in 1 .. n + 1 : x = t[i]
      BY <1>3, <2>1 DEF Image
    <3>2. CASE i = n + 1
      BY <1>3, <3>1, <3>2
    <3>3. CASE i # n + 1
      BY <1>2, <1>3, <3>1, <3>3 DEF Image
    <3>. QED BY <3>2, <3>3
  <2>2. ASSUME NEW x \in Image(s) PROVE x \in Image(t)
    <3>1. PICK i \in 1 .. n : x = s[i]
      BY <1>2, <2>2 DEF Image
    <3>2. i \in DOMAIN t /\ t[i] = x
      BY <1>2, <1>3, <3>1
    <3>. QED BY <3>2 DEF Image
  <2>3. j \in Image(t)
    <3>1. n + 1 \in DOMAIN t
      BY <1>2, <1>3
    <3>. QED BY <1>3, <3>1 DEF Image
  <2>. QED BY <2>1, <2>2, <2>3
<1>. QED BY <1>1, <1>3, <1>4

\* Of a message that asks for jobs nothing is missing once the last of them is
\* placed: what Placed leaves is right for each place to go on at.
LEMMA PlacedServed ==
  ASSUME NEW g \in Locals, ServeSound(g), g.pc = "write_context", g.message # 0, g.job # 0,
         NEW l, l = Placed(g)
  PROVE  ServeSound(l)
<1>1. /\ l.pc = g.cont /\ l.job = g.job /\ l.made = Append(g.made, g.job)
      /\ l.message = g.message /\ l.req = g.req /\ l.todo = g.todo
  BY PlacedTypes
<1>2. PICK m : m = g.message
  OBVIOUS
<1>3. g.pc \in Filling
  BY DEF Filling, Placing
<1>4. /\ messages[m].command = g.req.command
      /\ g.cont = (IF messages[m].command = "new" THEN "record" ELSE "next_job")
      /\ messages[m].command \in {"new", None}
      /\ Made(m) = Image(g.made) \union {g.job}
      /\ g.agent \in Given(m) /\ Done(m) = {} /\ Told(m) = {}
      /\ messages[m].command = "new" => g.made = <<>>
      /\ messages[m].command = None =>
           /\ {g.agent} \union Wanted(g.todo) \subseteq Named(m)
           /\ Named(m) \subseteq Given(m) \union Wanted(g.todo) \union {g.agent}
  <2>1. g.message # 0 /\ ServeSound(g)
    OBVIOUS
  <2>. QED BY <1>2, <1>3, <2>1 DEF ServeSound
<1>5. g.made \in Seq(Nat) /\ g.job \in Nat
  BY DEF Locals
<1>6. PICK made : made = l.made
  OBVIOUS
<1>7. Image(made) = Image(g.made) \union {g.job} /\ made # <<>>
  BY <1>1, <1>5, <1>6, ImageAppend
<1>8. CASE messages[m].command = "new"
  <2>1. Made(m) = {l.job} /\ l.made = <<l.job>> /\ l.pc = "record"
    <3>1. g.made = <<>> /\ Image(<<>>) = {}
      BY <1>4, <1>8 DEF Image
    <3>2. Append(<<>>, g.job) = <<g.job>>
      BY <1>5
    <3>3. Made(m) = {g.job}
      BY <1>4, <3>1
    <3>. QED BY <1>1, <1>4, <1>8, <3>1, <3>2, <3>3
  <2>. QED BY <1>1, <1>2, <1>4, <1>8, <2>1
         DEF ServeSound, Filling, Placing, Answering, Dispatching, None
<1>9. CASE messages[m].command = None
  <2>1. l.pc = "next_job" /\ Made(m) = Image(l.made) /\ l.made # <<>>
    BY <1>1, <1>4, <1>6, <1>7, <1>9 DEF None
  <2>2. Wanted(l.todo) \subseteq Named(m) /\ Named(m) \subseteq Given(m) \union Wanted(l.todo)
    BY <1>1, <1>4, <1>9
  <2>. QED BY <1>1, <1>2, <1>4, <1>9, <2>1, <2>2
         DEF ServeSound, Filling, Placing, Answering, Dispatching
<1>. QED BY <1>4, <1>8, <1>9

LEMMA WriteIntake ==
  ASSUME Types, Types', Intake, NEW p \in Handlers, WriteContext(p), UNCHANGED intakeVars
  PROVE  Intake'
<1>. PICK g : g = h[p]
  OBVIOUS
<1>1. g \in Locals /\ PlaceSound(g, jobs, Len(messages)) /\ g.pc = "write_context"
  BY AtPlace DEF WriteContext, At
<1>2. g.job # 0 /\ (g.message = 0 <=> g.cont \in {"idle", "schedule"})
  BY <1>1 DEF PlaceSound, Filling, Placing
<1>3. Unmoved /\ crashes' = crashes
  BY DEF WriteContext, intakeVars, counters, Unmoved
<1>4. conflicts => conflicts'
  BY DEF WriteContext
<1>5. CASE Return(p)
  <2>1. conflicts' \/ g.message = 0
    <3>1. CASE conflicts' = TRUE
      BY <3>1
    <3>2. CASE conflicts' # TRUE
      <4>1. g.cont = "idle" \/ h' = [h EXCEPT ![p] = Placed(g)]
        BY <3>2 DEF WriteContext, Become
      <4>2. ASSUME h' = [h EXCEPT ![p] = Placed(g)] PROVE g.cont = "idle"
        <5>1. h'[p] = Placed(g) /\ h'[p] = Idle
          BY <1>5, <4>2 DEF Types, Return, Become
        <5>2. Placed(g).made = Append(g.made, g.job) /\ g.made \in Seq(Nat) /\ g.job \in Nat
          BY <1>1, PlacedTypes DEF Locals
        <5>3. Idle.made = <<>>
          BY DEF Idle
        <5>. QED BY <5>1, <5>2, <5>3
      <4>. QED BY <1>2, <4>1, <4>2
    <3>. QED BY <3>1, <3>2
  <2>. QED BY <1>3, <1>4, <1>5, <2>1, ReturnIntake
<1>6. CASE ~Return(p)
  <2>1. h' = [h EXCEPT ![p] = Placed(g)]
    BY <1>6 DEF WriteContext, Become
  <2>2. PICK l : l = Placed(g)
    OBVIOUS
  <2>3. l.message = g.message
    BY <1>1, <2>2, PlacedTypes
  <2>4. ServeSound(g)
    BY DEF Intake
  <2>5. ServeSound(l)
    <3>1. CASE g.message = 0
      BY <2>3, <3>1 DEF ServeSound
    <3>2. CASE g.message # 0
      BY <1>1, <1>2, <2>2, <2>4, <3>2, PlacedServed
    <3>. QED BY <3>1, <3>2
  <2>. QED BY <1>3, <1>4, <2>1, <2>2, <2>3, <2>5, IntakeLocal
<1>. QED BY <1>5, <1>6

\* What is left of a list after its element i.
LEMMA RestWanted ==
  ASSUME NEW todo \in Seq(MentionRow), NEW i \in DOMAIN todo, NEW rest,
         rest = SubSeq(todo, i + 1, Len(todo))
  PROVE  /\ Wanted(rest) \subseteq Wanted(todo)
         /\ \A k \in DOMAIN todo : k > i => todo[k].agent \in Wanted(rest)
<1>1. PICK n \in Nat : n = Len(todo) /\ DOMAIN todo = 1 .. n
  OBVIOUS
<1>2. i \in 1 .. n /\ DOMAIN rest = 1 .. n - i /\ \A k \in 1 .. n - i : rest[k] = todo[i + k]
  BY <1>1
<1>3. ASSUME NEW x \in Wanted(rest) PROVE x \in Wanted(todo)
  <2>1. PICK k \in 1 .. n - i : x = rest[k].agent
    BY <1>2, <1>3 DEF Wanted
  <2>2. i + k \in 1 .. n
    BY <1>2
  <2>3. x = todo[i + k].agent
    BY <1>2, <2>1
  <2>. QED BY <1>1, <2>2, <2>3 DEF Wanted
<1>4. ASSUME NEW k \in DOMAIN todo, k > i PROVE todo[k].agent \in Wanted(rest)
  <2>1. PICK e \in 1 .. n - i : e = k - i
    BY <1>1, <1>2, <1>4
  <2>2. rest[e] = todo[k]
    <3>1. rest[e] = todo[i + e] /\ i + e = k
      BY <1>1, <1>2, <2>1
    <3>. QED BY <3>1
  <2>. QED BY <1>2, <2>1, <2>2 DEF Wanted
<1>. QED BY <1>3, <1>4

LEMMA NextJobIntake ==
  ASSUME Types, Types', Intake, NEW p \in Handlers, NextJob(p)
  PROVE  Intake'
<1>. PICK g : g = h[p]
  OBVIOUS
<1>1. g \in Locals /\ PlaceSound(g, jobs, Len(messages)) /\ g.pc = "next_job"
  BY AtPlace DEF NextJob, CreateNext, At
<1>2. PICK m : m = g.message /\ m # 0
  BY <1>1 DEF PlaceSound, Answering
<1>3. ServeSound(g) /\ (messages[m].command = None => Done(m) = {} /\ Told(m) = {})
  BY <1>2, ServedMessage
<1>4. /\ messages[m].command = g.req.command /\ messages[m].command = None
      /\ Made(m) = Image(g.made) /\ Wanted(g.todo) \subseteq Named(m)
      /\ Named(m) \subseteq Given(m) \union Wanted(g.todo)
      /\ Done(m) = {} /\ Told(m) = {}
  BY <1>1, <1>2, <1>3 DEF ServeSound
<1>5. Unmoved /\ crashes' = crashes /\ conflicts' = conflicts
  BY DEF NextJob, CreateNext, poolVars, intakeVars, ghosts, counters, Unmoved
<1>. PICK seen : seen = {jobs[h[p].made[i]].agent : i \in DOMAIN h[p].made}
  OBVIOUS
<1>6. seen = Given(m)
  BY <1>4 DEF Given, Image
<1>. PICK todo : todo = h[p].todo
  OBVIOUS
<1>. PICK fresh : fresh = {i \in DOMAIN todo : todo[i].agent \notin seen}
  OBVIOUS
<1>7. todo = g.todo /\ todo \in Seq(MentionRow) /\ g.message \in Nat /\ g.channel \in Channels
  BY <1>1 DEF Locals
<1>8. CreateNext(p, seen)
  BY DEF NextJob
<1>9. CASE fresh = {}
  <2>1. PICK l : l = [g EXCEPT !.pc = "schedule", !.todo = <<>>]
    OBVIOUS
  <2>2. h' = [h EXCEPT ![p] = l]
    BY <1>8, <1>9, <2>1 DEF CreateNext, Become
  <2>3. l.pc = "schedule" /\ l.message = m /\ l.req = g.req
    BY <1>1, <1>2, <2>1 DEF Locals
  <2>4. Wanted(todo) \subseteq Given(m)
    BY <1>6, <1>9 DEF Wanted
  <2>5. Finished(m)
    BY <1>4, <1>7, <2>4 DEF Finished
  <2>6. ServeSound(l)
    BY <1>4, <2>3, <2>5 DEF ServeSound, Filling, Placing, Answering, Dispatching
  <2>. QED BY <1>2, <1>5, <2>2, <2>3, <2>6, IntakeLocal
<1>10. CASE fresh # {}
  <2>1. PICK i : i = Min(fresh)
    OBVIOUS
  <2>2. i \in fresh /\ \A k \in fresh : i <= k
    <3>1. fresh \in SUBSET Nat
      BY <1>7
    <3>. QED BY <1>10, <2>1, <3>1, MinKnown
  <2>3. i \in DOMAIN todo /\ todo[i] \in MentionRow
    <3>1. i \in DOMAIN todo
      BY <2>2
    <3>. QED BY <1>7, <3>1
  <2>4. PICK a \in Agents, runtime \in MaybeAgent :
          a = todo[i].agent /\ runtime = Runtime(todo[i])
    BY <2>3 DEF Runtime, MentionRow, MaybeAgent
  <2>5. PICK k : k = Creating(g, a, g.message, g.channel, runtime, "next_job")
    OBVIOUS
  <2>6. /\ k \in Locals /\ k.pc = "plan" /\ k.agent = a
        /\ k.cont = "next_job" /\ k.job = 0
        /\ k.message = g.message /\ k.req = g.req /\ k.made = g.made
    <3>1. PICK n \in Nat, channel \in Channels : n = g.message /\ channel = g.channel
      BY <1>7
    <3>2. /\ g \in Locals /\ k = Creating(g, a, n, channel, runtime, "next_job")
          /\ "next_job" \in {"idle", "record", "next_job", "schedule"}
      BY <1>1, <2>5, <3>1
    <3>. QED BY <2>4, <3>1, <3>2, CreatingTypes
  <2>7. PICK rest : rest = SubSeq(todo, i + 1, Len(todo))
    OBVIOUS
  <2>8. PICK l : l = [k EXCEPT !.todo = rest]
    OBVIOUS
  <2>9. h' = [h EXCEPT ![p] = l]
    <3>1. h' = [h EXCEPT ![p] =
              [Creating(h[p], todo[Min(fresh)].agent, h[p].message, h[p].channel,
                        Runtime(todo[Min(fresh)]), "next_job")
                 EXCEPT !.todo = SubSeq(todo, Min(fresh) + 1, Len(todo))]]
      BY <1>8, <1>10 DEF CreateNext, Become
    <3>. QED BY <2>1, <2>4, <2>5, <2>7, <2>8, <3>1
  <2>10. /\ l.pc = "plan" /\ l.agent = a /\ l.cont = "next_job" /\ l.job = 0
         /\ l.message = m /\ l.req = g.req /\ l.made = g.made /\ l.todo = rest
    BY <1>2, <2>6, <2>8 DEF Locals
  <2>11. a \in Wanted(todo) /\ a \notin Given(m)
    BY <1>6, <2>2, <2>3, <2>4 DEF Wanted
  <2>12. /\ Wanted(rest) \subseteq Wanted(todo)
         /\ \A e \in DOMAIN todo : e > i => todo[e].agent \in Wanted(rest)
    <3>1. PICK s \in Seq(MentionRow) : s = todo
      BY <1>7
    <3>2. PICK f \in DOMAIN s : f = i
      BY <2>3, <3>1
    <3>3. rest = SubSeq(s, f + 1, Len(s))
      BY <2>7, <3>1, <3>2
    <3>4. /\ Wanted(rest) \subseteq Wanted(s)
          /\ \A e \in DOMAIN s : e > f => s[e].agent \in Wanted(rest)
      BY <3>3, RestWanted
    <3>. QED BY <3>1, <3>2, <3>4
  <2>13. Wanted(todo) \subseteq Given(m) \union Wanted(rest) \union {a}
    <3>1. ASSUME NEW x \in Wanted(todo) PROVE x \in Given(m) \union Wanted(rest) \union {a}
      <4>1. PICK e \in DOMAIN todo : x = todo[e].agent
        BY <3>1 DEF Wanted
      <4>2. e \in Nat /\ i \in Nat
        BY <1>7, <2>3, <4>1
      <4>3. CASE e < i
        <5>1. e \notin fresh
          BY <2>2, <4>2, <4>3
        <5>. QED BY <1>6, <4>1, <5>1
      <4>4. CASE e = i
        BY <2>4, <4>1, <4>4
      <4>5. CASE e > i
        BY <2>12, <4>1, <4>5
      <4>. QED BY <4>2, <4>3, <4>4, <4>5
    <3>. QED BY <3>1
  <2>14. /\ {l.agent} \union Wanted(l.todo) \subseteq Named(m)
         /\ Named(m) \subseteq Given(m) \union Wanted(l.todo) \union {l.agent}
    BY <1>4, <1>7, <2>10, <2>11, <2>12, <2>13
  <2>15. ServeSound(l)
    BY <1>4, <2>10, <2>11, <2>14 DEF ServeSound, Filling, Placing, Answering, Dispatching, None
  <2>. QED BY <1>2, <1>5, <2>9, <2>10, <2>15, IntakeLocal
<1>. QED BY <1>9, <1>10

\* The dispatch of the jobs a request created leaves what is right of its message.
LEMMA ScheduleIntake ==
  ASSUME Types, Types', Intake, NEW p \in Handlers, Schedule(p)
  PROVE  Intake'
<1>. PICK g : g = h[p]
  OBVIOUS
<1>1. g \in Locals /\ g.pc = "schedule"
  BY AtPlace DEF Schedule, At
<1>2. ServeSound(g)
  BY DEF Intake
<1>3. Unmoved /\ crashes' = crashes /\ conflicts' = conflicts
  BY DEF Schedule, poolVars, intakeVars, ghosts, counters, Unmoved
<1>4. PICK j : j = Head(g.made)
  OBVIOUS
<1>5. PICK rule : rule = JobDispatch(Rules, ActiveRules, jobs[j].channel, jobs[j].agent)
  OBVIOUS
<1>6. PICK row : row = [jobs[j] EXCEPT !.channel = rule.channel]
  OBVIOUS
<1>7. PICK pc : pc = IF rule.channel # jobs[j].channel THEN "reroute"
                     ELSE IF rule.held THEN "hold" ELSE "dispatch"
  OBVIOUS
<1>8. PICK l : l = [g EXCEPT !.job = j, !.row = row, !.held = rule.held, !.pc = pc]
  OBVIOUS
<1>9. h' = [h EXCEPT ![p] = l]
  BY <1>4, <1>5, <1>6, <1>7, <1>8 DEF Schedule, Become
<1>10. l.pc \in {"reroute", "hold", "dispatch"} /\ l.message = g.message /\ l.req = g.req
  BY <1>1, <1>7, <1>8 DEF Locals
<1>11. ServeSound(l)
  BY <1>1, <1>2, <1>10 DEF ServeSound, Filling, Placing, Answering, Dispatching
<1>. QED BY <1>3, <1>9, <1>10, <1>11, IntakeLocal

LEMMA DispatchIntake ==
  ASSUME Types, Types', Intake, NEW p \in Handlers, Reroute(p) \/ Hold(p) \/ Dispatch(p)
  PROVE  Intake'
<1>. PICK g : g = h[p]
  OBVIOUS
<1>1. g \in Locals /\ PlaceSound(g, jobs, Len(messages)) /\ g.pc \in {"reroute", "hold", "dispatch"}
  BY AtPlace DEF Reroute, Hold, Dispatch, At
<1>2. PICK j : j = g.job
  OBVIOUS
<1>3. /\ j \in DOMAIN jobs /\ g.row.agent = jobs[j].agent /\ g.row.source = jobs[j].source
      /\ jobs[j] \in JobRows /\ g.row \in AnyJobRow
  BY <1>1, <1>2 DEF PlaceSound, Types, TablesOK, Locals
<1>4. ServeSound(g)
  BY DEF Intake
<1>5. /\ crashes' = crashes /\ conflicts' = conflicts
      /\ messages' = messages /\ signals' = signals /\ events' = events
  BY DEF Reroute, Hold, Dispatch, intakeVars, ghosts, counters
<1>6. PICK held, running : /\ held = [g.row EXCEPT !.status = "input_required"]
                           /\ running = [jobs[j] EXCEPT !.status = "running"]
  OBVIOUS
<1>7. /\ held.agent = jobs[j].agent /\ held.source = jobs[j].source
      /\ running.agent = jobs[j].agent /\ running.source = jobs[j].source
  BY <1>3, <1>6 DEF AnyJobRow, JobRows
<1>8. Unmoved
  <2>1. UpdateJob(j, g.row) \/ UpdateJob(j, held) \/ UpdateJob(j, running) \/ UNCHANGED jobs
    BY <1>2, <1>6 DEF Reroute, Hold, Dispatch
  <2>2. CASE UNCHANGED jobs
    BY <1>5, <2>2 DEF Unmoved
  <2>. QED BY <1>3, <1>5, <1>7, <2>1, <2>2, UpdateUnmoved
<1>9. PICK next : next = Tail(g.made)
  OBVIOUS
<1>10. PICK l : /\ h' = [h EXCEPT ![p] = l]
                /\ \/ l = [g EXCEPT !.pc = "hold"] \/ l = [g EXCEPT !.pc = "dispatch"]
                   \/ l = Idle \/ l = [g EXCEPT !.pc = "schedule", !.made = next]
  BY <1>9 DEF Reroute, Hold, Dispatch, Goto, Become, Scheduled
<1>11. g.message # 0 => Finished(g.message)
  BY <1>1, <1>4 DEF ServeSound, Dispatching
<1>12. CASE l = Idle
  BY <1>5, <1>8, <1>10, <1>11, <1>12, ReturnIntake DEF Return, Become
<1>13. CASE l # Idle
  <2>1. l.pc \in {"hold", "dispatch", "schedule"} /\ l.message = g.message /\ l.req = g.req
    BY <1>1, <1>10, <1>13 DEF Locals
  <2>2. ServeSound(l)
    BY <1>1, <1>4, <1>11, <2>1 DEF ServeSound, Filling, Placing, Answering, Dispatching
  <2>. QED BY <1>5, <1>8, <1>10, <2>1, <2>2, IntakeLocal
<1>. QED BY <1>12, <1>13

\* A mention row is written.
LEMMA MentionIntake ==
  ASSUME Types, Types', Intake, NEW p \in Handlers, InsertMention(p)
  PROVE  Intake'
<1>. PICK g : g = h[p]
  OBVIOUS
<1>1. g \in Locals /\ PlaceSound(g, jobs, Len(messages)) /\ g.pc = "mention"
  BY AtPlace DEF InsertMention, At
<1>2. PICK m : m = g.message /\ m # 0
  BY <1>1 DEF PlaceSound, Answering
<1>3. /\ m \in DOMAIN messages /\ messages[m] \in MessageRow /\ messages \in Seq(MessageRow)
      /\ MessageSound(m) /\ ServeSound(g)
  BY <1>2, ServedMessage
<1>. PICK old : old = messages[m].mentions
  OBVIOUS
<1>. PICK todo : todo = g.todo
  OBVIOUS
<1>4. /\ messages[m].command = g.req.command /\ messages[m].command = None
      /\ Made(m) = {} /\ Done(m) = {} /\ Told(m) = {} /\ g.made = <<>>
      /\ Len(old) < Len(todo) /\ \A i \in DOMAIN old : old[i] = todo[i].agent
  BY <1>1, <1>2, <1>3 DEF ServeSound
<1>5. old \in Seq(Agents) /\ todo \in Seq(MentionRow)
  BY <1>1, <1>3 DEF MessageRow, Locals
<1>6. PICK n \in Nat : n = Len(old) /\ DOMAIN old = 1 .. n
  BY <1>5
<1>7. PICK k \in Nat : k = Len(todo) /\ DOMAIN todo = 1 .. k
  BY <1>5
<1>8. n + 1 \in DOMAIN todo
  BY <1>4, <1>6, <1>7
<1>9. PICK a : a = todo[n + 1].agent
  OBVIOUS
<1>10. a \in Agents
  <2>1. todo[n + 1] \in MentionRow
    BY <1>5, <1>8
  <2>. QED BY <1>9, <2>1 DEF MentionRow
<1>11. PICK new : new = Append(old, a)
  OBVIOUS
<1>12. /\ DOMAIN new = 1 .. n + 1 /\ Len(new) = n + 1 /\ new[n + 1] = a
       /\ \A i \in 1 .. n : new[i] = old[i]
  BY <1>5, <1>6, <1>10, <1>11
<1>13. \A i \in DOMAIN new : new[i] = todo[i].agent
  BY <1>4, <1>6, <1>9, <1>12
<1>14. PICK row : row = [messages[m] EXCEPT !.mentions = new]
  OBVIOUS
<1>15. messages' = [messages EXCEPT ![m] = row]
  BY <1>2, <1>6, <1>9, <1>11, <1>14 DEF InsertMention, InsertMentionRow
<1>16. /\ DOMAIN messages' = DOMAIN messages /\ Len(messages') = Len(messages)
       /\ messages'[m] = row /\ \A x \in DOMAIN messages : x # m => messages'[x] = messages[x]
  BY <1>3, <1>15
<1>17. row.mentions = new /\ row.command = None
  BY <1>3, <1>4, <1>14 DEF MessageRow
<1>18. /\ jobs' = jobs /\ signals' = signals /\ events' = events /\ crashes' = crashes
       /\ conflicts' = conflicts
  BY DEF InsertMention, poolVars, ghosts, counters
<1>19. \A x : Made(x)' = Made(x) /\ Done(x)' = Done(x) /\ Told(x)' = Told(x)
  BY <1>18 DEF Made, Done, Told
<1>20. \A x \in DOMAIN messages : x # m => Same(x)
  BY <1>16, <1>18, <1>19 DEF Same
<1>21. MessageSound(m)'
  BY <1>4, <1>16, <1>17, <1>19 DEF MessageSound, Given, Commands, None
<1>22. PICK l : /\ h' = [h EXCEPT ![p] = l]
                /\ \/ l = [g EXCEPT !.pc = "next_job"] /\ n + 1 = k
                   \/ l = g /\ n + 1 # k
  <2>1. UNCHANGED h => h' = [h EXCEPT ![p] = g]
    BY DEF Types
  <2>. QED BY <1>2, <1>6, <1>7, <2>1 DEF InsertMention, Goto
<1>23. ServeSound(l)'
  <2>1. l.message = m /\ l.req = g.req /\ l.made = <<>> /\ l.todo = todo
    BY <1>1, <1>2, <1>4, <1>22 DEF Locals
  <2>2. CASE l.pc = "next_job" /\ n + 1 = k
    <3>1. Named(m)' = Wanted(todo)
      <4>1. Named(m)' = {new[i] : i \in DOMAIN new}
        BY <1>16, <1>17 DEF Named
      <4>2. DOMAIN new = DOMAIN todo
        BY <1>7, <1>12, <2>2
      <4>. QED BY <1>13, <4>1, <4>2 DEF Wanted
    <3>2. Image(<<>>) = {} /\ todo # <<>>
      BY <1>7, <2>2 DEF Image
    <3>. QED BY <1>4, <1>16, <1>17, <1>19, <2>1, <2>2, <3>1, <3>2
           DEF ServeSound, Filling, Placing, Answering, Dispatching
  <2>3. CASE l.pc = "mention" /\ n + 1 # k
    <3>1. Len(new) < Len(todo)
      BY <1>4, <1>6, <1>7, <1>12, <2>3
    <3>. QED BY <1>4, <1>12, <1>13, <1>16, <1>17, <1>19, <2>1, <2>3, <3>1
           DEF ServeSound, Filling, Placing, Answering, Dispatching
  <2>4. (l.pc = "next_job" /\ n + 1 = k) \/ (l.pc = "mention" /\ n + 1 # k)
    BY <1>1, <1>22 DEF Locals
  <2>. QED BY <2>2, <2>3, <2>4
<1>24. l.message = m
  BY <1>1, <1>2, <1>22 DEF Locals
<1>25. /\ \A j \in DOMAIN jobs' : jobs'[j].source <= Len(messages')
       /\ \A s \in signals' \union events' : s.message \in DOMAIN messages'
  BY <1>16, <1>18 DEF Intake
<1>. QED BY <1>2, <1>16, <1>18, <1>20, <1>21, <1>22, <1>23, <1>24, <1>25, IntakeStep

\* A job is inserted.
LEMMA InsertIntake ==
  ASSUME Types, Types', Intake, NEW p \in Handlers, InsertJob(p), UNCHANGED intakeVars
  PROVE  Intake'
<1>. PICK g : g = h[p]
  OBVIOUS
<1>1. g \in Locals /\ PlaceSound(g, jobs, Len(messages)) /\ g.pc = "insert"
  BY AtPlace DEF InsertJob, At
<1>2. PICK m : m = g.message
  OBVIOUS
<1>3. /\ g.agent \in Agents /\ g.source = m /\ g.job = 0 /\ m \in 0 .. Len(messages)
  BY <1>1, <1>2 DEF PlaceSound, Filling
<1>4. PICK n \in Nat : n = Len(jobs) /\ DOMAIN jobs = 1 .. n
  BY DEF Types, TablesOK
<1>5. PICK runtime : runtime = IF g.explicit # None THEN g.explicit ELSE g.runtime
  OBVIOUS
<1>6. PICK row : row = JobRow(g.agent, g.source, runtime, g.channel)
  OBVIOUS
<1>7. PICK l : l = [g EXCEPT !.job = n + 1, !.explicit = runtime, !.pc = "plan"]
  OBVIOUS
<1>8. jobs' = Append(jobs, row) /\ h' = [h EXCEPT ![p] = l]
  BY <1>4, <1>5, <1>6, <1>7 DEF InsertJob, Become
<1>9. l.job = n + 1 /\ l.pc = "plan" /\ Keeps(l, g)
  BY <1>1, <1>7 DEF Locals, Keeps
<1>10. /\ DOMAIN jobs' = 1 .. n + 1 /\ jobs'[n + 1] = row
       /\ \A j \in 1 .. n : jobs'[j] = jobs[j]
  BY <1>4, <1>8 DEF Types, TablesOK
<1>11. row.agent = g.agent /\ row.source = m
  BY <1>3, <1>6 DEF JobRow
<1>12. /\ messages' = messages /\ signals' = signals /\ events' = events /\ crashes' = crashes
       /\ conflicts' = conflicts
  BY DEF InsertJob, intakeVars, ghosts, counters
<1>13. ASSUME NEW x, x # m PROVE Same(x)
  <2>1. Made(x)' = Made(x)
    BY <1>4, <1>10, <1>11, <1>13 DEF Made
  <2>2. \A j \in Made(x) : jobs'[j].agent = jobs[j].agent
    BY <1>4, <1>10 DEF Made
  <2>. QED BY <1>12, <2>1, <2>2 DEF Same, Done, Told
<1>14. Made(m)' = Made(m) \union {n + 1}
  BY <1>4, <1>10, <1>11 DEF Made
<1>15. \A j \in Made(m) : jobs'[j] = jobs[j] /\ j # n + 1
  BY <1>4, <1>10 DEF Made
<1>16. Given(m)' = Given(m) \union {g.agent}
  <2>1. Given(m)' = {jobs'[j].agent : j \in Made(m)'}
    BY DEF Given
  <2>2. \A j \in Made(m)' : (j \in Made(m) /\ jobs'[j] = jobs[j]) \/ j = n + 1
    BY <1>14, <1>15
  <2>. QED BY <1>10, <1>11, <1>14, <1>15, <2>1, <2>2 DEF Given
<1>17. Named(m)' = Named(m) /\ Done(m)' = Done(m) /\ Told(m)' = Told(m)
  BY <1>12 DEF Named, Done, Told
<1>18. g.pc \in Filling /\ g.pc \notin Answering \union Dispatching
  BY <1>1 DEF Filling, Answering, Dispatching
<1>19. ServeSound(g)
  BY DEF Intake
<1>20. m # 0 =>
        /\ messages[m].command = g.req.command /\ MessageSound(m)
        /\ g.cont = (IF messages[m].command = "new" THEN "record" ELSE "next_job")
        /\ messages[m].command \in {"new", None}
        /\ Made(m) = Image(g.made) /\ g.agent \notin Given(m)
        /\ Done(m) = {} /\ Told(m) = {}
        /\ messages[m].command = "new" => g.made = <<>> /\ Made(m) = {}
        /\ messages[m].command = None =>
             /\ {g.agent} \union Wanted(g.todo) \subseteq Named(m)
             /\ Named(m) \subseteq Given(m) \union Wanted(g.todo) \union {g.agent}
  <2>1. Image(<<>>) = {}
    BY DEF Image
  <2>2. m \in DOMAIN messages \/ m = 0
    BY <1>3 DEF Types, TablesOK
  <2>3. \A x \in DOMAIN messages : MessageSound(x)
    BY DEF Intake
  <2>. QED BY <1>2, <1>3, <1>18, <1>19, <2>1, <2>2, <2>3 DEF ServeSound
<1>21. m \in DOMAIN messages => MessageSound(m)'
  <2>. SUFFICES ASSUME m \in DOMAIN messages PROVE MessageSound(m)'
    OBVIOUS
  <2>1. m # 0
    BY DEF Types, TablesOK
  <2>2. \A j, k \in Made(m)' : jobs'[j].agent = jobs'[k].agent => j = k
    <3>1. \A j \in Made(m) : jobs'[j].agent \in Given(m)
      BY <1>15 DEF Given
    <3>2. \A j, k \in Made(m) : jobs'[j].agent = jobs'[k].agent => j = k
      BY <1>15, <1>20, <2>1 DEF MessageSound
    <3>3. jobs'[n + 1].agent \notin Given(m)
      BY <1>10, <1>11, <1>20, <2>1
    <3>. QED BY <1>14, <3>1, <3>2, <3>3
  <2>3. messages[m].command = None => Given(m)' \subseteq Named(m)'
    BY <1>16, <1>17, <1>20, <2>1 DEF MessageSound
  <2>4. messages[m].command = "new" => (Named(m)' = {} /\ \A j, k \in Made(m)' : j = k)
    BY <1>14, <1>17, <1>20, <2>1 DEF MessageSound, None
  <2>5. messages[m].command \notin Commands \ {"new"} /\ None # "new"
    BY <1>20, <2>1 DEF Commands, None
  <2>. QED BY <1>12, <1>17, <1>20, <2>1, <2>2, <2>3, <2>4, <2>5 DEF MessageSound
<1>22. ServeSound(l)'
  <2>1. CASE m = 0
    BY <1>2, <1>9, <2>1 DEF Keeps, ServeSound
  <2>2. CASE m # 0
    <3>1. l.pc \in Filling /\ l.pc \notin Answering \union Dispatching
      BY <1>9 DEF Filling, Placing, Answering, Dispatching
    <3>2. /\ l.agent \in Given(m)' /\ Made(m)' = Image(l.made) \union ({l.job} \ {0}) /\ l.job # 0
      BY <1>9, <1>14, <1>16, <1>20, <2>2 DEF Keeps
    <3>3. /\ l.message = m /\ l.req = g.req /\ l.cont = g.cont /\ l.made = g.made
          /\ l.todo = g.todo /\ l.agent = g.agent
      BY <1>2, <1>9 DEF Keeps
    <3>. QED BY <1>12, <1>16, <1>17, <1>20, <2>2, <3>1, <3>2, <3>3 DEF ServeSound, Answering
  <2>. QED BY <2>1, <2>2
<1>23. /\ \A j \in DOMAIN jobs' : jobs'[j].source <= Len(messages')
       /\ \A s \in signals' \union events' : s.message \in DOMAIN messages'
  BY <1>3, <1>4, <1>10, <1>11, <1>12 DEF Intake
<1>24. l.message = m
  BY <1>2, <1>9 DEF Keeps
<1>. QED BY <1>2, <1>8, <1>12, <1>13, <1>21, <1>22, <1>23, <1>24, IntakeStep

\* The relay engine or the review service has taken a command's call.
LEMMA EffectIntake ==
  ASSUME Types, Types', Intake, NEW p \in Handlers, Effect(p)
  PROVE  Intake'
<1>. PICK g : g = h[p]
  OBVIOUS
<1>1. g \in Locals /\ PlaceSound(g, jobs, Len(messages)) /\ g.pc = "effect"
  BY AtPlace DEF Effect, At
<1>2. PICK m : m = g.message /\ m # 0
  BY <1>1 DEF PlaceSound, Answering
<1>3. /\ m \in DOMAIN messages /\ ServeSound(g) /\ MessageSound(m)
      /\ messages[m].command # None => Named(m) = {}
  BY <1>2, ServedMessage
<1>4. /\ messages[m].command = g.req.command /\ messages[m].command \in Commands \ {"new"}
      /\ Made(m) = {} /\ Done(m) = {} /\ Told(m) = {} /\ g.made = <<>>
  BY <1>1, <1>2, <1>3 DEF ServeSound
<1>5. messages[m].command # None /\ messages[m].command # "new" /\ Named(m) = {}
  BY <1>3, <1>4 DEF Commands, None
<1>6. messages' = messages /\ events' = events /\ crashes' = crashes /\ conflicts' = conflicts
  BY DEF Effect, ghosts, counters
<1>7. CASE Return(p) /\ UNCHANGED <<jobs, signals>>
  <2>1. Finished(m) /\ Unmoved
    BY <1>4, <1>5, <1>6, <1>7 DEF Finished, Unmoved
  <2>. QED BY <1>2, <1>6, <1>7, <2>1, ReturnIntake
<1>8. CASE ~(Return(p) /\ UNCHANGED <<jobs, signals>>)
  <2>1. PICK j : j = g.job
    OBVIOUS
  <2>2. j \in DOMAIN jobs /\ jobs[j] \in JobRows
    BY <1>1, <2>1 DEF PlaceSound, Types, TablesOK
  <2>3. PICK over : over = [jobs[j] EXCEPT !.status = "canceled"]
    OBVIOUS
  <2>4. over.agent = jobs[j].agent /\ over.source = jobs[j].source
    BY <2>2, <2>3 DEF JobRows
  <2>5. PICK c : c = [message |-> m, command |-> g.req.command, job |-> j]
    OBVIOUS
  <2>6. /\ signals' = signals \union {c} /\ h' = [h EXCEPT ![p].pc = "record"]
        /\ jobs' = [jobs EXCEPT ![j] = over] \/ jobs' = jobs
    BY <1>2, <1>8, <2>1, <2>3, <2>5 DEF Effect, ControlOf, UpdateJob, Goto
  <2>7. /\ DOMAIN jobs' = DOMAIN jobs
        /\ \A k \in DOMAIN jobs : jobs'[k].agent = jobs[k].agent /\ jobs'[k].source = jobs[k].source
    BY <2>2, <2>4, <2>6 DEF Types, TablesOK
  <2>8. c.message = m /\ c.command = messages[m].command
    BY <1>4, <2>5
  <2>9. /\ \A x : Made(x)' = Made(x) /\ Told(x)' = Told(x)
        /\ \A x : x # m => Done(x)' = Done(x)
        /\ Done(m)' = {c} /\ Made(m)' = {} /\ Told(m)' = {}
    BY <1>4, <1>6, <2>6, <2>7, <2>8 DEF Made, Done, Told
  <2>10. ASSUME NEW x, x # m PROVE Same(x)
    BY <1>6, <2>7, <2>9, <2>10 DEF Same, Made
  <2>11. Named(m)' = {}
    BY <1>5, <1>6 DEF Named
  <2>12. MessageSound(m)'
    BY <1>4, <1>5, <1>6, <2>8, <2>9, <2>11 DEF MessageSound
  <2>13. PICK l : l = [g EXCEPT !.pc = "record"]
    OBVIOUS
  <2>14. h' = [h EXCEPT ![p] = l]
    BY <2>6, <2>13
  <2>15. l.pc = "record" /\ l.message = m /\ l.req = g.req /\ l.job = j
    BY <1>1, <1>2, <2>1, <2>13 DEF Locals
  <2>16. ServeSound(l)'
    <3>1. [message |-> m, command |-> messages[m].command, job |-> l.job] \in signals'
      BY <1>4, <2>5, <2>6, <2>15
    <3>. QED BY <1>2, <1>4, <1>5, <1>6, <2>9, <2>15, <3>1
           DEF ServeSound, Filling, Placing, Answering, Dispatching
  <2>17. /\ \A k \in DOMAIN jobs' : jobs'[k].source <= Len(messages')
         /\ \A s \in signals' \union events' : s.message \in DOMAIN messages'
    BY <1>3, <1>6, <2>6, <2>7, <2>8 DEF Intake
  <2>. QED BY <1>2, <1>6, <2>10, <2>12, <2>14, <2>15, <2>16, <2>17, IntakeStep
<1>. QED BY <1>7, <1>8

\* The event of a command that was carried out is recorded.
LEMMA RecordIntake ==
  ASSUME Types, Types', Intake, NEW p \in Handlers, RecordCommand(p)
  PROVE  Intake'
<1>. PICK g : g = h[p]
  OBVIOUS
<1>1. g \in Locals /\ PlaceSound(g, jobs, Len(messages)) /\ g.pc = "record"
  BY AtPlace DEF RecordCommand, At
<1>2. PICK m : m = g.message /\ m # 0
  BY <1>1 DEF PlaceSound, Answering
<1>3. /\ m \in DOMAIN messages /\ ServeSound(g) /\ MessageSound(m)
      /\ messages[m].command # None => Named(m) = {}
  BY <1>2, ServedMessage
<1>. PICK c : c = [message |-> m, command |-> messages[m].command, job |-> g.job]
  OBVIOUS
<1>4. /\ messages[m].command = g.req.command /\ messages[m].command # None /\ Told(m) = {}
      /\ IF messages[m].command = "new" THEN Made(m) = {g.job} ELSE c \in signals
  BY <1>1, <1>2, <1>3 DEF ServeSound
<1>5. Named(m) = {}
  BY <1>3, <1>4
<1>6. /\ messages' = messages /\ jobs' = jobs /\ signals' = signals /\ crashes' = crashes
      /\ conflicts' = conflicts
  BY DEF RecordCommand, poolVars, ghosts, counters
<1>7. events' = events \union {c}
  BY <1>2, <1>4 DEF RecordCommand, ControlOf
<1>8. c.message = m /\ c.command = messages[m].command /\ c.job = g.job
  OBVIOUS
<1>9. /\ \A x : Made(x)' = Made(x) /\ Done(x)' = Done(x)
      /\ \A x : x # m => Told(x)' = Told(x)
      /\ Told(m)' = {c}
  BY <1>4, <1>6, <1>7, <1>8 DEF Made, Done, Told
<1>10. ASSUME NEW x, x # m PROVE Same(x)
  BY <1>6, <1>9, <1>10 DEF Same
<1>11. Named(m)' = {} /\ Given(m)' = Given(m)
  BY <1>5, <1>6, <1>9 DEF Named, Given
<1>12. MessageSound(m)'
  <2>1. messages[m].command # "new" => c \in Done(m)
    BY <1>4, <1>8 DEF Done
  <2>2. messages[m].command = "new" => c.job \in Made(m)
    BY <1>4, <1>8
  <2>. QED BY <1>3, <1>4, <1>6, <1>8, <1>9, <1>11, <2>1, <2>2 DEF MessageSound
<1>13. Finished(m)'
  BY <1>9, <1>11 DEF Finished
<1>14. /\ \A k \in DOMAIN jobs' : jobs'[k].source <= Len(messages')
       /\ \A s \in signals' \union events' : s.message \in DOMAIN messages'
  BY <1>3, <1>6, <1>7, <1>8 DEF Intake
<1>15. PICK l : /\ h' = [h EXCEPT ![p] = l]
                /\ l = [g EXCEPT !.pc = "schedule"] \/ l = Idle
  BY DEF RecordCommand, Goto, Return, Become
<1>16. Idle.message = 0
  BY DEF Idle
<1>17. CASE l = Idle
  <2>1. ServeSound(l)' /\ l.message = 0
    BY <1>16, <1>17 DEF ServeSound
  <2>. QED BY <1>2, <1>6, <1>10, <1>12, <1>13, <1>14, <1>15, <2>1, IntakeStep
<1>18. CASE l # Idle
  <2>1. l.pc = "schedule" /\ l.message = m /\ l.req = g.req
    BY <1>1, <1>2, <1>15, <1>18 DEF Locals
  <2>2. ServeSound(l)'
    BY <1>2, <1>4, <1>6, <1>13, <2>1 DEF ServeSound, Filling, Placing, Answering, Dispatching
  <2>. QED BY <1>2, <1>6, <1>10, <1>12, <1>14, <1>15, <2>1, <2>2, IntakeStep
<1>. QED BY <1>17, <1>18

\* A message is stored: nothing has come of it yet.
LEMMA StoreIntake ==
  ASSUME Types, Types', Intake, NEW p \in Handlers, StoreMessage(p)
  PROVE  Intake'
<1>. PICK g : g = h[p]
  OBVIOUS
<1>1. g \in Locals /\ PlaceSound(g, jobs, Len(messages)) /\ g.pc = "store"
  BY AtPlace DEF StoreMessage, At
<1>2. g.message = 0 /\ g.made = <<>> /\ g.req \in Requests /\ g.req.op = "message"
  BY <1>1 DEF PlaceSound, Asked
<1>3. PICK n \in Nat : n = Len(messages) /\ DOMAIN messages = 1 .. n
  BY DEF Types, TablesOK
<1>4. PICK row : row = [sender |-> g.req.sender, command |-> g.req.command, mentions |-> <<>>]
  OBVIOUS
<1>5. PICK l : l = [g EXCEPT !.message = n + 1, !.pc = "session"]
  OBVIOUS
<1>6. messages' = Append(messages, row) /\ h' = [h EXCEPT ![p] = l]
  BY <1>3, <1>4, <1>5 DEF StoreMessage, InsertMessage, Become
<1>7. /\ DOMAIN messages' = 1 .. n + 1 /\ Len(messages') = n + 1 /\ messages'[n + 1] = row
      /\ \A x \in 1 .. n : messages'[x] = messages[x]
  BY <1>3, <1>6 DEF Types, TablesOK
<1>8. l.pc = "session" /\ l.message = n + 1 /\ l.made = <<>> /\ l.req = g.req
  BY <1>1, <1>2, <1>5 DEF Locals
<1>9. /\ jobs' = jobs /\ signals' = signals /\ events' = events /\ crashes' = crashes
      /\ conflicts' = conflicts
  BY DEF StoreMessage, poolVars, ghosts, counters
<1>10. h'[p] = l /\ \A q \in Handlers : q # p => h'[q] = h[q]
  BY <1>6 DEF Types
<1>11. \A q \in Handlers : h[q].message \in 0 .. n
  <2>1. ASSUME NEW q \in Handlers PROVE h[q].message \in 0 .. n
    <3>1. PICK k : k = h[q] /\ PlaceSound(k, jobs, Len(messages))
      BY AtPlace
    <3>. QED BY <1>3, <3>1 DEF PlaceSound
  <2>. QED BY <2>1
<1>12. \A x : Made(x)' = Made(x) /\ Done(x)' = Done(x) /\ Told(x)' = Told(x)
  BY <1>9 DEF Made, Done, Told
<1>13. \A x \in 1 .. n : Same(x)
  BY <1>7, <1>9, <1>12 DEF Same
<1>14. Made(n + 1) = {} /\ Done(n + 1) = {} /\ Told(n + 1) = {}
  <2>1. \A j \in DOMAIN jobs : jobs[j].source # n + 1
    <3>1. \A j \in DOMAIN jobs : jobs[j].source \in Nat /\ jobs[j].source <= n
      <4>1. \A j \in DOMAIN jobs : jobs[j] \in JobRows
        BY DEF Types, TablesOK
      <4>. QED BY <1>3, <4>1 DEF Intake, JobRows
    <3>. QED BY <3>1
  <2>2. \A s \in signals \union events : s.message # n + 1
    BY <1>3 DEF Intake
  <2>. QED BY <2>1, <2>2 DEF Made, Done, Told
<1>15. row.mentions = <<>> /\ row.command = g.req.command
  BY <1>4
<1>16. MessageSound(n + 1)'
  <2>1. Named(n + 1)' = {} /\ Given(n + 1)' = {}
    BY <1>7, <1>12, <1>14, <1>15 DEF Named, Given
  <2>. QED BY <1>12, <1>14, <2>1 DEF MessageSound
<1>17. ASSUME NEW x \in DOMAIN messages' PROVE MessageSound(x)' /\ Excused(x)'
  <2>1. CASE x = n + 1
    <3>1. p \in Serving(x)'
      BY <1>8, <1>10, <2>1 DEF Serving
    <3>. QED BY <1>16, <2>1, <3>1 DEF Excused
  <2>2. CASE x # n + 1
    <3>1. x \in 1 .. n
      BY <1>7, <2>2
    <3>2. MessageSound(x) /\ Excused(x) /\ Same(x)
      BY <1>3, <1>13, <3>1 DEF Intake
    <3>3. Serving(x)' = Serving(x)
      BY <1>2, <1>8, <1>10, <3>1, <2>2 DEF Serving
    <3>. QED BY <1>9, <3>2, <3>3, SameSound DEF Excused
  <2>. QED BY <2>1, <2>2
<1>18. ASSUME NEW q \in Handlers PROVE ServeSound(h[q])'
  <2>1. PICK k : k = h'[q]
    OBVIOUS
  <2>2. CASE q = p
    <3>1. k = l
      BY <1>10, <2>1, <2>2
    <3>2. ServeSound(k)'
      BY <1>7, <1>8, <1>12, <1>14, <1>15, <3>1 DEF ServeSound, Filling, Placing, Answering, Dispatching
    <3>. QED BY <2>1, <3>2 DEF ServeSound
  <2>3. CASE q # p
    <3>1. ServeSound(k) /\ k = h[q]
      BY <1>10, <2>1, <2>3 DEF Intake
    <3>2. CASE k.message = 0
      BY <2>1, <3>2 DEF ServeSound
    <3>3. CASE k.message # 0
      <4>1. k.message \in 1 .. n
        BY <1>11, <3>1, <3>3
      <4>2. ServeSound(k)'
        BY <1>13, <3>1, <4>1, SameServed
      <4>. QED BY <2>1, <4>2 DEF ServeSound
    <3>. QED BY <3>2, <3>3
  <2>. QED BY <2>2, <2>3
<1>19. \A q, r \in Handlers : h'[q].message = h'[r].message => q = r \/ h'[q].message = 0
  BY <1>8, <1>10, <1>11 DEF Intake
<1>20. \A j \in DOMAIN jobs' : jobs'[j].source <= Len(messages')
  <2>1. \A j \in DOMAIN jobs : jobs[j] \in JobRows
    BY DEF Types, TablesOK
  <2>. QED BY <1>3, <1>7, <1>9, <2>1 DEF Intake, JobRows
<1>21. \A s \in signals' \union events' : s.message \in DOMAIN messages'
  BY <1>3, <1>7, <1>9 DEF Intake
<1>. QED BY <1>17, <1>18, <1>19, <1>20, <1>21 DEF Intake

\* No handler serves a message when the process has died.
LEMMA CrashIntake ==
  ASSUME Types, Intake, Crash
  PROVE  Intake'
<1>1. Unmoved /\ crashes' > 0
  BY DEF Crash, poolVars, intakeVars, Unmoved, Types, TablesOK
<1>2. \A m : Same(m)
  BY <1>1, UnmovedSame
<1>3. \A q \in Handlers : h'[q].message = 0
  <2>1. Idle.message = 0
    BY DEF Idle
  <2>. QED BY <2>1 DEF Crash
<1>4. ASSUME NEW q \in Handlers PROVE ServeSound(h[q])'
  BY <1>3 DEF ServeSound
<1>5. DOMAIN messages' = DOMAIN messages /\ Len(messages') = Len(messages)
  BY <1>1 DEF Unmoved
<1>6. \A m \in DOMAIN messages' : MessageSound(m)' /\ Excused(m)'
  BY <1>1, <1>2, <1>5, SameSound DEF Intake, Excused
<1>. QED BY <1>1, <1>3, <1>4, <1>5, <1>6 DEF Intake, Unmoved

LEMMA StutterIntake ==
  ASSUME Types, Intake, UNCHANGED vars
  PROVE  Intake'
<1>1. Unmoved /\ h' = h /\ crashes' = crashes /\ conflicts' = conflicts
  BY DEF vars, poolVars, intakeVars, ghosts, counters, Unmoved
<1>2. \A m : Same(m)
  BY <1>1, UnmovedSame
<1>3. ASSUME NEW q \in Handlers PROVE ServeSound(h[q])'
  <2>1. PICK k : k = h[q]
    OBVIOUS
  <2>2. ServeSound(k)'
    BY <1>2, <2>1, SameServed DEF Intake
  <2>. QED BY <1>1, <2>1, <2>2 DEF ServeSound
<1>4. DOMAIN messages' = DOMAIN messages /\ Len(messages') = Len(messages)
  BY <1>1 DEF Unmoved
<1>5. \A m : Serving(m)' = Serving(m)
  BY <1>1 DEF Serving
<1>6. \A m \in DOMAIN messages' : MessageSound(m)' /\ Excused(m)'
  BY <1>1, <1>2, <1>4, <1>5, SameSound DEF Intake, Excused
<1>. QED BY <1>1, <1>3, <1>4, <1>6 DEF Intake, Unmoved

LEMMA InitIntake ==
  ASSUME Init
  PROVE  Intake
<1>1. messages = <<>> /\ signals = {} /\ events = {}
  BY DEF Init
<1>2. \A j \in DOMAIN jobs : jobs[j].source = 0
  BY DEF Init, PoolInit, JobRow
<1>3. \A q \in Handlers : h[q].message = 0
  <2>1. Idle.message = 0
    BY DEF Idle
  <2>. QED BY <2>1 DEF Init, PoolInit
<1>4. \A q \in Handlers : ServeSound(h[q])
  BY <1>3 DEF ServeSound
<1>5. DOMAIN messages = {} /\ Len(messages) = 0
  BY <1>1
<1>. QED BY <1>1, <1>2, <1>3, <1>4, <1>5 DEF Intake

LEMMA IntakeKept ==
  ASSUME Types, Types', Intake, Next
  PROVE  Intake'
<1>1. ASSUME NEW p \in Handlers, PoolStep(p), UNCHANGED intakeVars PROVE Intake'
  BY <1>1, PlacementIntake, InsertIntake, WriteIntake, OutsideSteps DEF PoolStep
<1>2. ASSUME NEW p \in Handlers, MessageStep(p) PROVE Intake'
  BY <1>2, BeforeStored, StoreIntake, SessionIntake, RouteIntake, MentionIntake, NextJobIntake,
     ScheduleIntake, DispatchIntake, OutsideSteps DEF MessageStep
<1>3. ASSUME NEW p \in Handlers, CommandStep(p) PROVE Intake'
  BY <1>3, ResolveIntake, PermitIntake, TargetIntake, EffectIntake, RecordIntake DEF CommandStep
<1>4. ASSUME NEW p \in Handlers, MemberStep(p) PROVE Intake'
  BY <1>4, OutsideSteps
<1>. QED BY <1>1, <1>2, <1>3, <1>4, RequestIntake, CrashIntake DEF Next
----------------------------------------------------------------------------
(* The theorems *)

Inv == Types /\ Capacity /\ ContextFollowsJob /\ Intake

LEMMA StutterPlaces ==
  ASSUME Capacity, ContextFollowsJob, UNCHANGED vars
  PROVE  Capacity' /\ ContextFollowsJob'
<1>1. /\ contexts' = contexts /\ jobs' = jobs /\ h' = h /\ overlapped' = overlapped
      /\ crashes' = crashes
  BY DEF vars, poolVars, ghosts, counters
<1>2. Capacity'
  <2>1. OneAtATime'
    BY <1>1 DEF Capacity, OneAtATime, At
  <2>2. ASSUME NEW k \in PoolKeys \ {DefaultPool}, Row(k)'.max > 0 PROVE Bounded(k)'
    <3>1. Row(k)' = Row(k)
      BY DEF Row
    <3>2. Held(k)' = Held(k) /\ Choosing(k)' = Choosing(k) /\ Slack' = Slack
      BY <1>1 DEF Held, PlacedIn, Recovering, Choosing, Slack, At
    <3>. QED BY <2>2, <3>1, <3>2 DEF Capacity, Bounded
  <2>. QED BY <2>1, <2>2 DEF Capacity
<1>3. ContextFollowsJob'
  BY <1>1 DEF ContextFollowsJob
<1>. QED BY <1>2, <1>3

\* The invariant of every run of the requests.
THEOREM Invariance == Spec => []Inv
<1>1. Init => Inv
  BY InitTypes, InitCapacity, InitIntake DEF Inv
<1>2. Inv /\ [Next]_vars => Inv'
  <2>. SUFFICES ASSUME Inv, [Next]_vars PROVE Inv'
    OBVIOUS
  <2>1. CASE Next
    <3>1. Types'
      BY <2>1, TypesStep DEF Inv
    <3>. QED BY <2>1, <3>1, CapacityStep, FollowsStep, IntakeKept DEF Inv
  <2>2. CASE UNCHANGED vars
    BY <2>2, StutterTypes, StutterPlaces, StutterIntake DEF Inv
  <2>. QED BY <2>1, <2>2
<1>. QED BY <1>1, <1>2, PTL DEF Spec

\* A job is never left without a work context, unless the process dies between
\* the two inserts or its handler is still about to write it, whatever pools and
\* requests there are (JobService.create_job_for_agent).
THEOREM ContextsFollow == Spec => []ContextFollowsJob
<1>1. Inv => ContextFollowsJob
  BY DEF Inv
<1>. QED BY <1>1, Invariance, PTL

\* A pool never holds more placed contexts than it has room for, but for one for
\* each other handler where requests overlap
\* (RuntimePoolService.assign_work_context_for_job).
THEOREM CapacityHolds == Spec => []CapacityHeld
<1>1. Inv => CapacityHeld
  BY CapacityImplied DEF Inv
<1>. QED BY <1>1, Invariance, PTL

LEMMA OneRowEach ==
  ASSUME Types, NEW m, \A j, k \in Made(m) : jobs[j].agent = jobs[k].agent => j = k
  PROVE  Cardinality(Given(m)) = Cardinality(Made(m))
<1>1. PICK S, T : S = Made(m) /\ T = Given(m)
  OBVIOUS
<1>2. IsFiniteSet(S)
  <2>1. PICK n \in Nat : DOMAIN jobs = 1 .. n
    BY DEF Types, TablesOK
  <2>2. IsFiniteSet(1 .. n)
    BY FS_Interval
  <2>3. S \in SUBSET (1 .. n)
    BY <1>1, <2>1 DEF Made
  <2>. QED BY <2>2, <2>3, FS_Subset
<1>3. PICK f : f = [j \in S |-> jobs[j].agent]
  OBVIOUS
<1>4. f \in [S -> T] /\ \A t \in T : \E j \in S : f[j] = t
  BY <1>1, <1>3 DEF Given
<1>5. \A j, k \in S : f[j] = f[k] => j = k
  BY <1>1, <1>3
<1>6. f \in Bijection(S, T)
  BY <1>4, <1>5 DEF Bijection, Injection, Surjection, IsInjective
<1>7. ExistsBijection(S, T)
  BY <1>6 DEF ExistsBijection
<1>8. Cardinality(T) = Cardinality(S)
  BY <1>2, <1>7, FS_Bijection
<1>. QED BY <1>1, <1>8

LEMMA MentionsImplied ==
  ASSUME Types, Intake
  PROVE  MentionJobs
<1>. SUFFICES ASSUME NEW m \in DOMAIN messages
              PROVE  /\ Cardinality(Given(m)) = Cardinality(Made(m))
                     /\ messages[m].command = None => Given(m) \subseteq Named(m)
                     /\ Serving(m) = {} => crashes > 0 \/ conflicts \/ Named(m) \subseteq Given(m)
  BY DEF MentionJobs, Given, Made, Named
<1>1. MessageSound(m) /\ Excused(m)
  BY DEF Intake
<1>2. Cardinality(Given(m)) = Cardinality(Made(m))
  BY <1>1, OneRowEach DEF MessageSound
<1>. QED BY <1>1, <1>2 DEF MessageSound, Excused, Finished

LEMMA TrailImplied ==
  ASSUME Types, Intake
  PROVE  CommandTrail
<1>1. ASSUME NEW e \in events
      PROVE  IF e.command = "new" THEN jobs[e.job].source = e.message ELSE e \in signals
  <2>1. PICK m : m = e.message /\ m \in DOMAIN messages
    BY DEF Intake
  <2>2. MessageSound(m) /\ e \in Told(m)
    BY <2>1 DEF Intake, Told
  <2>3. e.command = messages[m].command
    BY <2>2 DEF MessageSound
  <2>4. CASE e.command = "new"
    <3>1. e.job \in Made(m)
      BY <2>2, <2>3, <2>4 DEF MessageSound
    <3>. QED BY <2>1, <2>4, <3>1 DEF Made
  <2>5. CASE e.command # "new"
    <3>1. e \in Done(m)
      BY <2>2, <2>3, <2>5 DEF MessageSound
    <3>. QED BY <2>5, <3>1 DEF Done
  <2>. QED BY <2>4, <2>5
<1>2. ASSUME NEW m \in DOMAIN messages
      PROVE  \/ messages[m].command = None /\ Done(m) = {} /\ Told(m) = {}
             \/ Cardinality(Told(m)) = Cardinality(Done(m)) + Cardinality(Made(m))
             \/ Told(m) = {} /\ (Serving(m) # {} \/ crashes > 0 \/ conflicts)
  <2>1. MessageSound(m) /\ Excused(m)
    BY DEF Intake
  <2>2. \A e \in Done(m) \union Told(m) :
          /\ e = [message |-> m, command |-> messages[m].command, job |-> e.job]
          /\ e.command \in Commands
    BY <2>1 DEF MessageSound, Done, Told, Types, TablesOK, Control
  <2>3. PICK none : none = {} /\ Cardinality(none) = 0
    BY FS_EmptySet
  <2>4. \A x : Cardinality({x}) = 1
    BY FS_Singleton
  <2>5. CASE messages[m].command = None
    <3>1. None \notin Commands
      BY DEF None, Commands
    <3>. QED BY <2>1, <2>2, <2>5, <3>1 DEF MessageSound
  <2>6. CASE messages[m].command # None /\ Told(m) = {}
    BY <2>1, <2>3, <2>6 DEF Excused, Finished
  <2>7. CASE messages[m].command = "new" /\ Told(m) # {}
    <3>1. PICK e : e \in Told(m)
      BY <2>7
    <3>2. Made(m) = {e.job} /\ Done(m) = {}
      BY <2>1, <2>7, <3>1 DEF MessageSound
    <3>3. Told(m) = {e}
      <4>1. ASSUME NEW d \in Told(m) PROVE d = e
        <5>1. d.job = e.job
          BY <2>1, <2>7, <3>1, <4>1 DEF MessageSound
        <5>. QED BY <2>2, <3>1, <4>1, <5>1
      <4>. QED BY <3>1, <4>1
    <3>4. Cardinality(Told(m)) = 1 /\ Cardinality(Done(m)) = 0 /\ Cardinality(Made(m)) = 1
      BY <2>3, <2>4, <3>2, <3>3
    <3>. QED BY <3>4
  <2>8. CASE messages[m].command \notin {"new", None} /\ Told(m) # {}
    <3>1. PICK e : e \in Told(m)
      BY <2>8
    <3>2. messages[m].command \in Commands \ {"new"}
      BY <2>2, <2>8, <3>1
    <3>3. Made(m) = {} /\ Told(m) = {e} /\ Done(m) = {e}
      BY <2>1, <2>8, <3>1, <3>2 DEF MessageSound
    <3>4. Cardinality(Told(m)) = 1 /\ Cardinality(Done(m)) = 1 /\ Cardinality(Made(m)) = 0
      BY <2>3, <2>4, <3>3
    <3>. QED BY <3>4
  <2>. QED BY <2>5, <2>6, <2>7, <2>8
<1>. QED BY <1>1, <1>2 DEF CommandTrail, Made, Done, Told

\* A message makes at most one job for an agent, and only for agents it names;
\* once it is answered no agent it mentions is without one, unless the process
\* died or a context was already there
\* (JobService.create_jobs_for_mentions).
THEOREM MentionJobsHold == Spec => []MentionJobs
<1>1. Inv => MentionJobs
  BY MentionsImplied DEF Inv
<1>. QED BY <1>1, Invariance, PTL

\* Whatever commands are sent, the command.* events tell those that were carried
\* out, each once (CommandHandler.handle_command).
THEOREM CommandTrailHolds == Spec => []CommandTrail
<1>1. Inv => CommandTrail
  BY TrailImplied DEF Inv
<1>. QED BY <1>1, Invariance, PTL
=============================================================================
