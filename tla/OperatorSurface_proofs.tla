------------------------ MODULE OperatorSurface_proofs ------------------------
(***************************************************************************)
(* Proofs about OperatorSurface: the audit trail says of every action of   *)
(* an operator whether it took effect, a poll hides no trouble that lasted *)
(* while its tables were read, a session made from a template has all the  *)
(* template promises, a cursor never passes the newest rows, and a filter  *)
(* of the dashboard changes no count.                                      *)
(***************************************************************************)
EXTENDS OperatorSurface, FiniteSetTheorems, WellFoundedInduction, TLAPS

(* The inductive invariant *)

Fields == {"pc", "n", "req", "session", "now", "todo", "then", "row", "result", "job", "held"}
\* What a seeder may go on with: nothing that comes after a service call.
Thens == {"return", "seedPhases", "seedRules", "finish", "exists", "target", "lookup"}
\* Where an action is whose service call took effect.
After(x) == \/ x.pc \in {"read", "write", "jobEvent", "sessionEvent", "schedule", "reread"}
            \/ x.pc = "audit" /\ x.result = "applied"

\* A handler's locals: the number of its request, and whether it took effect.
Local(x, count, done, gone) ==
  /\ DOMAIN x = Fields /\ x.then \in Thens
  /\ x.n \in 0..count /\ (x.pc = "idle" <=> x.n = 0)
  /\ x.n # 0 => (x.n \in done <=> After(x)) /\ x.n \notin gone

Told(n) == \E e \in sessionEvents : e.n = n /\ e.result = "applied"
Busy(n) == \E p \in Handlers : h[p].n = n

\* A number is of one handler at most, and what was answered is settled.
Settled ==
  /\ requests \in Nat /\ lost \subseteq effects /\ effects \subseteq 1..requests
  /\ \A e \in sessionEvents : e.n \in 0..requests
  /\ \A n \in 1..requests : Told(n) => n \in effects \ lost /\ ~Busy(n)
  /\ \A n \in effects : Told(n) \/ Busy(n) \/ n \in lost
Served ==
  /\ DOMAIN h = Handlers /\ \A p \in Handlers : Local(h[p], requests, effects, lost)
  /\ \A p, q \in Handlers : h[p].n = h[q].n /\ h[p].n # 0 => p = q

AuditInv == Served /\ Settled
----------------------------------------------------------------------------
(* The kinds of step *)

LEMMA IdleLocal ==
  DOMAIN Idle = Fields /\ Idle.then \in Thens /\ Idle.n = 0 /\ Idle.pc = "idle"
  /\ Idle.result = "none"
BY DEF Idle, Fields, Thens, None

\* A step of a request under way: it ends before it took effect, or goes on, and
\* has taken effect afterwards if it had before or does so in this step.
LEMMA RequestStep ==
  ASSUME AuditInv, NEW p \in Handlers, NEW x, h' = [h EXCEPT ![p] = x], h[p].pc # "idle",
         \/ x = Idle /\ ~After(h[p]) /\ effects' = effects
         \/ /\ DOMAIN x = Fields /\ x.then \in Thens /\ x.n = h[p].n /\ x.pc # "idle"
            /\ \/ effects' = effects /\ (After(x) <=> After(h[p]))
               \/ effects' = effects \union {h[p].n} /\ After(x),
         UNCHANGED <<requests, lost>>,
         \A e \in sessionEvents' \ sessionEvents : e.n = 0, sessionEvents \subseteq sessionEvents'
  PROVE  AuditInv'
<1> USE IdleLocal DEF AuditInv
<1>1. DOMAIN h' = Handlers /\ h'[p] = x /\ \A q \in Handlers \ {p} : h'[q] = h[q]
  BY DEF Served
<1>2. \A q \in Handlers : Local(h[q], requests, effects, lost)
  BY DEF Served
<1>n. h[p].n \in 1..requests
  BY <1>2 DEF Local, Settled
<1>3. Local(x, requests, effects', lost)
  <2>1. CASE x = Idle
    BY <2>1 DEF Local, Settled
  <2>2. CASE x # Idle
    BY <2>2, <1>2, <1>n DEF Local, Settled
  <2> QED BY <2>1, <2>2
<1>4. \A q, r \in Handlers : h'[q].n = h'[r].n /\ h'[q].n # 0 => q = r
  BY <1>1 DEF Served
<1>5. \A q \in Handlers \ {p} : Local(h[q], requests, effects', lost)
  BY <1>2, <1>n DEF Local, Served
<1>6. Served'
  BY <1>1, <1>5, <1>3, <1>4 DEF Served
<1>7. \A n \in 1..requests : Told(n)' <=> Told(n)
  BY DEF Told
<1>8. \A n \in 1..requests : Busy(n)' => Busy(n)
  BY <1>1 DEF Busy, Settled
<1>9. \A n \in effects' : Busy(n) => Busy(n)'
  <2> SUFFICES ASSUME NEW n \in effects', NEW q \in Handlers, h[q].n = n
               PROVE  Busy(n)'
    BY DEF Busy
  <2>1. CASE q # p
    BY <2>1, <1>1 DEF Busy
  <2>2. CASE q = p
    BY <2>2, <1>1, <1>2, <1>n DEF Busy, Local, Settled
  <2> QED BY <2>1, <2>2
<1>10. Busy(h[p].n)
  BY DEF Busy
<1>11. Settled'
  <2>1. /\ effects \subseteq effects' /\ effects' \subseteq effects \union {h[p].n}
        /\ lost' = lost /\ requests' = requests
    OBVIOUS
  <2>2. \A e \in sessionEvents' : e.n \in 0..requests
    BY DEF Settled
  <2>3. \A n \in 1..requests : Told(n)' => n \in effects' \ lost /\ ~Busy(n)'
    BY <2>1, <1>7, <1>8 DEF Settled
  <2>4. \A n \in effects' : Told(n)' \/ Busy(n)' \/ n \in lost
    BY <2>1, <1>7, <1>9, <1>10, <1>n DEF Settled
  <2> QED BY <2>1, <2>2, <2>3, <2>4, <1>n DEF Settled
<1> QED BY <1>6, <1>11

\* A request arrives at an idle handler; nothing was said of its number.
LEMMA BeginStep ==
  ASSUME AuditInv, NEW p \in Handlers, NEW r, NEW x, Begin(p, r, x),
         DOMAIN x = Fields, x.then \in Thens, x.pc # "idle", ~After(x),
         UNCHANGED <<effects, lost, sessionEvents>>
  PROVE  AuditInv'
<1> USE IdleLocal DEF AuditInv
<1> DEFINE y == [x EXCEPT !.req = r, !.n = requests + 1]
<1>1. /\ requests' = requests + 1 /\ requests \in Nat
      /\ h' = [h EXCEPT ![p] = y] /\ h[p].pc = "idle"
  BY DEF Begin, At, Become, Settled
<1>2. DOMAIN h' = Handlers /\ h'[p] = y /\ \A q \in Handlers \ {p} : h'[q] = h[q]
  BY <1>1 DEF Served
<1>3. DOMAIN y = Fields /\ y.then = x.then /\ y.pc = x.pc /\ y.result = x.result /\ y.n = requests + 1
  BY DEF Fields
<1>4. \A q \in Handlers : Local(h[q], requests, effects, lost)
  BY DEF Served
<1>5. Local(y, requests', effects', lost')
  BY <1>1, <1>3 DEF Local, After, Settled
<1>6. \A q \in Handlers : Local(h[q], requests', effects', lost') /\ h[q].n # requests + 1
  BY <1>1, <1>4 DEF Local
<1>7. \A q, s \in Handlers : h'[q].n = h'[s].n /\ h'[q].n # 0 => q = s
  <2> SUFFICES ASSUME NEW q \in Handlers, NEW s \in Handlers,
                      h'[q].n = h'[s].n, h'[q].n # 0, q # s
               PROVE  FALSE
    OBVIOUS
  <2>1. CASE q = p \/ s = p
    <3> HIDE DEF y
    <3> QED BY <2>1, <1>2, <1>3, <1>6
  <2>2. CASE q # p /\ s # p
    BY <2>2, <1>2 DEF Served
  <2> QED BY <2>1, <2>2
<1>8. Served'
  BY <1>2, <1>5, <1>6, <1>7 DEF Served
<1>9. \A n \in 1..requests' : Told(n)' <=> Told(n)
  BY DEF Told
<1>10. \A n \in 1..requests : Busy(n)' <=> Busy(n)
  BY <1>1, <1>2, <1>3, <1>4 DEF Busy, Local
<1>11. ~Told(requests + 1)
  BY <1>1 DEF Told, Settled
<1>12. Settled'
  BY <1>1, <1>9, <1>10, <1>11 DEF Settled
<1> QED BY <1>8, <1>12

\* Nothing the invariant speaks of.
LEMMA QuietStep ==
  ASSUME AuditInv, UNCHANGED <<h, requests, effects, lost, sessionEvents>>
  PROVE  AuditInv'
BY DEF AuditInv, Served, Settled, Told, Busy

LEMMA Continued ==
  ASSUME AuditInv, NEW p \in Handlers, NEW todo, NEW loop \in {"channel", "phase", "rule"},
         NEW then \in Thens, Continue(p, loop, todo, then), h[p].pc # "idle", ~After(h[p]),
         UNCHANGED <<requests, effects, lost, sessionEvents>>
  PROVE  AuditInv'
<1>1. PICK x : /\ h' = [h EXCEPT ![p] = x]
               /\ \/ x = Idle
                  \/ x = [h[p] EXCEPT !.pc = loop, !.todo = todo, !.then = then]
                  \/ then # "return" /\ x = [h[p] EXCEPT !.pc = then, !.todo = {}]
  BY Zenon DEF Continue, Become, Return
<1>2. DOMAIN h[p] = Fields /\ h[p].then \in Thens
  BY DEF AuditInv, Served, Local
<1>3. x # Idle => DOMAIN x = Fields /\ x.n = h[p].n /\ x.then \in Thens
                  /\ x.pc \in {loop, then} \ {"return"}
  BY <1>1, <1>2 DEF Fields, Thens
<1>4. x # Idle => x.pc # "idle" /\ ~After(x)
  BY <1>3 DEF After, Thens
<1> QED BY <1>1, <1>3, <1>4, RequestStep

\* A handler goes from one place to another.
LEMMA Moved ==
  ASSUME AuditInv, NEW p \in Handlers, NEW x, Become(p, x), h[p].pc # "idle",
         DOMAIN x = Fields, x.then \in Thens, x.n = h[p].n, x.pc # "idle",
         \/ effects' = effects /\ (After(x) <=> After(h[p]))
         \/ effects' = effects \union {h[p].n} /\ After(x),
         UNCHANGED <<requests, lost>>,
         \A e \in sessionEvents' \ sessionEvents : e.n = 0, sessionEvents \subseteq sessionEvents'
  PROVE  AuditInv'
BY RequestStep DEF Become

LEMMA Returned ==
  ASSUME AuditInv, NEW p \in Handlers, Return(p), h[p].pc # "idle", ~After(h[p]),
         UNCHANGED <<requests, lost, effects, sessionEvents>>
  PROVE  AuditInv'
BY RequestStep DEF Return, Become
----------------------------------------------------------------------------
(* The actions *)

LEMMA SetupBegun ==
  ASSUME AuditInv, NEW p \in Handlers, SetupBegins(p), UNCHANGED deskVars
  PROVE  AuditInv'
<1> USE DEF deskVars
<1>1. PICK r \in Requests :
        \/ CreateTemplate(p, r) \/ \E s \in Sessions : Instantiate(p, r, s)
        \/ ListChannels(p, r) \/ CreateChannel(p, r) \/ ListPhases(p, r) \/ Activate(p, r)
  BY DEF SetupBegins
<1> DEFINE First(x) == /\ DOMAIN x = Fields /\ x.then \in Thens /\ x.pc # "idle" /\ ~After(x)
<1>2. CASE CreateTemplate(p, r)
  <2>1. First([Idle EXCEPT !.pc = "template"])
    BY DEF Idle, Fields, Thens, After
  <2> QED BY <1>2, <2>1, BeginStep DEF CreateTemplate
<1>3. ASSUME NEW s \in Sessions, Instantiate(p, r, s) PROVE AuditInv'
  <2>1. PICK x : Begin(p, r, x) /\ \E row : x = [Idle EXCEPT !.pc = "seedChannels", !.session = s,
                                                         !.row = row, !.now = clock']
    BY <1>3 DEF Instantiate
  <2>2. First(x)
    BY <2>1 DEF Idle, Fields, Thens, After
  <2> QED BY <2>1, <2>2, BeginStep
<1>4. CASE ListChannels(p, r)
  <2>1. First([Idle EXCEPT !.pc = "ensureChannels", !.session = r.session])
    BY DEF Idle, Fields, Thens, After
  <2> QED BY <1>4, <2>1, BeginStep DEF ListChannels
<1>5. CASE CreateChannel(p, r)
  <2>1. First([Idle EXCEPT !.pc = "ensureChannels", !.session = r.session, !.then = "exists"])
    BY DEF Idle, Fields, Thens, After
  <2> QED BY <1>5, <2>1, BeginStep DEF CreateChannel
<1>6. CASE ListPhases(p, r)
  <2>1. First([Idle EXCEPT !.pc = "listPhases", !.session = r.session])
    BY DEF Idle, Fields, Thens, After
  <2> QED BY <1>6, <2>1, BeginStep DEF ListPhases
<1>7. CASE Activate(p, r)
  <2>1. First([Idle EXCEPT !.pc = "ensurePhases", !.session = r.session, !.then = "target"])
    BY DEF Idle, Fields, Thens, After
  <2> QED BY <1>7, <2>1, BeginStep DEF Activate
<1> QED BY <1>1, <1>2, <1>3, <1>4, <1>5, <1>6, <1>7

LEMMA SetupStepped ==
  ASSUME AuditInv, NEW p \in Handlers, SetupSteps(p), UNCHANGED deskVars
  PROVE  AuditInv'
<1> USE DEF deskVars, ghosts
<1>1. DOMAIN h[p] = Fields /\ h[p].then \in Thens
  BY DEF AuditInv, Served, Local
<1>0. {"channel", "phase", "rule"} \intersect Thens = {} /\ {"seedPhases", "seedRules", "finish", "return"} \subseteq Thens
  BY DEF Thens
<1>2. CASE StoreTemplate(p)
  BY <1>2, Returned DEF StoreTemplate, At, After
<1>3. CASE SeedChannels(p)
  BY <1>3, <1>0, Continued DEF SeedChannels, At, After
<1>4. CASE SeedPhases(p)
  BY <1>4, <1>0, Continued DEF SeedPhases, At, After
<1>5. CASE SeedRules(p)
  BY <1>5, <1>0, Continued DEF SeedRules, At, After
<1>6. CASE SeedRule(p)
  BY <1>6, <1>1, Continued DEF SeedRule, At, After
<1>7. CASE FinishSession(p)
  BY <1>7, Returned DEF FinishSession, At, After
<1>8. CASE EnsureChannels(p)
  BY <1>8, <1>1, Continued DEF EnsureChannels, At, After
<1>9. CASE SeedChannel(p)
  BY <1>9, <1>1, Continued, Returned DEF SeedChannel, At, After
<1>10. CASE CheckChannel(p)
  <2>1. CASE Return(p)
    BY <1>10, <2>1, Returned DEF CheckChannel, At, After
  <2>2. CASE ~Return(p)
    <3>1. PICK x, todo : /\ Become(p, x)
                         /\ x = [h[p] EXCEPT !.pc = "channel", !.then = "return", !.todo = todo]
      BY <1>10, <2>2 DEF CheckChannel
    <3>2. DOMAIN x = Fields /\ x.then \in Thens /\ x.n = h[p].n /\ x.pc = "channel"
      BY <3>1, <1>1, <1>0 DEF Fields
    <3> QED BY <1>10, <3>1, <3>2, Moved DEF CheckChannel, At, After
  <2> QED BY <2>1, <2>2
<1>11. CASE ReadPhases(p)
  <2>1. CASE Return(p)
    BY <1>11, <2>1, Returned DEF ReadPhases, At, After
  <2>2. CASE ~Return(p)
    <3>1. Become(p, [h[p] EXCEPT !.pc = "ensurePhases"])
      BY <1>11, <2>2 DEF ReadPhases, Goto
    <3> QED BY <1>11, <3>1, <1>1, Moved DEF ReadPhases, At, After, Fields
  <2> QED BY <2>1, <2>2
<1>12. CASE EnsurePhases(p)
  BY <1>12, <1>1, Continued DEF EnsurePhases, At, After
<1>13. CASE SeedPhase(p)
  BY <1>13, <1>1, Continued, Returned DEF SeedPhase, At, After
<1> QED BY <1>2, <1>3, <1>4, <1>5, <1>6, <1>7, <1>8, <1>9, <1>10, <1>11, <1>12, <1>13 DEF SetupSteps

\* The two calls of an activation: the answer of a request, or the audit.
LEMMA PhaseTargeted ==
  ASSUME AuditInv, NEW p \in Handlers, NEW ACTION after, TargetPhase(p, after) \/ WritePhase(p, after),
         after => AuditInv', h'[p].pc # "audit" => effects' = effects,
         UNCHANGED <<lost, sessionEvents>>
  PROVE  AuditInv'
<1> USE DEF ghosts
<1>1. DOMAIN h[p] = Fields /\ h[p].then \in Thens /\ DOMAIN h = Handlers
  BY DEF AuditInv, Served, Local
<1>2. CASE after
  BY <1>2
<1>3. CASE Return(p) /\ TargetPhase(p, after)
  <2>1. h'[p].pc = "idle"
    BY <1>1, <1>3, IdleLocal DEF Return, Become
  <2> QED BY <1>3, <2>1, Returned DEF TargetPhase, At, After
<1>4. CASE ~after /\ ~Return(p)
  <2>1. PICK x, row : Become(p, x) /\ x = [h[p] EXCEPT !.pc = "activate", !.row = row]
    BY <1>4 DEF TargetPhase, WritePhase
  <2>2. DOMAIN x = Fields /\ x.then = h[p].then /\ x.n = h[p].n /\ x.pc = "activate"
    BY <1>1, <2>1 DEF Fields
  <2>3. h'[p].pc = "activate"
    BY <1>1, <2>1, <2>2 DEF Become
  <2> QED BY <1>1, <1>4, <2>1, <2>2, <2>3, Moved DEF TargetPhase, WritePhase, At, After
<1> QED BY <1>2, <1>3, <1>4 DEF TargetPhase, WritePhase

LEMMA SetupActivated ==
  ASSUME AuditInv, NEW p \in Handlers, SetupActivation(p), UNCHANGED deskVars
  PROVE  AuditInv'
<1> DEFINE answer == Return(p) /\ UNCHANGED clock
<1> USE DEF deskVars
<1>1. TargetPhase(p, answer) \/ WritePhase(p, answer)
  BY DEF SetupActivation
<1>2. h[p].pc \in {"target", "activate"} /\ UNCHANGED requests
  BY <1>1 DEF TargetPhase, WritePhase, At, ghosts
<1>3. answer => AuditInv'
  BY <1>2, Returned DEF After
<1> HIDE DEF answer
<1> QED BY <1>1, <1>3, PhaseTargeted

LEMMA DeskBegun ==
  ASSUME AuditInv, NEW p \in Handlers, DeskBegins(p)
  PROVE  AuditInv'
<1> USE DEF deskVars
<1>1. PICK r \in Requests :
        DecideApproval(p, r) \/ RestartJob(p, r) \/ CancelJob(p, r) \/ ActivatePhase(p, r)
  BY DEF DeskBegins
<1>2. UNCHANGED <<effects, lost, sessionEvents>>
  BY <1>1 DEF DecideApproval, RestartJob, CancelJob, ActivatePhase
<1>3. ASSUME NEW local, DOMAIN local = Fields, local.then \in Thens,
             NEW result \in {"failed", "duplicate"}, Ends(p, r, local, result)
      PROVE  AuditInv'
  <2> DEFINE x == [local EXCEPT !.pc = "audit", !.result = result, !.now = clock']
  <2>1. DOMAIN x = Fields /\ x.then \in Thens /\ x.pc = "audit" /\ x.result # "applied"
    BY <1>3 DEF Fields
  <2>2. Begin(p, r, x)
    BY <1>3 DEF Ends
  <2> HIDE DEF x
  <2> QED BY <1>2, <2>1, <2>2, BeginStep DEF After
<1>4. ASSUME NEW local, DOMAIN local = Fields, local.then \in Thens, Proceeds(p, r, local),
             local.pc \in {"decide", "requeue", "interrupt", "cancel", "ensurePhases"}
      PROVE  AuditInv'
  BY <1>2, <1>4, BeginStep DEF Proceeds, After
<1>5. CASE DecideApproval(p, r)
  <2> DEFINE a == approvals[r.approval]
             local == [Idle EXCEPT !.pc = "decide", !.session = jobs[a.job].session, !.job = a.job]
  <2>1. DOMAIN local = Fields /\ local.then \in Thens /\ local.pc = "decide"
    BY IdleLocal DEF Fields
  <2>2. Ends(p, r, local, "failed") \/ Proceeds(p, r, local)
    BY <1>5 DEF DecideApproval
  <2> HIDE DEF local
  <2> QED BY <2>1, <2>2, <1>3, <1>4
<1>6. CASE RestartJob(p, r)
  <2> DEFINE local == [Idle EXCEPT !.session = jobs[r.job].session, !.job = r.job]
             next == [local EXCEPT !.pc = "requeue"]
  <2>1. DOMAIN local = Fields /\ local.then \in Thens
    BY IdleLocal DEF Fields
  <2>2. DOMAIN next = Fields /\ next.then \in Thens /\ next.pc = "requeue"
    BY IdleLocal DEF Fields
  <2>3. Ends(p, r, local, "duplicate") \/ Ends(p, r, local, "failed") \/ Proceeds(p, r, next)
    BY <1>6 DEF RestartJob
  <2> HIDE DEF local, next
  <2> QED BY <2>1, <2>2, <2>3, <1>3, <1>4
<1>7. CASE CancelJob(p, r)
  <2> DEFINE row == jobs[r.job]
             local == [Idle EXCEPT !.session = row.session, !.job = r.job, !.held = Held(row)]
             next(pc) == [local EXCEPT !.pc = pc]
  <2>1. DOMAIN local = Fields /\ local.then \in Thens
    BY IdleLocal DEF Fields
  <2>2. \A pc : DOMAIN next(pc) = Fields /\ next(pc).then \in Thens /\ next(pc).pc = pc
    BY IdleLocal DEF Fields
  <2>3. \/ Ends(p, r, local, "duplicate") \/ Ends(p, r, local, "failed")
        \/ Proceeds(p, r, next("interrupt")) \/ Proceeds(p, r, next("cancel"))
    BY <1>7 DEF CancelJob
  <2> HIDE DEF local, next
  <2> QED BY <2>1, <2>2, <2>3, <1>3, <1>4
<1>8. CASE ActivatePhase(p, r)
  <2> DEFINE local == [Idle EXCEPT !.session = r.session, !.row = sessions[r.session]]
             next == [local EXCEPT !.pc = "ensurePhases", !.then = "lookup"]
  <2>1. DOMAIN local = Fields /\ local.then \in Thens
    BY IdleLocal DEF Fields
  <2>2. DOMAIN next = Fields /\ next.then \in Thens /\ next.pc = "ensurePhases"
    BY IdleLocal DEF Fields, Thens
  <2>3. Ends(p, r, local, "failed") \/ Proceeds(p, r, next)
    BY <1>8 DEF ActivatePhase
  <2> HIDE DEF local, next
  <2> QED BY <2>1, <2>2, <2>3, <1>3, <1>4
<1> QED BY <1>1, <1>5, <1>6, <1>7, <1>8

\* An audit event with the result is the last thing a request leaves.
LEMMA AuditRecorded ==
  ASSUME AuditInv, NEW p \in Handlers, RecordAudit(p)
  PROVE  AuditInv'
<1> USE IdleLocal DEF AuditInv, ghosts
<1> DEFINE n == h[p].n
           e == [session |-> h[p].session, type |-> h[p].req.op, result |-> h[p].result,
                 n |-> n, at |-> h[p].now]
<1>1. /\ sessionEvents' = sessionEvents \union {e} /\ h[p].pc = "audit"
      /\ h' = [h EXCEPT ![p] = Idle] /\ UNCHANGED <<requests, effects, lost>>
  BY DEF RecordAudit, Return, Become, At
<1>2. /\ DOMAIN h' = Handlers /\ h'[p] = Idle /\ \A q \in Handlers \ {p} : h'[q] = h[q]
      /\ \A q \in Handlers : Local(h[q], requests, effects, lost)
      /\ \A q, r \in Handlers : h[q].n = h[r].n /\ h[q].n # 0 => q = r
  BY <1>1 DEF Served
<1>3. n \in 1..requests /\ n \notin lost /\ (n \in effects <=> h[p].result = "applied")
  BY <1>1, <1>2 DEF Local, After, Settled
<1>4. Local(Idle, requests, effects, lost)
  BY DEF Local, Settled
<1>5. \A q, r \in Handlers : h'[q].n = h'[r].n /\ h'[q].n # 0 => q = r
  BY <1>2
<1>6. Served'
  BY <1>1, <1>2, <1>4, <1>5 DEF Served
<1>7. e.n = n /\ e.result = h[p].result
  OBVIOUS
<1> HIDE DEF e
<1>8. \A k \in 1..requests : Told(k)' <=> (Told(k) \/ (k = n /\ h[p].result = "applied"))
  BY <1>1, <1>7 DEF Told
<1>9. \A k \in 1..requests : Busy(k)' <=> Busy(k) /\ k # n
  <2> SUFFICES ASSUME NEW k \in 1..requests PROVE Busy(k)' <=> Busy(k) /\ k # n
    OBVIOUS
  <2>1. ASSUME Busy(k)' PROVE Busy(k) /\ k # n
    <3>1. PICK q \in Handlers : h'[q].n = k
      BY <2>1 DEF Busy
    <3>2. q # p
      BY <3>1, <1>2, IdleLocal, <1>3 DEF Settled
    <3> QED BY <3>1, <3>2, <1>2, <1>3 DEF Busy
  <2>2. ASSUME Busy(k), k # n PROVE Busy(k)'
    BY <2>2, <1>2 DEF Busy
  <2> QED BY <2>1, <2>2
<1>10. \A x \in sessionEvents' : x.n \in 0..requests
  BY <1>1, <1>3, <1>7 DEF Settled
<1>11. Settled'
  BY <1>1, <1>3, <1>8, <1>9, <1>10 DEF Settled
<1> QED BY <1>6, <1>11

\* A relay engine that raises after the job was requeued: the effect goes unsaid.
LEMMA ScheduleRaised ==
  ASSUME AuditInv, NEW p \in Handlers, At(p, "schedule"), Return(p), lost' = lost \union {h[p].n},
         UNCHANGED <<requests, effects, sessionEvents>>
  PROVE  AuditInv'
<1> USE IdleLocal DEF AuditInv, At, Return, Become
<1> DEFINE n == h[p].n
<1>1. /\ DOMAIN h' = Handlers /\ h'[p] = Idle /\ \A q \in Handlers \ {p} : h'[q] = h[q]
      /\ \A q \in Handlers : Local(h[q], requests, effects, lost)
      /\ \A q, r \in Handlers : h[q].n = h[r].n /\ h[q].n # 0 => q = r
  BY DEF Served
<1>2. n \in 1..requests /\ n \in effects /\ ~Told(n)
  BY <1>1 DEF Local, After, Settled, Busy
<1>3. \A q \in Handlers : Local(h'[q], requests, effects, lost')
  BY <1>1 DEF Local, Settled
<1>4. \A q, r \in Handlers : h'[q].n = h'[r].n /\ h'[q].n # 0 => q = r
  BY <1>1
<1>5. Served'
  BY <1>1, <1>3, <1>4 DEF Served
<1>6. \A k : Told(k)' <=> Told(k)
  BY DEF Told
<1>7. \A k \in 1..requests : Busy(k)' => Busy(k)
  BY <1>1 DEF Busy, Settled
<1>8. \A k \in effects \ {n} : Busy(k) => Busy(k)'
  BY <1>1 DEF Busy
<1>9. Settled'
  BY <1>2, <1>6, <1>7, <1>8 DEF Settled
<1> QED BY <1>5, <1>9

\* What took effect and had no answer yet is lost with the process.
LEMMA Crashed ==
  ASSUME AuditInv, Crash
  PROVE  AuditInv'
<1> USE IdleLocal DEF AuditInv, Crash
<1>1. DOMAIN h' = Handlers /\ \A p \in Handlers : h'[p] = Idle
  OBVIOUS
<1>0. Local(Idle, requests', effects', lost')
  BY DEF Local, Settled
<1>2. Served'
  BY <1>0, <1>1 DEF Served
<1>3. \A n : Told(n)' <=> Told(n)
  BY DEF Told
<1>4. \A n \in 1..requests : ~Busy(n)'
  BY <1>1 DEF Busy, Settled
<1>5. \A n \in lost' : n \in lost \/ (n \in effects /\ Busy(n))
  BY DEF Busy
<1>6. \A n \in effects : Busy(n) => n \in lost'
  BY DEF Busy
<1>7. Settled'
  BY <1>3, <1>4, <1>5, <1>6 DEF Settled
<1> QED BY <1>2, <1>7

LEMMA DeskStepped ==
  ASSUME AuditInv, NEW p \in Handlers, DeskSteps(p)
  PROVE  AuditInv'
<1> USE DEF trail, deskVars, ghosts
<1>1. DOMAIN h[p] = Fields /\ h[p].then \in Thens /\ DOMAIN h = Handlers
  BY DEF AuditInv, Served, Local
\* A step to another place keeps the rest.
<1> DEFINE Same(x) == DOMAIN x = Fields /\ x.then = h[p].then /\ x.n = h[p].n
<1>2. ASSUME NEW pc, pc # "return", Goto(p, pc) PROVE \E x : Become(p, x) /\ Same(x) /\ x.pc = pc
  BY <1>1, <1>2 DEF Goto, Fields
<1>3. ASSUME NEW result, Audited(p, h[p], result)
      PROVE  \E x : Become(p, x) /\ Same(x) /\ x.pc = "audit" /\ x.result = result
  <2> DEFINE x == [h[p] EXCEPT !.pc = "audit", !.result = result, !.now = clock']
  <2>1. Become(p, x)
    BY <1>3 DEF Audited
  <2>2. Same(x) /\ x.pc = "audit" /\ x.result = result
    BY <1>1 DEF Fields
  <2> HIDE DEF x
  <2> QED BY <2>1, <2>2
<1>4. CASE CheckApproval(p)
  <2>1. CASE Return(p)
    BY <1>4, <2>1, Returned DEF CheckApproval, At, After
  <2>2. CASE ~Return(p)
    <3>1. \E x, now : Become(p, x) /\ x = [h[p] EXCEPT !.pc = "resolve", !.now = now]
      BY <1>4, <2>2 DEF CheckApproval
    <3>2. \E x : Become(p, x) /\ Same(x) /\ x.pc = "resolve"
      BY <3>1, <1>1 DEF Fields
    <3> QED BY <1>1, <1>4, <3>2, Moved DEF CheckApproval, At, After
  <2> QED BY <2>1, <2>2
<1>5. CASE WriteApproval(p)
  BY <1>1, <1>5, <1>2, Moved DEF WriteApproval, At, After, Effect
<1>6. CASE ReadJob(p)
  <2>1. \E x, held : Become(p, x) /\ x = [h[p] EXCEPT !.pc = "write", !.held = held]
    BY <1>6 DEF ReadJob
  <2>2. \E x : Become(p, x) /\ Same(x) /\ x.pc = "write"
    BY <2>1, <1>1 DEF Fields
  <2> QED BY <1>1, <1>6, <2>2, Moved DEF ReadJob, At, After
<1>7. CASE WriteDecided(p)
  BY <1>1, <1>7, <1>2, Moved DEF WriteDecided, At, After
<1>8. CASE RecordJobEvent(p)
  BY <1>1, <1>8, <1>2, Moved DEF RecordJobEvent, At, After
<1>9. CASE RecordSessionEvent(p)
  <2>1. sessionEvents' = sessionEvents \union {Event(p)} /\ Event(p).n = 0
    BY <1>9 DEF RecordSessionEvent, Event
  <2>2. \E x : Become(p, x) /\ Same(x) /\ x.pc # "idle" /\ After(x)
    BY <1>9, <1>2, <1>3 DEF RecordSessionEvent, After
  <2> QED BY <1>1, <1>9, <2>1, <2>2, Moved DEF RecordSessionEvent, At, After
<1>10. CASE Requeue(p)
  <2>1. CASE Return(p) /\ UNCHANGED effects
    BY <1>10, <2>1, Returned DEF Requeue, At, After
  <2>2. CASE Goto(p, "reread") /\ Effect(p)
    BY <1>1, <1>10, <2>2, <1>2, Moved DEF Requeue, At, After, Effect
  <2>3. CASE ~Return(p) /\ UNCHANGED effects /\ ~(Goto(p, "reread") /\ Effect(p))
    <3>1. \E x, held : Become(p, x) /\ x = [h[p] EXCEPT !.pc = "requeued", !.held = held]
      BY <1>10, <2>3 DEF Requeue
    <3>2. \E x : Become(p, x) /\ Same(x) /\ x.pc = "requeued"
      BY <3>1, <1>1 DEF Fields
    <3> QED BY <1>1, <1>10, <2>3, <3>2, Moved DEF Requeue, At, After
  <2> QED BY <1>10, <2>1, <2>2, <2>3 DEF Requeue
<1>11. CASE WriteQueued(p)
  BY <1>1, <1>11, <1>2, Moved DEF WriteQueued, At, After, Effect
<1>12. CASE Schedule(p)
  <2>1. CASE Goto(p, "reread") /\ UNCHANGED lost
    BY <1>1, <1>12, <2>1, <1>2, Moved DEF Schedule, At, After
  <2>2. CASE ~(Goto(p, "reread") /\ UNCHANGED lost)
    BY <1>12, <2>2, ScheduleRaised DEF Schedule
  <2> QED BY <2>1, <2>2
<1>13. CASE Reread(p)
  BY <1>1, <1>13, <1>3, Moved DEF Reread, At, After
<1>14. CASE Interrupt(p)
  <2>1. CASE Goto(p, "reread") /\ Effect(p)
    BY <1>1, <1>14, <2>1, <1>2, Moved DEF Interrupt, At, After, Effect
  <2>2. CASE Goto(p, "cancel") /\ UNCHANGED effects
    BY <1>1, <1>14, <2>2, <1>2, Moved DEF Interrupt, At, After
  <2>3. CASE ~Goto(p, "cancel") /\ ~(Goto(p, "reread") /\ Effect(p))
    <3>1. \E x, held, now :
             Become(p, x) /\ x = [h[p] EXCEPT !.pc = "interrupted", !.held = held, !.now = now]
      BY <1>14, <2>3 DEF Interrupt
    <3>2. \E x : Become(p, x) /\ Same(x) /\ x.pc = "interrupted"
      BY <3>1, <1>1 DEF Fields
    <3>3. UNCHANGED <<effects, requests, lost, sessionEvents>> /\ h[p].pc = "interrupt"
      BY <1>14, <2>3 DEF Interrupt, At
    <3> QED BY <1>1, <3>2, <3>3, Moved DEF After
  <2> QED BY <1>14, <2>1, <2>2, <2>3 DEF Interrupt
<1>15. CASE WriteInterrupted(p)
  <2>1. CASE Return(p) /\ UNCHANGED effects
    BY <1>15, <2>1, Returned DEF WriteInterrupted, At, After
  <2>2. CASE Goto(p, "jobEvent") /\ Effect(p)
    BY <1>1, <1>15, <2>2, <1>2, Moved DEF WriteInterrupted, At, After, Effect
  <2> QED BY <1>15, <2>1, <2>2 DEF WriteInterrupted
<1>16. CASE CancelDirectly(p)
  BY <1>1, <1>16, <1>3, Moved DEF CancelDirectly, At, After, Effect
<1>17. CASE LookupPhase(p)
  <2>1. UNCHANGED <<effects, requests, lost, sessionEvents>> /\ h[p].pc = "lookup"
    BY <1>17 DEF LookupPhase, At
  <2>2. CASE Audited(p, h[p], "failed") \/ Audited(p, h[p], "duplicate")
    <3>1. \E x : Become(p, x) /\ Same(x) /\ x.pc = "audit" /\ ~After(x)
      BY <2>2, <1>3 DEF After
    <3> QED BY <1>1, <2>1, <3>1, Moved DEF After
  <2>3. CASE Become(p, [h[p] EXCEPT !.pc = "ensurePhases", !.then = "target"])
    <3>1. \E x : /\ Become(p, x) /\ DOMAIN x = Fields /\ x.n = h[p].n
                 /\ x.then \in Thens /\ x.pc = "ensurePhases"
      <4> DEFINE x == [h[p] EXCEPT !.pc = "ensurePhases", !.then = "target"]
      <4>1. DOMAIN x = Fields /\ x.n = h[p].n /\ x.then \in Thens /\ x.pc = "ensurePhases"
        BY <1>1 DEF Fields, Thens
      <4>2. Become(p, x)
        BY <2>3
      <4> HIDE DEF x
      <4> QED BY <4>1, <4>2
    <3> QED BY <2>1, <3>1, Moved DEF After
  <2> QED BY <1>17, <2>2, <2>3 DEF LookupPhase
<1>18. CASE Activation(p)
  <2> DEFINE answer == Audited(p, h[p], "applied")
  <2>1. /\ TargetPhase(p, answer) \/ WritePhase(p, answer)
        /\ IF h'[p].pc = "audit" THEN Effect(p) ELSE UNCHANGED effects
        /\ UNCHANGED <<lost, sessionEvents>>
    BY <1>18 DEF Activation
  <2>2. h[p].pc \in {"target", "activate"} /\ UNCHANGED requests
    BY <2>1 DEF TargetPhase, WritePhase, At
  <2>3. ASSUME answer PROVE AuditInv'
    <3>1. PICK x : Become(p, x) /\ Same(x) /\ x.pc = "audit" /\ x.result = "applied"
      BY <2>3, <1>3
    <3>2. h'[p] = x
      BY <1>1, <3>1 DEF Become
    <3> QED BY <1>1, <2>1, <2>2, <3>1, <3>2, Moved DEF After, Effect
  <2> HIDE DEF answer
  <2> QED BY <2>1, <2>3, PhaseTargeted
<1>19. CASE RecordAudit(p)
  BY <1>19, AuditRecorded
<1> QED BY <1>4, <1>5, <1>6, <1>7, <1>8, <1>9, <1>10, <1>11, <1>12, <1>13, <1>14, <1>15,
           <1>16, <1>17, <1>18, <1>19 DEF DeskSteps
----------------------------------------------------------------------------
(* The theorem *)

LEMMA AuditInit == Init => AuditInv
<1> SUFFICES ASSUME Init PROVE AuditInv
  OBVIOUS
<1> USE IdleLocal DEF Init, DeskInit, SetupInit, AuditInv
<1>1. Served
  BY DEF Served, Local
<1>2. Settled
  BY DEF Settled, Told
<1> QED BY <1>1, <1>2

LEMMA AuditNext == AuditInv /\ [Next]_vars => AuditInv'
<1> SUFFICES ASSUME AuditInv, [Next]_vars PROVE AuditInv'
  OBVIOUS
<1> USE DEF deskVars, ghosts
<1>1. ASSUME NEW p \in Handlers, Serve(p) PROVE AuditInv'
  BY <1>1, SetupBegun, SetupStepped, SetupActivated, DeskBegun, DeskStepped DEF Serve
<1>2. ASSUME NEW j, JobMoves(j) PROVE AuditInv'
  BY <1>2, QuietStep DEF JobMoves
<1>3. CASE Crash
  BY <1>3, Crashed
<1>4. ASSUME NEW c \in Clients, Watch(c) PROVE AuditInv'
  BY <1>4, QuietStep DEF Watch
<1>5. CASE UNCHANGED vars
  BY <1>5, QuietStep DEF vars
<1> QED BY <1>1, <1>2, <1>3, <1>4, <1>5 DEF Next, Server

\* The audit trail tells what happened, with any number of handlers, sessions, jobs
\* and requests: an action is audited as applied if and only if its service call
\* took effect, but for one still in progress and one that raised or died in
\* between (_record_audit of operator_actions.py).
THEOREM AuditTrailHolds == Spec => []AuditTrail
<1>1. AuditInv => AuditTrail
  BY DEF AuditInv, Settled, Told, Busy, AuditTrail
<1> QED BY AuditInit, AuditNext, <1>1, PTL DEF Spec
----------------------------------------------------------------------------
(* What the tables behind one answer still show of the troubles *)

FromJobs(t, s) ==
  LET of(statuses) == {j \in DOMAIN t : t[j].session = s /\ t[j].status \in statuses}
  IN  {<<"warning", "job", ToString(j)>> : j \in of({"input_required", "auth_required", "paused_by_loop_guard", "failed"})}
      \union {<<"critical", "job", ToString(j)>> : j \in of({"paused_by_loop_guard", "failed"})}
FromApprovals(t, s) ==
  {<<"warning", "approval", ToString(a)>> :
     a \in {a \in DOMAIN t : t[a].status = "pending" /\ Jobs0[t[a].job].session = s}}
FromPools(t) ==
  {<<"critical", "pool", ToString(k)>> : k \in {k \in DOMAIN t : t[k].status = "offline"}}

\* The rows of a job and of an approval keep all but their status.
JobsKept(t) ==
  /\ DOMAIN t = DOMAIN Jobs0
  /\ \A j \in DOMAIN Jobs0 : /\ DOMAIN t[j] = {"session", "status", "marker", "at"}
                             /\ t[j].session = Jobs0[j].session /\ t[j].at = Jobs0[j].at
ApprovalsKept(t) ==
  /\ DOMAIN t = DOMAIN Approvals0
  /\ \A a \in DOMAIN Approvals0 : /\ DOMAIN t[a] = {"job", "status"}
                                  /\ t[a].job = Approvals0[a]

\* A poll that has read a table finds in it what has lasted of that kind, and in
\* the dashboard the pools as they are.
ViewFields == {"pc", "session", "active", "todo", "read", "cursor", "given", "fresh",
               "state", "polls", "dashboard"}
ReadJobs(v, some) ==
  "jobs" \notin v.todo =>
    /\ "jobs" \in DOMAIN v.read /\ JobsKept(v.read.jobs)
    /\ \A x \in some : x[2] = "job" => x \in FromJobs(v.read.jobs, v.session)
ReadApprovals(v, some) ==
  "approvals" \notin v.todo =>
    /\ "approvals" \in DOMAIN v.read /\ ApprovalsKept(v.read.approvals)
    /\ \A x \in some : x[2] = "approval" => x \in FromApprovals(v.read.approvals, v.session)
PoolsShown(pools) ==
  /\ DOMAIN pools = DOMAIN Elsewhere.pools
  /\ \A k \in DOMAIN pools : pools[k].status = Elsewhere.pools[k].status
Verdict(v, some) ==
  v.state # None =>
    /\ some # {} => v.state # "healthy"
    /\ (\E x \in some : x[1] = "critical") => v.state = "incident"

Polling(v, some) ==
  /\ DOMAIN v = ViewFields
  /\ v.pc \in {"idle", "dashboard", "feed"}
  /\ v.pc # "idle" => /\ v.state = None
                      /\ some \subseteq FromJobs(jobs, v.session)
                                        \union FromApprovals(approvals, v.session)
                                        \union FromPools(Elsewhere.pools)
  /\ v.pc = "feed" => ReadJobs(v, some) /\ ReadApprovals(v, some) /\ PoolsShown(v.dashboard.pools)
  /\ Verdict(v, some)

TablesKept == JobsKept(jobs) /\ ApprovalsKept(approvals)
WatchInv ==
  /\ TablesKept
  /\ DOMAIN view = Clients /\ DOMAIN lasting = Clients
  /\ \A c \in Clients : Polling(view[c], lasting[c])

----------------------------------------------------------------------------
(* No step of the server changes what a row is about *)

LEMMA JobsUpdated ==
  ASSUME TablesKept, NEW j, NEW row, UpdateJob(j, row)
  PROVE  JobsKept(jobs')
BY DEF TablesKept, JobsKept, UpdateJob

LEMMA ApprovalsUpdated ==
  ASSUME TablesKept, NEW a, NEW status, UpdateApproval(a, status)
  PROVE  ApprovalsKept(approvals')
BY DEF TablesKept, ApprovalsKept, UpdateApproval

\* What a step of a request, or a turn, may do to the two tables.
JobsChange == UNCHANGED jobs \/ \E j, row : UpdateJob(j, row)
ApprovalsChange == UNCHANGED approvals \/ \E a, status : UpdateApproval(a, status)

LEMMA RequestChanges ==
  ASSUME NEW p \in Handlers, DeskSteps(p)
  PROVE  JobsChange /\ ApprovalsChange
<1> USE DEF JobsChange, ApprovalsChange, deskVars, trail
<1>1. CASE CheckApproval(p) \/ ReadJob(p) \/ Reread(p) \/ LookupPhase(p)
  BY <1>1 DEF CheckApproval, ReadJob, Reread, LookupPhase
<1>2. CASE WriteApproval(p)
  BY <1>2 DEF WriteApproval
<1>3. CASE WriteDecided(p) \/ WriteQueued(p) \/ CancelDirectly(p)
  BY <1>3 DEF WriteDecided, WriteQueued, CancelDirectly
<1>4. CASE RecordJobEvent(p) \/ RecordSessionEvent(p) \/ RecordAudit(p)
  BY <1>4 DEF RecordJobEvent, RecordSessionEvent, RecordAudit
<1>5. CASE Requeue(p) \/ Interrupt(p) \/ Activation(p)
  BY <1>5 DEF Requeue, Interrupt, Activation
<1>6. CASE Schedule(p)
  BY <1>6 DEF Schedule
<1>7. CASE WriteInterrupted(p)
  BY <1>7 DEF WriteInterrupted
<1> QED BY <1>1, <1>2, <1>3, <1>4, <1>5, <1>6, <1>7 DEF DeskSteps

LEMMA ServerKeepsTables ==
  ASSUME TablesKept, Server
  PROVE  TablesKept'
<1>1. ASSUME NEW p \in Handlers, Serve(p) PROVE JobsChange /\ ApprovalsChange
  <2>1. CASE DeskSteps(p)
    BY <2>1, RequestChanges
  <2>2. CASE ~DeskSteps(p)
    BY <1>1, <2>2 DEF Serve, DeskBegins, DecideApproval, RestartJob, CancelJob, ActivatePhase,
       deskVars, JobsChange, ApprovalsChange
  <2> QED BY <2>1, <2>2
<1>2. ASSUME NEW j, JobMoves(j) PROVE JobsChange /\ ApprovalsChange
  BY <1>2 DEF JobMoves, JobsChange, ApprovalsChange
<1>3. ASSUME Crash PROVE JobsChange /\ ApprovalsChange
  BY <1>3 DEF Crash, JobsChange, ApprovalsChange
<1>4. JobsChange /\ ApprovalsChange
  BY <1>1, <1>2, <1>3 DEF Server
<1> QED BY <1>4, JobsUpdated, ApprovalsUpdated DEF JobsChange, ApprovalsChange, TablesKept

\* The troubles there are, table by table.
LEMMA TroublesOfTables ==
  ASSUME TablesKept, NEW s
  PROVE  Troubles(s) = FromJobs(jobs, s) \union FromApprovals(approvals, s)
                       \union FromPools(Elsewhere.pools)
<1>1. \A a \in DOMAIN approvals :
        approvals[a].job \in DOMAIN Jobs0 /\ jobs[approvals[a].job].session = Jobs0[approvals[a].job].session
  BY RowsAssumption DEF TablesKept, JobsKept, ApprovalsKept
<1>2. {a \in DOMAIN approvals : approvals[a].status = "pending" /\ jobs[approvals[a].job].session = s}
      = {a \in DOMAIN approvals : approvals[a].status = "pending" /\ Jobs0[approvals[a].job].session = s}
  BY <1>1
<1> QED BY <1>2 DEF Troubles, FromJobs, FromApprovals, FromPools

----------------------------------------------------------------------------
(* Every step keeps what the polls know *)

LEMMA WatchStarts == Init => WatchInv
<1> SUFFICES ASSUME Init PROVE WatchInv
  OBVIOUS
<1>1. TablesKept
  <2>1. \A j \in DOMAIN Jobs0 : DOMAIN Jobs0[j] = {"session", "status", "marker", "at"}
    BY RowsAssumption DEF Job
  <2> QED BY <2>1 DEF Init, DeskInit, TablesKept, JobsKept, ApprovalsKept
<1>2. ASSUME NEW c \in Clients PROVE Polling(view[c], lasting[c])
  <2>1. PICK s \in Watched : view[c] = Unread(s)
    BY <1>2 DEF Init
  <2> QED BY <2>1 DEF Unread, Polling, ViewFields, Verdict
<1> QED BY <1>1, <1>2 DEF Init, WatchInv

\* What has lasted can only shrink: less of it is still found and still told.
LEMMA LessLasts ==
  ASSUME NEW v, NEW more, NEW less, less \subseteq more
  PROVE  /\ ReadJobs(v, more) => ReadJobs(v, less)
         /\ ReadApprovals(v, more) => ReadApprovals(v, less)
         /\ Verdict(v, more) => Verdict(v, less)
BY DEF ReadJobs, ReadApprovals, Verdict

LEMMA ServerKeepsWatch ==
  ASSUME WatchInv, Server, Fade
  PROVE  WatchInv'
<1>1. TablesKept'
  BY ServerKeepsTables DEF WatchInv
<1>2. view' = view \/ view' = [c \in Clients |-> Cut(view[c])]
  BY DEF Server
<1>3. ASSUME NEW c \in Clients PROVE Polling(view[c], lasting[c])'
  <2> DEFINE v == view[c]
  <2>1. Polling(v, lasting[c]) /\ DOMAIN v = ViewFields /\ v.pc \in {"idle", "dashboard", "feed"}
    BY DEF WatchInv, Polling
  <2>2. view'[c] = v \/ view'[c] = Cut(v)
    BY <1>2
  <2>3. view'[c].session = v.session
    BY <2>1, <2>2 DEF Cut, ViewFields
  <2>4. Troubles(v.session)' = FromJobs(jobs', v.session) \union FromApprovals(approvals', v.session)
                               \union FromPools(Elsewhere.pools)
    <3> DEFINE s == view'[c].session
    <3>1. \A a \in DOMAIN approvals' :
            approvals'[a].job \in DOMAIN Jobs0
            /\ jobs'[approvals'[a].job].session = Jobs0[approvals'[a].job].session
      BY <1>1, RowsAssumption DEF TablesKept, JobsKept, ApprovalsKept
    <3>2. {a \in DOMAIN approvals' : approvals'[a].status = "pending" /\ jobs'[approvals'[a].job].session = s}
          = {a \in DOMAIN approvals' : approvals'[a].status = "pending" /\ Jobs0[approvals'[a].job].session = s}
      BY <3>1
    <3> QED BY <2>3, <3>2 DEF Troubles, FromJobs, FromApprovals, FromPools
  <2>5. lasting'[c] \subseteq lasting[c] /\ (v.pc # "idle" => lasting'[c] \subseteq Troubles(v.session)')
    BY DEF Fade
  <2>6. v.pc # "idle" => v.state = None
    BY <2>1 DEF Polling
  <2> HIDE DEF v
  <2>7. Verdict(v, lasting'[c])
    BY <2>1, <2>5, LessLasts DEF Polling
  <2>8. CASE view'[c] = v
    <3>1. v.pc = "feed" => ReadJobs(v, lasting'[c]) /\ ReadApprovals(v, lasting'[c])
                           /\ PoolsShown(v.dashboard.pools)
      BY <2>1, <2>5, LessLasts DEF Polling
    <3> QED BY <2>8, <2>1, <2>4, <2>5, <2>6, <2>7, <3>1 DEF Polling
  <2>9. CASE view'[c] = Cut(v)
    <3>1. DOMAIN Cut(v) = ViewFields /\ Cut(v).pc = "idle" /\ Cut(v).state = v.state
      BY <2>1 DEF Cut, ViewFields
    <3>2. Verdict(Cut(v), lasting'[c])
      BY <2>7, <3>1 DEF Verdict
    <3> QED BY <2>9, <3>1, <3>2 DEF Polling
  <2> QED BY <2>2, <2>8, <2>9
<1>4. DOMAIN view' = Clients /\ DOMAIN lasting' = Clients
  BY <1>2 DEF WatchInv, Fade
<1> QED BY <1>1, <1>3, <1>4 DEF WatchInv

\* The dashboard of one session shows every pool, as it is.
LEMMA PoolsOfView ==
  ASSUME NEW t, NEW s
  PROVE  PoolsShown(View(Tables(t), OfSession(s)).pools)
<1> DEFINE S == FilterSnapshot(Snapshot(Tables(t)), OfSession(s))
<1>1. S.rows.pools = Elsewhere.pools
  BY DEF FilterSnapshot, Snapshot, Tables, OfSession, Filters, NoKey
<1>2. OfSession(s).pool = NoKey
  BY DEF OfSession, Filters
<1>3. View(Tables(t), OfSession(s)).pools = PoolHealth(S, OfSession(s))
  BY DEF View
<1> HIDE DEF S
<1>4. DOMAIN PoolHealth(S, OfSession(s)) = DOMAIN S.rows.pools
  BY <1>2 DEF PoolHealth, Passes
<1>5. \A k \in DOMAIN S.rows.pools : PoolHealth(S, OfSession(s))[k].status = S.rows.pools[k].status
  BY <1>2 DEF PoolHealth, Passes
<1> QED BY <1>1, <1>3, <1>4, <1>5 DEF PoolsShown

\* What has lasted until the tables were read has its signal, as grave as it is.
LEMMA SignalsTell ==
  ASSUME NEW v, NEW some, NEW x \in some, v.todo = {},
         ReadJobs(v, some), ReadApprovals(v, some), PoolsShown(v.dashboard.pools),
         x \in FromJobs(jobs, v.session) \union FromApprovals(approvals, v.session)
               \union FromPools(Elsewhere.pools)
  PROVE  \E g \in Signals(FeedRows(v), v.session, v.dashboard) :
            x[1] = "critical" => g.severity = "critical"
<1> DEFINE rows == FeedRows(v)
<1>1. rows.jobs = v.read.jobs /\ rows.approvals = v.read.approvals
  BY DEF FeedRows
<1> HIDE DEF rows
<1>2. CASE x \in FromJobs(jobs, v.session)
  <2>1. x[2] = "job"
    BY <1>2 DEF FromJobs
  <2>2. x \in FromJobs(rows.jobs, v.session)
    BY <1>1, <2>1 DEF ReadJobs
  <2>3. PICK j \in DOMAIN rows.jobs :
          /\ rows.jobs[j].session = v.session
          /\ \/ rows.jobs[j].status \in {"paused_by_loop_guard", "failed"}
             \/ rows.jobs[j].status \in {"input_required", "auth_required"} /\ x[1] = "warning"
    BY <2>2 DEF FromJobs
  <2>4. CASE rows.jobs[j].status = "failed"
    <3>1. Signal("critical", "recent_error", j) \in ErrorSignals(rows, v.session)
      BY <2>3, <2>4 DEF ErrorSignals
    <3>2. Signal("critical", "recent_error", j).severity = "critical"
      BY DEF Signal
    <3> QED BY <3>1, <3>2 DEF Signals, rows
  <2>5. CASE rows.jobs[j].status # "failed"
    <3> DEFINE grave == IF rows.jobs[j].status = "paused_by_loop_guard" THEN "critical" ELSE "warning"
    <3>1. Signal(grave, "stuck_job", j) \in StuckSignals(rows, v.session)
      BY <2>3, <2>5 DEF StuckSignals, BlockedStatuses
    <3>2. Signal(grave, "stuck_job", j).severity = grave
      BY DEF Signal
    <3>3. x[1] = "critical" => grave = "critical"
      BY <2>3, <2>5
    <3> QED BY <3>1, <3>2, <3>3 DEF Signals, rows
  <2> QED BY <2>4, <2>5
<1>3. CASE x \in FromApprovals(approvals, v.session)
  <2>1. x[1] = "warning" /\ x[2] = "approval"
    BY <1>3 DEF FromApprovals
  <2>2. x \in FromApprovals(rows.approvals, v.session)
    BY <1>1, <2>1 DEF ReadApprovals
  <2>3. PICK a \in DOMAIN rows.approvals :
          rows.approvals[a].status = "pending" /\ Jobs0[rows.approvals[a].job].session = v.session
    BY <2>2 DEF FromApprovals
  <2>4. JobsKept(rows.jobs) /\ ApprovalsKept(rows.approvals)
    BY <1>1 DEF ReadJobs, ReadApprovals
  <2>5. rows.approvals[a].job \in {j \in DOMAIN rows.jobs : rows.jobs[j].session = v.session}
    BY <2>3, <2>4, RowsAssumption DEF JobsKept, ApprovalsKept
  <2>6. Signal("warning", "pending_approval", a) \in ApprovalSignals(rows, v.session)
    BY <2>3, <2>5 DEF ApprovalSignals
  <2> QED BY <2>1, <2>6 DEF Signals, rows
<1>4. CASE x \in FromPools(Elsewhere.pools)
  <2>1. PICK k \in DOMAIN v.dashboard.pools : v.dashboard.pools[k].status = "offline"
    BY <1>4 DEF FromPools, PoolsShown
  <2>2. Signal("critical", "runtime_health", k) \in PoolSignals(v.dashboard)
    BY <2>1 DEF PoolSignals
  <2>3. Signal("critical", "runtime_health", k).severity = "critical"
    BY DEF Signal
  <2> QED BY <2>2, <2>3 DEF Signals
<1> QED BY <1>2, <1>3, <1>4

LEMMA AnswerTells ==
  ASSUME NEW signals, NEW some,
         \A x \in some : \E g \in signals : x[1] = "critical" => g.severity = "critical"
  PROVE  /\ some # {} => IncidentState(signals) # "healthy"
         /\ (\E x \in some : x[1] = "critical") => IncidentState(signals) = "incident"
BY DEF IncidentState, TopSeverity

LEMMA WatchKeeps ==
  ASSUME WatchInv, NEW c \in Clients, Watch(c), Started(c)
  PROVE  WatchInv'
<1> DEFINE v == view[c]
           some == lasting[c]
           s == view[c].session
<1>1. UNCHANGED <<jobs, approvals>>
  BY DEF Watch, deskVars
<1>2. TablesKept /\ TablesKept'
  BY <1>1 DEF WatchInv, TablesKept, JobsKept, ApprovalsKept
<1>3. Polling(v, some) /\ DOMAIN v = ViewFields
  BY DEF WatchInv, Polling
<1>4. DOMAIN view = Clients /\ DOMAIN lasting = Clients
  BY DEF WatchInv
<1>5. SUFFICES ASSUME NEW w, NEW now,
                      view' = [view EXCEPT ![c] = w], lasting' = [lasting EXCEPT ![c] = now],
                      now = IF v.pc = "idle" THEN Troubles(s) ELSE some
               PROVE  Polling(w, now)'
  <2>1. \E w : view' = [view EXCEPT ![c] = w]
    BY DEF Watch, Poll, ReadTables, LoadDashboard, Answer
  <2>2. \E now : /\ lasting' = [lasting EXCEPT ![c] = now]
                 /\ now = IF v.pc = "idle" THEN Troubles(s) ELSE some
    BY <1>4 DEF Started
  <2>3. PICK w, now : /\ view' = [view EXCEPT ![c] = w] /\ lasting' = [lasting EXCEPT ![c] = now]
                      /\ now = IF v.pc = "idle" THEN Troubles(s) ELSE some
    BY <2>1, <2>2
  <2>4. Polling(w, now)'
    BY <1>5, <2>3
  <2>5. ASSUME NEW d \in Clients PROVE Polling(view[d], lasting[d])'
    <3>1. CASE d = c
      <4>1. view'[d] = w /\ lasting'[d] = now
        BY <1>4, <2>3, <3>1
      <4> QED BY <2>4, <4>1, <1>1 DEF Polling
    <3>2. CASE d # c
      <4>1. view'[d] = view[d] /\ lasting'[d] = lasting[d] /\ Polling(view[d], lasting[d])
        BY <1>4, <2>3, <3>2 DEF WatchInv
      <4> QED BY <4>1, <1>1 DEF Polling
    <3> QED BY <3>1, <3>2
  <2>6. DOMAIN view' = Clients /\ DOMAIN lasting' = Clients
    BY <1>4, <2>3
  <2> QED BY <1>2, <2>5, <2>6 DEF WatchInv
<1>6. view'[c] = w
  BY <1>4, <1>5
<1>7. CASE Poll(c)
  <2>1. /\ v.pc = "idle"
        /\ w = [v EXCEPT !.pc = "dashboard", !.todo = DashboardTables, !.polls = @ + 1,
                         !.active = sessions[v.session].active,
                         !.given = @ \union v.fresh, !.fresh = {}, !.state = None]
    BY <1>4, <1>6, <1>7 DEF Poll
  <2>2. DOMAIN w = ViewFields /\ w.pc = "dashboard" /\ w.state = None /\ w.session = s
    BY <1>3, <2>1 DEF ViewFields
  <2>3. now = FromJobs(jobs, s) \union FromApprovals(approvals, s) \union FromPools(Elsewhere.pools)
    BY <1>2, <1>5, <2>1, TroublesOfTables
  <2> QED BY <1>1, <2>2, <2>3 DEF Polling, Verdict
<1>8. CASE ReadTables(c)
  <2>1. PICK some1 \in SUBSET v.todo :
          view' = [view EXCEPT ![c].todo = @ \ some1,
                               ![c].read = [t \in some1 \union DOMAIN @ |->
                                              IF t \in some1 THEN Stored[t] ELSE @[t]]]
    BY <1>8 DEF ReadTables
  <2> DEFINE gathered == [t \in some1 \union DOMAIN v.read |->
                            IF t \in some1 THEN Stored[t] ELSE v.read[t]]
  <2>2. w = [v EXCEPT !.todo = @ \ some1, !.read = gathered]
    BY <1>4, <1>6, <2>1
  <2>3. /\ DOMAIN w = ViewFields /\ w.pc = v.pc /\ w.state = v.state /\ w.session = s
        /\ w.dashboard = v.dashboard /\ w.todo = v.todo \ some1
        /\ w.read = gathered
    BY <1>3, <2>2 DEF ViewFields
  <2>4. v.pc # "idle" /\ now = some
    BY <1>5, <1>8 DEF ReadTables
  <2>5. some \subseteq FromJobs(jobs, s) \union FromApprovals(approvals, s) \union FromPools(Elsewhere.pools)
    BY <1>3, <2>4 DEF Polling
  <2>6. /\ "jobs" \in some1 => "jobs" \in DOMAIN w.read /\ w.read.jobs = jobs
        /\ "approvals" \in some1 => "approvals" \in DOMAIN w.read /\ w.read.approvals = approvals
    <3>1. Stored["jobs"] = jobs /\ Stored["approvals"] = approvals
      BY DEF Stored, JobRows, ApprovalRows
    <3>2. /\ "jobs" \in some1 => "jobs" \in DOMAIN w.read /\ w.read["jobs"] = Stored["jobs"]
          /\ "approvals" \in some1 =>
               "approvals" \in DOMAIN w.read /\ w.read["approvals"] = Stored["approvals"]
      BY <2>3
    <3> QED BY <3>1, <3>2
  <2>7. /\ "jobs" \notin some1 /\ "jobs" \in DOMAIN v.read
             => "jobs" \in DOMAIN w.read /\ w.read.jobs = v.read.jobs
        /\ "approvals" \notin some1 /\ "approvals" \in DOMAIN v.read
             => "approvals" \in DOMAIN w.read /\ w.read.approvals = v.read.approvals
    <3>1. /\ "jobs" \notin some1 /\ "jobs" \in DOMAIN v.read
               => "jobs" \in DOMAIN w.read /\ w.read["jobs"] = v.read["jobs"]
          /\ "approvals" \notin some1 /\ "approvals" \in DOMAIN v.read
               => "approvals" \in DOMAIN w.read /\ w.read["approvals"] = v.read["approvals"]
      BY <2>3
    <3> QED BY <3>1
  <2>8. ReadJobs(v, some) => ReadJobs(w, some)
    <3>1. CASE "jobs" \in some1
      <4>1. \A x \in some : x[2] = "job" => x \in FromJobs(jobs, s)
        BY <2>5 DEF FromApprovals, FromPools
      <4> QED BY <1>2, <2>3, <2>6, <3>1, <4>1 DEF ReadJobs, TablesKept
    <3>2. CASE "jobs" \notin some1
      BY <2>3, <2>7, <3>2 DEF ReadJobs
    <3> QED BY <3>1, <3>2
  <2>9. ReadApprovals(v, some) => ReadApprovals(w, some)
    <3>1. CASE "approvals" \in some1
      <4>1. \A x \in some : x[2] = "approval" => x \in FromApprovals(approvals, s)
        BY <2>5 DEF FromJobs, FromPools
      <4> QED BY <1>2, <2>3, <2>6, <3>1, <4>1 DEF ReadApprovals, TablesKept
    <3>2. CASE "approvals" \notin some1
      BY <2>3, <2>7, <3>2 DEF ReadApprovals
    <3> QED BY <3>1, <3>2
  <2> QED BY <1>1, <1>3, <2>3, <2>4, <2>8, <2>9 DEF Polling, Verdict
<1>9. CASE LoadDashboard(c)
  <2>1. /\ v.pc = "dashboard"
        /\ w = [v EXCEPT !.pc = "feed", !.todo = FeedTables, !.read = <<>>,
                         !.dashboard = View(Tables(v.read), OfSession(v.session))]
    BY <1>4, <1>6, <1>9 DEF LoadDashboard
  <2>2. /\ DOMAIN w = ViewFields /\ w.pc = "feed" /\ w.state = v.state /\ w.session = s
        /\ w.todo = FeedTables /\ w.dashboard = View(Tables(v.read), OfSession(v.session))
    BY <1>3, <2>1 DEF ViewFields
  <2>3. now = some
    BY <1>5, <2>1
  <2>4. ReadJobs(w, some) /\ ReadApprovals(w, some)
    BY <2>2 DEF ReadJobs, ReadApprovals, FeedTables
  <2>5. PoolsShown(w.dashboard.pools)
    BY <2>2, PoolsOfView
  <2> QED BY <1>1, <1>3, <2>1, <2>2, <2>3, <2>4, <2>5 DEF Polling, Verdict
<1>10. ASSUME NEW limit \in Limits, Answer(c, limit) PROVE Polling(w, now)'
  <2> DEFINE signals == Signals(FeedRows(v), v.session, v.dashboard)
  <2>1. v.pc = "feed" /\ v.todo = {}
    BY <1>10 DEF Answer
  <2>2. PICK fresh, cursor :
          w = [v EXCEPT !.pc = "idle", !.read = <<>>, !.active = None, !.fresh = fresh,
                        !.cursor = cursor, !.state = IncidentState(signals), !.dashboard = <<>>]
    BY <1>4, <1>6, <1>10 DEF Answer
  <2>3. DOMAIN w = ViewFields /\ w.pc = "idle" /\ w.state = IncidentState(signals)
    BY <1>3, <2>2 DEF ViewFields
  <2>4. now = some
    BY <1>5, <2>1
  <2>5. ASSUME NEW x \in some
        PROVE  \E g \in signals : x[1] = "critical" => g.severity = "critical"
    <3>1. /\ ReadJobs(v, some) /\ ReadApprovals(v, some) /\ PoolsShown(v.dashboard.pools)
          /\ x \in FromJobs(jobs, v.session) \union FromApprovals(approvals, v.session)
                   \union FromPools(Elsewhere.pools)
      BY <1>3, <2>1, <2>5 DEF Polling
    <3> HIDE DEF v, some
    <3> QED BY <2>1, <2>5, <3>1, SignalsTell
  <2> HIDE DEF signals
  <2>6. Verdict(w, now)
    BY <2>3, <2>4, <2>5, AnswerTells DEF Verdict
  <2> QED BY <2>3, <2>6 DEF Polling
<1> QED BY <1>7, <1>8, <1>9, <1>10 DEF Watch

LEMMA WatchNext == WatchInv /\ [Next]_vars => WatchInv'
<1> SUFFICES ASSUME WatchInv, [Next]_vars PROVE WatchInv'
  OBVIOUS
<1>1. CASE UNCHANGED vars
  BY <1>1 DEF vars, deskVars, watchVars, WatchInv, TablesKept, Polling
<1> QED BY <1>1, ServerKeepsWatch, WatchKeeps DEF Next

LEMMA WatchInvariance == Spec => []WatchInv
BY WatchStarts, WatchNext, PTL DEF Spec

\* The tables behind one answer are read at different moments, in any order and
\* while any requests go on: trouble that lasted through all of them is told by
\* the state of the incident, and what is critical makes it an incident, with any
\* number of clients, sessions, jobs and pools (get_session_activity).
THEOREM NothingIsHidden == Spec => []NothingHidden
<1>1. WatchInv => NothingHidden
  BY DEF WatchInv, Polling, Verdict, NothingHidden
<1> QED BY <1>1, WatchInvariance, PTL
----------------------------------------------------------------------------
(* What a request that makes a session has done, and all that others undo: *)
(* nothing                                                                 *)

RowFields == {"status", "active", "template"}
\* Where a request is that makes a session, and where the others go on.
Making == {"seedChannels", "channel", "seedPhases", "phase", "seedRules", "rule", "finish"}
Onward == {"return", "exists", "target", "lookup"}
Templates == DOMAIN Builtin \union DOMAIN Custom

SeedsChannels(s, t, some) == Keys(ResolveChannels(t)) \subseteq Keys(channels[s]) \union Keys(some)
SeedsPhases(s, some) == PresetKeys \subseteq Keys(phases[s]) \union Keys(some)
SeedsRules(s, t, some) == Definition(t).rules \subseteq rules[s] \union some

Building(l) ==
  LET s == l.session
      t == l.req.template
  IN  /\ s \in Sessions /\ Exists(s) /\ applied[s] = None
      /\ l.row.status # "absent" /\ t \in Templates
      /\ l.pc = "channel" => l.then = "seedPhases" /\ SeedsChannels(s, t, l.todo)
      /\ l.pc \in Making \ {"seedChannels", "channel"} => SeedsChannels(s, t, {})
      /\ l.pc = "phase" => l.then = "seedRules" /\ SeedsPhases(s, l.todo)
      /\ l.pc \in {"seedRules", "rule", "finish"} => SeedsPhases(s, {})
      /\ l.pc = "rule" => l.then = "finish" /\ SeedsRules(s, t, l.todo)
      /\ l.pc = "finish" => SeedsRules(s, t, {})

\* What a handler holds is well formed whatever the tables are ...
Steady(l) ==
  /\ DOMAIN l = Fields /\ DOMAIN l.row = RowFields
  /\ l.pc = "phase" => Keys(l.todo) \subseteq PresetKeys
  /\ l.pc = "template" => l.req.template \in DOMAIN Custom
  /\ IF l.req.op = "instantiate" THEN l.pc \in Making
     ELSE l.then \in Onward /\ l.pc \notin Making \ {"channel", "phase"}
\* ... and true of the tables.
Informed(l) ==
  /\ l.req.op = "instantiate" => Building(l)
  /\ l.req.op \in {"activate", "activate_phase"} =>
       /\ l.session \in Sessions /\ Exists(l.session)
       /\ l.pc = "activate" => l.row.status # "absent" /\ l.req.phase \in Keys(phases[l.session])

Whole(s, t) ==
  /\ SeedsChannels(s, t, {}) /\ SeedsPhases(s, {}) /\ SeedsRules(s, t, {})
  /\ sessions[s].active \in PresetKeys
SetupTables ==
  /\ DOMAIN sessions = Sessions /\ DOMAIN channels = Sessions /\ DOMAIN phases = Sessions
  /\ DOMAIN rules = Sessions /\ DOMAIN applied = Sessions /\ DOMAIN h = Handlers
  /\ templates \subseteq DOMAIN Custom
  /\ \A s \in Sessions :
       /\ DOMAIN sessions[s] = RowFields
       /\ Exists(s) => sessions[s].status # "absent"
       /\ Keys(phases[s]) \subseteq PresetKeys
       /\ applied[s] # None => Exists(s) /\ Whole(s, applied[s])
OneMaker ==
  \A p, q \in Handlers :
    h[p].req.op = "instantiate" /\ h[q].req.op = "instantiate" /\ h[p].session = h[q].session
      => p = q

SetupInv ==
  /\ SetupTables /\ OneMaker
  /\ \A p \in Handlers : Steady(h[p]) /\ Informed(h[p])

----------------------------------------------------------------------------
(* The catalog *)

LEMMA SmallestOf ==
  ASSUME NEW S \in SUBSET Nat, S # {}
  PROVE  \E x \in S : \A y \in S : x <= y
<1>1. PICK x \in S : \A y \in S : <<y, x>> \notin OpToRel(<, Nat)
  BY NatLessThanWellFounded, WFMin
<1>2. \A y \in S : ~(y < x)
  BY <1>1 DEF OpToRel
<1> QED BY <1>2

LEMMA MinOf ==
  ASSUME NEW S \in SUBSET Nat, S # {}
  PROVE  Min(S) \in S
<1>1. PICK x \in S : \A y \in S : x <= y
  BY SmallestOf
<1> QED BY <1>1 DEF Min

LEMMA PresetsNamed ==
  /\ PresetKeys = {"planning", "implementation", "review", "revise", "finalize"}
  /\ DOMAIN Presets = 1..5 /\ Len(Presets) = 5
  /\ \A k \in PresetKeys : PresetPlaces[k] \in Nat
<1>1. DOMAIN Presets = 1..5 /\ Len(Presets) = 5
  BY DEF Presets
<1>2. PresetKeys = {Presets[i] : i \in DOMAIN Presets}
  BY DEF PresetKeys, Range
<1>3. PresetKeys = {"planning", "implementation", "review", "revise", "finalize"}
  <2>1. PresetKeys = {Presets[1], Presets[2], Presets[3], Presets[4], Presets[5]}
    BY <1>1, <1>2
  <2> QED BY <2>1 DEF Presets
<1>4. ASSUME NEW k \in PresetKeys PROVE PresetPlaces[k] \in DOMAIN Presets
  <2>1. \E i \in DOMAIN Presets : Presets[i] = k
    BY <1>2
  <2> QED BY <2>1 DEF PresetPlaces
<1> QED BY <1>1, <1>3, <1>4

\* The order of a template is a sequence, whoever wrote it.
LEMMA OrderOfTemplate ==
  ASSUME NEW t \in Templates
  PROVE  DOMAIN Definition(t).order \subseteq Nat /\ Len(Definition(t).order) \in Nat
<1>1. CASE t \in DOMAIN Builtin
  <2>1. t \in {"planning_heavy", "implementation_review", "research_review", "hotfix_triage"}
    BY <1>1 DEF Builtin
  <2>2. Builtin[t] \in {PlanningHeavy, ImplementationReview, ResearchReview, HotfixTriage}
    BY <2>1 DEF Builtin
  <2>3. \A added, names, phase : Template(added, Presets, names, phase).order = Presets
    BY DEF Template
  <2>4. Builtin[t].order = Presets
    BY <2>2, <2>3 DEF PlanningHeavy, ImplementationReview, ResearchReview, HotfixTriage
  <2> QED BY <1>1, <2>4, PresetsNamed DEF Definition
<1>2. CASE t \notin DOMAIN Builtin
  <2>1. DOMAIN Custom[t] = {"channels", "order", "rules", "active"} /\ Custom[t].order \in Seq(STRING)
    BY <1>2, CustomAssumption DEF Templates
  <2>2. Definition(t).order = Custom[t].order
    BY <1>2, <2>1 DEF Definition
  <2>3. ASSUME NEW q \in Seq(STRING) PROVE DOMAIN q \subseteq Nat /\ Len(q) \in Nat
    BY <2>3
  <2> QED BY <2>1, <2>2, <2>3
<1> QED BY <1>1, <1>2

\* The phase an instantiation activates is always a preset, and so one it seeds.
LEMMA ActiveIsPreset ==
  ASSUME NEW t \in Templates
  PROVE  ResolveActive(t) \in PresetKeys
<1>1. ASSUME NEW k \in PresetKeys PROVE Rank(t, k) \in Nat
  <2> DEFINE order == Definition(t).order
             asked == {i \in DOMAIN order : order[i] = k}
  <2>2. Len(order) \in Nat /\ DOMAIN order \subseteq Nat
    BY OrderOfTemplate
  <2>3. asked # {} => Min(asked) \in Nat
    BY <2>2, MinOf
  <2>4. Rank(t, k) = IF asked # {} THEN Min(asked) ELSE Len(order) + PresetPlaces[k]
    BY DEF Rank
  <2> HIDE DEF asked, order
  <2> QED BY <1>1, <2>2, <2>3, <2>4, PresetsNamed
<1>2. PICK k \in PresetKeys : \A l \in PresetKeys : Rank(t, k) <= Rank(t, l)
  <2> DEFINE ranks == {Rank(t, k) : k \in PresetKeys}
  <2>1. ranks \in SUBSET Nat
    BY <1>1
  <2>2. "planning" \in PresetKeys
    BY PresetsNamed
  <2>3. ranks # {}
    BY <2>2
  <2>4. PICK n \in ranks : \A m \in ranks : n <= m
    BY <2>1, <2>3, SmallestOf
  <2> QED BY <2>4
<1> QED BY <1>2 DEF ResolveActive

LEMMA KeysGrow ==
  ASSUME NEW rows, NEW row
  PROVE  /\ Keys(rows \union {row}) = Keys(rows) \union {row.key}
         /\ Keys({}) = {}
BY DEF Keys

LEMMA KeysRest ==
  ASSUME NEW rows, NEW row \in rows
  PROVE  Keys(rows) = Keys(rows \ {row}) \union {row.key}
BY DEF Keys
----------------------------------------------------------------------------
(* The kinds of step *)

\* Rows are only added, sessions stay, and an instantiation is answered elsewhere.
Grow ==
  /\ applied' = applied
  /\ \A s \in Sessions : /\ Keys(channels[s]) \subseteq Keys(channels'[s])
                         /\ Keys(phases[s]) \subseteq Keys(phases'[s])
                         /\ rules[s] \subseteq rules'[s]
                         /\ Exists(s) => Exists(s)'

LEMMA Grown ==
  ASSUME NEW l, Informed(l), Grow
  PROVE  Informed(l)'
<1>1. ASSUME Building(l) PROVE Building(l)'
  BY <1>1 DEF Building, Grow, SeedsChannels, SeedsPhases, SeedsRules
<1>2. ASSUME l.session \in Sessions, Exists(l.session),
             l.pc = "activate" => l.row.status # "absent" /\ l.req.phase \in Keys(phases[l.session])
      PROVE  /\ Exists(l.session)'
             /\ l.pc = "activate" => l.row.status # "absent" /\ l.req.phase \in Keys(phases[l.session])'
  BY <1>2 DEF Grow
<1> QED BY <1>1, <1>2 DEF Informed

LEMMA WholeGrown ==
  ASSUME NEW s \in Sessions, NEW t, Whole(s, t), Grow, sessions'[s].active \in PresetKeys
  PROVE  Whole(s, t)'
BY DEF Whole, Grow, SeedsChannels, SeedsPhases, SeedsRules

LEMMA IdleSteady ==
  /\ Steady(Idle) /\ Idle.req.op = "none" /\ Idle.pc = "idle" /\ Idle.then = "return"
  /\ DOMAIN Idle = Fields /\ DOMAIN Idle.row = RowFields /\ Idle.session = None
  /\ Idle.todo = {}
BY DEF Steady, Idle, Fields, RowFields, NoRequest, NoSession, Session, Onward, Making

\* One handler goes on while the tables grow.
LEMMA OneStep ==
  ASSUME SetupInv, NEW p \in Handlers, NEW x, h' = [h EXCEPT ![p] = x], Grow, SetupTables',
         Steady(x), Informed(x)',
         \A q \in Handlers \ {p} : x.req.op = "instantiate" /\ h[q].req.op = "instantiate"
                                    => x.session # h[q].session
  PROVE  SetupInv'
<1>1. h'[p] = x /\ \A q \in Handlers \ {p} : h'[q] = h[q]
  BY DEF SetupInv, SetupTables
<1>2. OneMaker'
  BY <1>1 DEF SetupInv, OneMaker
<1>3. ASSUME NEW q \in Handlers PROVE Steady(h'[q]) /\ Informed(h[q])'
  <2>1. CASE q = p
    BY <1>1, <2>1 DEF Informed, Building, SeedsChannels, SeedsPhases, SeedsRules
  <2>2. CASE q # p
    <3>1. PICK l : l = h[q] /\ Steady(l) /\ Informed(l)
      BY DEF SetupInv
    <3>2. Informed(l)'
      BY <3>1, Grown
    <3>3. h'[q] = l
      BY <1>1, <2>2, <3>1
    <3> QED BY <3>1, <3>2, <3>3 DEF Informed, Building, SeedsChannels, SeedsPhases, SeedsRules
  <2> QED BY <2>1, <2>2
<1>4. ASSUME NEW q \in Handlers PROVE (Steady(h[q]) /\ Informed(h[q]))'
  BY <1>3 DEF Steady
<1> QED BY <1>2, <1>4 DEF SetupInv

\* What the tables say stays true while they grow.
LEMMA TablesGrow ==
  ASSUME SetupInv, Grow, DOMAIN h' = Handlers, DOMAIN sessions' = Sessions,
         DOMAIN channels' = Sessions, DOMAIN phases' = Sessions, DOMAIN rules' = Sessions, templates' \subseteq DOMAIN Custom,
         \A s \in Sessions :
           /\ DOMAIN sessions'[s] = RowFields
           /\ Exists(s)' => sessions'[s].status # "absent"
           /\ Keys(phases'[s]) \subseteq PresetKeys
           /\ applied[s] # None => sessions'[s].active \in PresetKeys
  PROVE  SetupTables'
<1>1. ASSUME NEW s \in Sessions, applied[s] # None PROVE Exists(s)' /\ Whole(s, applied[s])'
  <2>1. PICK t : t = applied[s]
    OBVIOUS
  <2>2. Whole(s, t) /\ Exists(s)
    BY <1>1, <2>1 DEF SetupInv, SetupTables
  <2>3. Whole(s, t)' /\ Exists(s)'
    BY <1>1, <2>1, <2>2, WholeGrown DEF Grow
  <2>4. applied'[s] = t
    BY <2>1 DEF Grow
  <2> QED BY <2>1, <2>3, <2>4 DEF Whole, SeedsChannels, SeedsPhases, SeedsRules
<1>2. DOMAIN applied' = Sessions
  BY DEF SetupInv, SetupTables, Grow
<1> QED BY <1>1, <1>2 DEF SetupTables, Grow

LEMMA TablesStay ==
  ASSUME SetupInv, UNCHANGED <<setupVars, applied>>, DOMAIN h' = Handlers
  PROVE  Grow /\ SetupTables'
<1> USE DEF setupVars
<1>1. Grow
  BY DEF Grow, Exists
<1>2. \A s \in Sessions :
        /\ DOMAIN sessions[s] = RowFields
        /\ Exists(s) => sessions[s].status # "absent"
        /\ Keys(phases[s]) \subseteq PresetKeys
        /\ applied[s] # None => sessions[s].active \in PresetKeys
  BY DEF SetupInv, SetupTables, Whole
<1>3. \A s \in Sessions : Exists(s)' <=> Exists(s)
  BY DEF Exists
<1>4. /\ DOMAIN sessions = Sessions /\ DOMAIN channels = Sessions /\ DOMAIN phases = Sessions
      /\ DOMAIN rules = Sessions /\ templates \subseteq DOMAIN Custom
  BY DEF SetupInv, SetupTables
<1> QED BY <1>1, <1>2, <1>3, <1>4, TablesGrow

LEMMA NothingMoves ==
  ASSUME SetupInv, UNCHANGED <<setupVars, h, applied>>
  PROVE  SetupInv'
<1>1. Grow /\ SetupTables'
  BY TablesStay DEF SetupInv, SetupTables
<1>2. ASSUME NEW p \in Handlers PROVE (Steady(h[p]) /\ Informed(h[p]))'
  <2>1. PICK l : l = h[p] /\ l = h'[p] /\ Steady(l) /\ Informed(l)
    BY DEF SetupInv
  <2>2. Informed(l)'
    BY <1>1, <2>1, Grown
  <2> QED BY <2>1, <2>2 DEF Steady, Informed, Building, SeedsChannels, SeedsPhases, SeedsRules
<1>3. OneMaker'
  BY DEF SetupInv, OneMaker
<1> QED BY <1>1, <1>2, <1>3 DEF SetupInv

\* What a step of a request leaves as it was.
Kept(x, l) == DOMAIN x = Fields /\ x.req = l.req /\ x.session = l.session /\ x.row = l.row

\* A request goes on, or is answered.
LEMMA Advances ==
  ASSUME SetupInv, Grow, SetupTables', NEW p \in Handlers, NEW x, h' = [h EXCEPT ![p] = x],
         \/ x = Idle
         \/ Kept(x, h[p]) /\ Steady(x) /\ Informed(x)'
  PROVE  SetupInv'
<1>1. Steady(x) /\ Informed(x)'
  BY IdleSteady DEF Informed
<1>2. \A q \in Handlers \ {p} : x.req.op = "instantiate" /\ h[q].req.op = "instantiate"
                                => x.session # h[q].session
  BY IdleSteady DEF SetupInv, OneMaker, Kept
<1> QED BY <1>1, <1>2, OneStep

LEMMA Answers ==
  ASSUME SetupInv, Grow, SetupTables', NEW p \in Handlers, Return(p)
  PROVE  SetupInv'
BY Advances DEF Return, Become

\* A request that makes no session, where it does not seed and does not write one.
LEMMA Apart ==
  ASSUME SetupInv, UNCHANGED <<setupVars, applied>>,
         NEW p \in Handlers, NEW x, h' = [h EXCEPT ![p] = x],
         DOMAIN x = Fields, DOMAIN x.row = RowFields, x.then \in Onward,
         x.req.op # "instantiate", x.pc \notin Making \union {"activate"},
         x.pc = "template" => x.req.template \in DOMAIN Custom,
         x.req.op \in {"activate", "activate_phase"} => x.session \in Sessions /\ Exists(x.session)
  PROVE  SetupInv'
<1>1. Grow /\ SetupTables'
  BY TablesStay DEF SetupInv, SetupTables
<1>2. Steady(x) /\ Informed(x)
  BY DEF Steady, Informed, Making
<1>3. Informed(x)'
  BY <1>1, <1>2, Grown
<1> QED BY <1>1, <1>2, <1>3, OneStep

LEMMA Continues ==
  ASSUME SetupInv, NEW p \in Handlers, NEW loop, NEW todo, NEW then, Continue(p, loop, todo, then)
  PROVE  \E x : /\ h' = [h EXCEPT ![p] = x]
                /\ \/ x = Idle
                   \/ /\ Kept(x, h[p]) /\ x.todo = todo
                      /\ \/ todo # {} /\ x.pc = loop /\ x.then = then
                         \/ todo = {} /\ then # "return" /\ x.pc = then /\ x.then = h[p].then
<1>1. DOMAIN h[p] = Fields
  BY DEF SetupInv, Steady
<1>2. CASE todo # {}
  <2> DEFINE x == [h[p] EXCEPT !.pc = loop, !.todo = todo, !.then = then]
  <2>1. Kept(x, h[p]) /\ x.todo = todo /\ x.pc = loop /\ x.then = then
    BY <1>1 DEF Kept, Fields
  <2>2. h' = [h EXCEPT ![p] = x]
    BY <1>2 DEF Continue, Become
  <2> HIDE DEF x
  <2> QED BY <1>2, <2>1, <2>2
<1>3. CASE todo = {} /\ then # "return"
  <2> DEFINE x == [h[p] EXCEPT !.pc = then, !.todo = {}]
  <2>1. Kept(x, h[p]) /\ x.todo = todo /\ x.pc = then /\ x.then = h[p].then
    BY <1>1, <1>3 DEF Kept, Fields
  <2>2. h' = [h EXCEPT ![p] = x]
    BY <1>3 DEF Continue, Become
  <2> HIDE DEF x
  <2> QED BY <1>3, <2>1, <2>2
<1>4. CASE todo = {} /\ then = "return"
  BY <1>4 DEF Continue, Return, Become
<1> QED BY <1>2, <1>3, <1>4

\* The seeders of a request that makes no session.
LEMMA OtherContinues ==
  ASSUME SetupInv, Grow, SetupTables', NEW p \in Handlers, h[p].req.op # "instantiate",
         h[p].pc # "activate",
         NEW loop \in {"channel", "phase"}, NEW todo,
         loop = "phase" => Keys(todo) \subseteq PresetKeys,
         Continue(p, loop, todo, h[p].then)
  PROVE  SetupInv'
<1>1. PICK l : l = h[p] /\ Steady(l) /\ Informed(l)
  BY DEF SetupInv
<1>2. PICK x : /\ h' = [h EXCEPT ![p] = x]
               /\ \/ x = Idle
                  \/ /\ Kept(x, l) /\ x.todo = todo
                     /\ \/ todo # {} /\ x.pc = loop /\ x.then = l.then
                        \/ todo = {} /\ l.then # "return" /\ x.pc = l.then /\ x.then = l.then
  BY <1>1, Continues
<1>3. l.req.op # "instantiate" /\ l.then \in Onward
  BY <1>1 DEF Steady
<1>4. CASE x # Idle
  <2>1. Steady(x)
    BY <1>1, <1>2, <1>3, <1>4 DEF Steady, Kept, Onward, Making
  <2>2. Informed(x)
    BY <1>1, <1>2, <1>3, <1>4 DEF Informed, Kept, Onward
  <2>3. Informed(x)'
    BY <2>2, Grown
  <2> QED BY <1>1, <1>2, <1>4, <2>1, <2>3, Advances
<1> QED BY <1>2, <1>4, Advances
----------------------------------------------------------------------------
(* The request that makes a session *)

\* Where a maker is, all it did stands.
LEMMA MakerAt ==
  ASSUME SetupInv, NEW p \in Handlers,
         h[p].pc \in Making \ {"channel", "phase"} \/ h[p].req.op = "instantiate"
  PROVE  /\ h[p].req.op = "instantiate" /\ h[p].pc \in Making /\ Building(h[p])
         /\ DOMAIN h[p] = Fields /\ DOMAIN h[p].row = RowFields
BY DEF SetupInv, Steady, Informed

LEMMA MakerStays ==
  ASSUME SetupInv, Grow, SetupTables', NEW p \in Handlers, h[p].req.op = "instantiate", NEW x,
         h' = [h EXCEPT ![p] = x], Kept(x, h[p]), x.pc \in Making,
         x.pc = "phase" => Keys(x.todo) \subseteq PresetKeys, Building(x)'
  PROVE  SetupInv'
<1>1. PICK l : l = h[p] /\ l.req.op = "instantiate" /\ DOMAIN l = Fields /\ DOMAIN l.row = RowFields
  BY MakerAt
<1>2. x.req.op = "instantiate" /\ DOMAIN x.row = RowFields /\ Kept(x, l)
  BY <1>1 DEF Kept
<1>3. Steady(x)
  BY <1>2 DEF Steady, Kept, Making
<1>4. Informed(x)'
  BY <1>2 DEF Informed
<1> QED BY <1>3, <1>4, Advances

LEMMA Instantiates ==
  ASSUME SetupInv, NEW p \in Handlers, NEW r \in Requests, NEW s \in Sessions, Instantiate(p, r, s)
  PROVE  SetupInv'
<1>1. PICK row : /\ row = [Session(IF r.lead THEN "active" ELSE "draft") EXCEPT !.template = r.template]
                 /\ row.status # "absent"
  <2> DEFINE first == IF r.lead THEN "active" ELSE "draft"
             row == [Session(first) EXCEPT !.template = r.template]
  <2>1. row.status = first /\ first # "absent"
    BY DEF Session
  <2>2. row = [Session(IF r.lead THEN "active" ELSE "draft") EXCEPT !.template = r.template]
    OBVIOUS
  <2> HIDE DEF row, first
  <2> QED BY <2>1, <2>2
<1>2. row # NoSession /\ DOMAIN row = RowFields
  BY <1>1 DEF NoSession, Session, RowFields
<1>3. PICK x : /\ h' = [h EXCEPT ![p] = x]
               /\ DOMAIN x = Fields /\ x.pc = "seedChannels" /\ x.session = s /\ x.row = row /\ x.req = r
  <2> DEFINE local == [Idle EXCEPT !.pc = "seedChannels", !.session = s, !.row = row, !.now = clock']
             x == [local EXCEPT !.req = r, !.n = requests + 1]
  <2>1. DOMAIN x = Fields /\ x.pc = "seedChannels" /\ x.session = s /\ x.row = row /\ x.req = r
    BY IdleSteady DEF Fields
  <2>2. h' = [h EXCEPT ![p] = x]
    BY <1>1 DEF Instantiate, Begin, Become
  <2> HIDE DEF x
  <2> QED BY <2>1, <2>2
<1>4. /\ sessions' = [sessions EXCEPT ![s] = row]
      /\ r.op = "instantiate" /\ r.template \in Templates /\ ~Exists(s)
      /\ UNCHANGED <<channels, phases, rules, templates, applied>>
  <2>1. r.template \in Templates
    BY DEF Instantiate, Catalog, Templates, SetupInv, SetupTables
  <2>2. UNCHANGED applied
    BY DEF Instantiate, Begin
  <2> QED BY <1>1, <2>1, <2>2 DEF Instantiate, InsertSession
<1>5. applied[s] = None
  BY <1>4 DEF SetupInv, SetupTables
<1>6. DOMAIN sessions = Sessions
  BY DEF SetupInv, SetupTables
<1>7. Grow
  BY <1>2, <1>4, <1>6 DEF Grow, Exists
<1>8. SetupTables'
  <2>1. \A q \in Sessions :
          /\ DOMAIN sessions'[q] = RowFields
          /\ Exists(q)' => sessions'[q].status # "absent"
          /\ Keys(phases'[q]) \subseteq PresetKeys
          /\ applied[q] # None => sessions'[q].active \in PresetKeys
    BY <1>1, <1>2, <1>4, <1>5, <1>6 DEF SetupInv, SetupTables, Whole, Exists
  <2>2. DOMAIN channels' = Sessions /\ DOMAIN phases' = Sessions /\ DOMAIN rules' = Sessions
        /\ DOMAIN sessions' = Sessions /\ DOMAIN h' = Handlers /\ templates' \subseteq DOMAIN Custom
    BY <1>3, <1>4 DEF SetupInv, SetupTables
  <2> QED BY <1>7, <2>1, <2>2, TablesGrow
<1>9. Steady(x)
  BY <1>2, <1>3, <1>4 DEF Steady, Making
<1>10. Informed(x)'
  <2>1. Exists(s)'
    BY <1>2, <1>4, <1>6 DEF Exists
  <2>2. Building(x)'
    BY <1>1, <1>3, <1>4, <1>5, <2>1 DEF Building, Exists
  <2> QED BY <1>3, <1>4, <2>2 DEF Informed
<1>11. \A q \in Handlers \ {p} : x.req.op = "instantiate" /\ h[q].req.op = "instantiate"
                                 => x.session # h[q].session
  BY <1>3, <1>4, MakerAt DEF Building
<1> QED BY <1>3, <1>7, <1>8, <1>9, <1>10, <1>11, OneStep

LEMMA KeysMissing ==
  ASSUME NEW p \in Handlers, NEW places
  PROVE  Keys(MissingPhases(p, places)) = PresetKeys \ Keys(phases[h[p].session])
<1> DEFINE wanted == PresetKeys \ Keys(phases[h[p].session])
           row(k) == [key |-> k, order |-> 10 * places[k]]
<1>1. \A k \in wanted : row(k).key = k
  OBVIOUS
<1>2. MissingPhases(p, places) = {row(k) : k \in wanted}
  BY DEF MissingPhases
<1> HIDE DEF row, wanted
<1>3. Keys(MissingPhases(p, places)) = wanted
  BY <1>1, <1>2 DEF Keys
<1> QED BY <1>3 DEF wanted

LEMMA ChannelsSought ==
  ASSUME SetupInv, NEW p \in Handlers, SeedChannels(p), UNCHANGED deskVars
  PROVE  SetupInv'
<1>1. PICK l : /\ l = h[p] /\ l.pc = "seedChannels" /\ l.req.op = "instantiate" /\ Building(l)
  BY MakerAt DEF SeedChannels, At, Making
<1> DEFINE s == l.session
           t == l.req.template
           todo == {c \in ResolveChannels(t) : c.key \notin Keys(channels[s])}
<1>2. UNCHANGED <<setupVars, applied>> /\ Continue(p, "channel", todo, "seedPhases")
  BY <1>1 DEF SeedChannels, MissingChannels, ghosts
<1>3. SeedsChannels(s, t, todo)
  BY DEF SeedsChannels, Keys
<1> HIDE DEF todo
<1>4. PICK x : /\ h' = [h EXCEPT ![p] = x]
               /\ \/ x = Idle
                  \/ /\ Kept(x, l) /\ x.todo = todo
                     /\ \/ todo # {} /\ x.pc = "channel" /\ x.then = "seedPhases"
                        \/ todo = {} /\ x.pc = "seedPhases"
  BY <1>1, <1>2, Continues
<1>5. Grow /\ SetupTables'
  BY <1>2, <1>4, TablesStay DEF SetupInv, SetupTables
<1>6. CASE x # Idle
  <2>1. Building(x)
    BY <1>1, <1>3, <1>4, <1>6 DEF Building, Kept, Making
  <2>2. Building(x)'
    BY <2>1, <1>5 DEF Building, Grow, SeedsChannels, SeedsPhases, SeedsRules
  <2> QED BY <1>1, <1>4, <1>5, <1>6, <2>2, MakerStays DEF Making
<1> QED BY <1>4, <1>5, <1>6, Advances

LEMMA PhasesSought ==
  ASSUME SetupInv, NEW p \in Handlers, SeedPhases(p), UNCHANGED deskVars
  PROVE  SetupInv'
<1>1. PICK l : /\ l = h[p] /\ l.pc = "seedPhases" /\ l.req.op = "instantiate" /\ Building(l)
  BY MakerAt DEF SeedPhases, At, Making
<1> DEFINE s == l.session
           t == l.req.template
           todo == MissingPhases(p, ResolvePhaseOrder(t))
<1>2. UNCHANGED <<setupVars, applied>> /\ Continue(p, "phase", todo, "seedRules")
  BY <1>1 DEF SeedPhases, ghosts
<1>3. Keys(todo) = PresetKeys \ Keys(phases[s])
  BY <1>1, KeysMissing
<1> HIDE DEF todo
<1>4. PICK x : /\ h' = [h EXCEPT ![p] = x]
               /\ \/ x = Idle
                  \/ /\ Kept(x, l) /\ x.todo = todo
                     /\ \/ todo # {} /\ x.pc = "phase" /\ x.then = "seedRules"
                        \/ todo = {} /\ x.pc = "seedRules"
  BY <1>1, <1>2, Continues
<1>5. Grow /\ SetupTables'
  BY <1>2, <1>4, TablesStay DEF SetupInv, SetupTables
<1>6. CASE x # Idle
  <2>1. Building(x)
    BY <1>1, <1>3, <1>4, <1>6 DEF Building, Kept, Making, SeedsPhases
  <2>2. Building(x)'
    BY <2>1, <1>5 DEF Building, Grow, SeedsChannels, SeedsPhases, SeedsRules
  <2>3. x.pc = "phase" => Keys(x.todo) \subseteq PresetKeys
    BY <1>3, <1>4, <1>6
  <2> QED BY <1>1, <1>4, <1>5, <1>6, <2>2, <2>3, MakerStays DEF Making
<1> QED BY <1>4, <1>5, <1>6, Advances

LEMMA RulesSought ==
  ASSUME SetupInv, NEW p \in Handlers, SeedRules(p), UNCHANGED deskVars
  PROVE  SetupInv'
<1>1. PICK l : /\ l = h[p] /\ l.pc = "seedRules" /\ l.req.op = "instantiate" /\ Building(l)
  BY MakerAt DEF SeedRules, At, Making
<1> DEFINE s == l.session
           t == l.req.template
           todo == Definition(t).rules \ rules[s]
<1>2. UNCHANGED <<setupVars, applied>> /\ Continue(p, "rule", todo, "finish")
  BY <1>1 DEF SeedRules, ghosts
<1>3. SeedsRules(s, t, todo)
  BY DEF SeedsRules
<1> HIDE DEF todo
<1>4. PICK x : /\ h' = [h EXCEPT ![p] = x]
               /\ \/ x = Idle
                  \/ /\ Kept(x, l) /\ x.todo = todo
                     /\ \/ todo # {} /\ x.pc = "rule" /\ x.then = "finish"
                        \/ todo = {} /\ x.pc = "finish"
  BY <1>1, <1>2, Continues
<1>5. Grow /\ SetupTables'
  BY <1>2, <1>4, TablesStay DEF SetupInv, SetupTables
<1>6. CASE x # Idle
  <2>1. Building(x)
    BY <1>1, <1>3, <1>4, <1>6 DEF Building, Kept, Making
  <2>2. Building(x)'
    BY <2>1, <1>5 DEF Building, Grow, SeedsChannels, SeedsPhases, SeedsRules
  <2> QED BY <1>1, <1>4, <1>5, <1>6, <2>2, MakerStays DEF Making
<1> QED BY <1>4, <1>5, <1>6, Advances

LEMMA RuleSeeded ==
  ASSUME SetupInv, NEW p \in Handlers, SeedRule(p), UNCHANGED deskVars
  PROVE  SetupInv'
<1>1. PICK l : /\ l = h[p] /\ l.pc = "rule" /\ l.req.op = "instantiate" /\ Building(l)
  BY MakerAt DEF SeedRule, At, Making
<1>2. PICK name \in l.todo : /\ InsertRule(l.session, name)
                             /\ Continue(p, "rule", l.todo \ {name}, l.then)
  BY <1>1 DEF SeedRule, Others
<1> DEFINE s == l.session
           t == l.req.template
           todo == l.todo \ {name}
<1>3. l.then = "finish" /\ s \in Sessions
  BY <1>1 DEF Building
<1>4. UNCHANGED <<sessions, channels, phases, templates, applied>>
  BY DEF SeedRule, ghosts
<1>5. PICK x : /\ h' = [h EXCEPT ![p] = x]
               /\ \/ x = Idle
                  \/ /\ Kept(x, l) /\ x.todo = todo
                     /\ \/ todo # {} /\ x.pc = "rule" /\ x.then = "finish"
                        \/ todo = {} /\ x.pc = "finish"
  <2> HIDE DEF todo
  <2> QED BY <1>1, <1>2, <1>3, Continues DEF todo
<1>6. rules' = [rules EXCEPT ![s] = @ \union {name}] /\ DOMAIN rules = Sessions
  BY <1>2 DEF InsertRule, SetupInv, SetupTables
<1>7. Grow
  BY <1>4, <1>6 DEF Grow, Exists
<1>8. SetupTables'
  <2>1. \A q \in Sessions :
          /\ DOMAIN sessions'[q] = RowFields
          /\ Exists(q)' => sessions'[q].status # "absent"
          /\ Keys(phases'[q]) \subseteq PresetKeys
          /\ applied[q] # None => sessions'[q].active \in PresetKeys
    BY <1>4 DEF SetupInv, SetupTables, Whole, Exists
  <2>2. DOMAIN channels' = Sessions /\ DOMAIN phases' = Sessions /\ DOMAIN rules' = Sessions
        /\ DOMAIN sessions' = Sessions /\ DOMAIN h' = Handlers /\ templates' \subseteq DOMAIN Custom
    BY <1>4, <1>5, <1>6 DEF SetupInv, SetupTables
  <2> QED BY <1>7, <2>1, <2>2, TablesGrow
<1>9. SeedsRules(s, t, l.todo)
  BY <1>1 DEF Building
<1>10. SeedsRules(s, t, todo)'
  BY <1>3, <1>6, <1>9 DEF SeedsRules
<1> HIDE DEF todo
<1>11. CASE x # Idle
  <2>1. Building(l)'
    BY <1>1, <1>7 DEF Building, Grow, SeedsChannels, SeedsPhases, SeedsRules
  <2>2. Building(x)'
    BY <1>1, <1>5, <1>10, <1>11, <2>1 DEF Building, Kept, Making
  <2> QED BY <1>1, <1>5, <1>7, <1>8, <1>11, <2>2, MakerStays DEF Making
<1> QED BY <1>5, <1>7, <1>8, <1>11, Advances

\* The session gets its active phase, and the request is answered: nobody else
\* makes this session, and what it promises is there.
LEMMA SessionFinished ==
  ASSUME SetupInv, NEW p \in Handlers, FinishSession(p), UNCHANGED deskVars
  PROVE  SetupInv'
<1>1. PICK l : /\ l = h[p] /\ l.pc = "finish" /\ l.req.op = "instantiate" /\ Building(l)
               /\ DOMAIN l.row = RowFields
  BY MakerAt DEF FinishSession, At, Making
<1>2. PICK s, t, row :
        /\ s = l.session /\ t = l.req.template /\ row = [l.row EXCEPT !.active = ResolveActive(t)]
  OBVIOUS
<1>3. /\ s \in Sessions /\ t \in Templates /\ SeedsChannels(s, t, {}) /\ SeedsPhases(s, {})
      /\ SeedsRules(s, t, {}) /\ l.row.status # "absent"
  BY <1>1, <1>2 DEF Building, Making
<1>4. DOMAIN row = RowFields /\ row.status # "absent" /\ row.active \in PresetKeys
  BY <1>1, <1>2, <1>3, ActiveIsPreset DEF RowFields
<1>5. row # NoSession
  BY <1>4 DEF NoSession, Session
<1>6. /\ sessions' = [sessions EXCEPT ![s] = row] /\ applied' = [applied EXCEPT ![s] = t]
      /\ h' = [h EXCEPT ![p] = Idle] /\ UNCHANGED <<channels, phases, rules, templates>>
  BY <1>1, <1>2 DEF FinishSession, UpdateSession, Return, Become
<1>7. /\ DOMAIN sessions = Sessions /\ DOMAIN applied = Sessions /\ DOMAIN h = Handlers
      /\ DOMAIN channels = Sessions /\ DOMAIN phases = Sessions /\ DOMAIN rules = Sessions
      /\ templates \subseteq DOMAIN Custom
  BY DEF SetupInv, SetupTables
<1>8. \A q \in Sessions : Exists(q) => Exists(q)'
  BY <1>5, <1>6, <1>7 DEF Exists
<1>9. Exists(s)' /\ Whole(s, t)'
  BY <1>3, <1>4, <1>5, <1>6, <1>7 DEF Exists, Whole, SeedsChannels, SeedsPhases, SeedsRules
<1>10. ASSUME NEW q \in Sessions, applied'[q] # None PROVE Exists(q)' /\ Whole(q, applied[q])'
  <2>1. CASE q = s
    <3>1. applied'[q] = t
      BY <1>6, <1>7, <2>1
    <3> QED BY <1>9, <2>1, <3>1 DEF Whole, SeedsChannels, SeedsPhases, SeedsRules, Exists
  <2>2. CASE q # s
    <3>1. PICK u : u = applied[q] /\ applied'[q] = u
      BY <1>6, <1>7, <2>2
    <3>2. Exists(q) /\ Whole(q, u)
      BY <1>10, <3>1 DEF SetupInv, SetupTables
    <3>3. Whole(q, u)'
      BY <1>6, <1>7, <2>2, <3>2 DEF Whole, SeedsChannels, SeedsPhases, SeedsRules
    <3> QED BY <1>8, <3>1, <3>2, <3>3 DEF Whole, SeedsChannels, SeedsPhases, SeedsRules
  <2> QED BY <2>1, <2>2
<1>11. SetupTables'
  <2>1. \A q \in Sessions : /\ DOMAIN sessions'[q] = RowFields
                            /\ Exists(q)' => sessions'[q].status # "absent"
                            /\ Keys(phases'[q]) \subseteq PresetKeys
    BY <1>4, <1>6, <1>7 DEF SetupInv, SetupTables, Exists
  <2>2. DOMAIN sessions' = Sessions /\ DOMAIN applied' = Sessions /\ DOMAIN h' = Handlers
    BY <1>6, <1>7
  <2> QED BY <1>6, <1>7, <1>10, <2>1, <2>2 DEF SetupTables
<1>12. ASSUME NEW q \in Handlers PROVE (Steady(h[q]) /\ Informed(h[q]))'
  <2>1. CASE q = p
    <3>1. h'[q] = Idle
      BY <1>6, <1>7, <2>1
    <3> QED BY <3>1, IdleSteady DEF Steady, Informed
  <2>2. CASE q # p
    <3>1. PICK k : k = h[q] /\ k = h'[q] /\ Steady(k) /\ Informed(k)
      BY <1>6, <1>7, <2>2 DEF SetupInv
    <3>2. k.req.op = "instantiate" => k.session # s
      BY <1>1, <1>2, <2>2, <3>1 DEF SetupInv, OneMaker
    <3>3. Building(k) /\ k.session # s => Building(k)'
      BY <1>6, <1>7, <1>8 DEF Building, SeedsChannels, SeedsPhases, SeedsRules
    <3>4. Informed(k)'
      <4>1. k.req.op = "instantiate" => Building(k)'
        BY <3>1, <3>2, <3>3 DEF Informed
      <4>2. k.req.op \in {"activate", "activate_phase"} =>
              /\ k.session \in Sessions /\ Exists(k.session)'
              /\ k.pc = "activate" => k.row.status # "absent" /\ k.req.phase \in Keys(phases'[k.session])
        BY <1>6, <1>8, <3>1 DEF Informed
      <4> QED BY <4>1, <4>2 DEF Informed
    <3> QED BY <3>1, <3>4 DEF Steady, Informed, Building, SeedsChannels, SeedsPhases, SeedsRules, Exists
  <2> QED BY <2>1, <2>2
<1>13. OneMaker'
  BY <1>6, <1>7, IdleSteady DEF SetupInv, OneMaker
<1> QED BY <1>11, <1>12, <1>13 DEF SetupInv

----------------------------------------------------------------------------
(* The rows two requests compete for *)

LEMMA ChannelSeeded ==
  ASSUME SetupInv, NEW p \in Handlers, SeedChannel(p), UNCHANGED deskVars
  PROVE  SetupInv'
<1>1. PICK l : l = h[p] /\ l.pc = "channel"
  BY DEF SeedChannel, At
<1>2. PICK row \in l.todo :
        \/ Return(p) /\ UNCHANGED channels
        \/ /\ InsertChannelRow(l.session, row)
           /\ Continue(p, "channel", l.todo \ {row}, l.then)
  BY <1>1 DEF SeedChannel, Others
<1>3. UNCHANGED <<sessions, phases, rules, templates, applied>>
  BY DEF SeedChannel, ghosts
<1>4. CASE Return(p) /\ UNCHANGED channels
  <2>1. DOMAIN h' = Handlers
    BY <1>4 DEF Return, Become, SetupInv, SetupTables
  <2> QED BY <1>3, <1>4, <2>1, TablesStay, Answers DEF setupVars
<1>5. CASE InsertChannelRow(l.session, row) /\ Continue(p, "channel", l.todo \ {row}, l.then)
  <2>1. PICK todo : todo = l.todo \ {row}
    OBVIOUS
  <2>2. PICK x : /\ h' = [h EXCEPT ![p] = x]
                 /\ \/ x = Idle
                    \/ /\ Kept(x, l) /\ x.todo = todo
                       /\ \/ todo # {} /\ x.pc = "channel" /\ x.then = l.then
                          \/ todo = {} /\ l.then # "return" /\ x.pc = l.then /\ x.then = l.then
    BY <1>1, <1>5, <2>1, Continues
  <2>3. channels' = [channels EXCEPT ![l.session] = @ \union {row}] /\ DOMAIN channels = Sessions
    BY <1>5 DEF InsertChannelRow, SetupInv, SetupTables
  <2>4. \A s \in Sessions : /\ Keys(channels[s]) \subseteq Keys(channels'[s])
                            /\ s = l.session => row.key \in Keys(channels'[s])
    BY <2>3 DEF Keys
  <2>5. Grow
    BY <1>3, <2>4 DEF Grow, Exists
  <2>6. SetupTables'
    <3>1. \A q \in Sessions :
            /\ DOMAIN sessions'[q] = RowFields
            /\ Exists(q)' => sessions'[q].status # "absent"
            /\ Keys(phases'[q]) \subseteq PresetKeys
            /\ applied[q] # None => sessions'[q].active \in PresetKeys
      BY <1>3 DEF SetupInv, SetupTables, Whole, Exists
    <3>2. DOMAIN channels' = Sessions /\ DOMAIN phases' = Sessions /\ DOMAIN rules' = Sessions
          /\ DOMAIN sessions' = Sessions /\ DOMAIN h' = Handlers /\ templates' \subseteq DOMAIN Custom
      BY <1>3, <2>2, <2>3 DEF SetupInv, SetupTables
    <3> QED BY <2>5, <3>1, <3>2, TablesGrow
  <2>7. CASE l.req.op # "instantiate"
    BY <1>1, <1>5, <2>1, <2>5, <2>6, <2>7, OtherContinues
  <2>8. CASE l.req.op = "instantiate" /\ x # Idle
    <3>1. Building(l) /\ l.then = "seedPhases" /\ SeedsChannels(l.session, l.req.template, l.todo)
      BY <1>1, <2>8, MakerAt DEF Building
    <3>2. Keys(l.todo) = Keys(todo) \union {row.key}
      BY <2>1, KeysRest
    <3>3. SeedsChannels(l.session, l.req.template, todo)'
      BY <2>4, <3>1, <3>2 DEF SeedsChannels, Building
    <3>4. l.session \in Sessions /\ Exists(l.session)' /\ applied'[l.session] = None
      BY <1>3, <2>5, <3>1 DEF Building, Grow
    <3>5. Building(x)'
      BY <2>2, <2>8, <3>1, <3>3, <3>4 DEF Building, Kept, Making, Exists
    <3>6. x.pc \in {"channel", "seedPhases"} /\ Kept(x, l)
      BY <2>2, <2>8, <3>1
    <3> QED BY <1>1, <2>2, <2>5, <2>6, <2>8, <3>5, <3>6, MakerStays DEF Making
  <2> QED BY <2>2, <2>5, <2>6, <2>7, <2>8, Advances
<1> QED BY <1>2, <1>4, <1>5

LEMMA PhaseSeeded ==
  ASSUME SetupInv, NEW p \in Handlers, SeedPhase(p), UNCHANGED deskVars
  PROVE  SetupInv'
<1>1. PICK l : l = h[p] /\ l.pc = "phase" /\ Keys(l.todo) \subseteq PresetKeys
  BY DEF SeedPhase, At, SetupInv, Steady
<1>2. PICK row, at :
        /\ row \in l.todo
        /\ \/ Return(p) /\ UNCHANGED phases
           \/ /\ InsertPhaseRow(l.session, [key |-> row.key, order |-> row.order, at |-> at])
              /\ Continue(p, "phase", l.todo \ {row}, l.then)
  BY <1>1 DEF SeedPhase, Others
<1>3. UNCHANGED <<sessions, channels, rules, templates, applied>>
  BY DEF SeedPhase, ghosts
<1>4. CASE Return(p) /\ UNCHANGED phases
  <2>1. DOMAIN h' = Handlers
    BY <1>4 DEF Return, Become, SetupInv, SetupTables
  <2> QED BY <1>3, <1>4, <2>1, TablesStay, Answers DEF setupVars
<1>5. CASE /\ InsertPhaseRow(l.session, [key |-> row.key, order |-> row.order, at |-> at])
           /\ Continue(p, "phase", l.todo \ {row}, l.then)
  <2>1. PICK todo, new : /\ todo = l.todo \ {row}
                         /\ new = [key |-> row.key, order |-> row.order, at |-> at]
    OBVIOUS
  <2>2. PICK x : /\ h' = [h EXCEPT ![p] = x]
                 /\ \/ x = Idle
                    \/ /\ Kept(x, l) /\ x.todo = todo
                       /\ \/ todo # {} /\ x.pc = "phase" /\ x.then = l.then
                          \/ todo = {} /\ l.then # "return" /\ x.pc = l.then /\ x.then = l.then
    BY <1>1, <1>5, <2>1, Continues
  <2>3. phases' = [phases EXCEPT ![l.session] = @ \union {new}] /\ DOMAIN phases = Sessions
    BY <1>5, <2>1 DEF InsertPhaseRow, SetupInv, SetupTables
  <2>0. new.key = row.key /\ Keys(l.todo) = Keys(todo) \union {row.key}
    BY <1>2, <2>1, KeysRest
  <2>4. \A s \in Sessions : Keys(phases'[s]) = Keys(phases[s]) \union (IF s = l.session THEN {row.key} ELSE {})
    BY <2>0, <2>3, KeysGrow
  <2>5. Grow
    BY <1>3, <2>4 DEF Grow, Exists
  <2>6. SetupTables'
    <3>1. \A q \in Sessions :
            /\ DOMAIN sessions'[q] = RowFields
            /\ Exists(q)' => sessions'[q].status # "absent"
            /\ applied[q] # None => sessions'[q].active \in PresetKeys
      BY <1>3 DEF SetupInv, SetupTables, Whole, Exists
    <3>2. \A q \in Sessions : Keys(phases'[q]) \subseteq PresetKeys
      BY <1>1, <2>0, <2>4 DEF SetupInv, SetupTables
    <3>3. DOMAIN channels' = Sessions /\ DOMAIN phases' = Sessions /\ DOMAIN rules' = Sessions
          /\ DOMAIN sessions' = Sessions /\ DOMAIN h' = Handlers /\ templates' \subseteq DOMAIN Custom
      BY <1>3, <2>2, <2>3 DEF SetupInv, SetupTables
    <3> QED BY <2>5, <3>1, <3>2, <3>3, TablesGrow
  <2>7. CASE l.req.op # "instantiate"
    BY <1>1, <1>5, <2>0, <2>1, <2>5, <2>6, <2>7, OtherContinues
  <2>8. CASE l.req.op = "instantiate" /\ x # Idle
    <3>1. Building(l) /\ l.then = "seedRules" /\ SeedsPhases(l.session, l.todo)
      BY <1>1, <2>8, MakerAt DEF Building, Making
    <3>2. SeedsChannels(l.session, l.req.template, {})
      BY <1>1, <3>1 DEF Building, Making
    <3>3. SeedsPhases(l.session, todo)'
      BY <2>0, <2>4, <3>1 DEF SeedsPhases, Building
    <3>4. l.session \in Sessions /\ Exists(l.session)' /\ applied'[l.session] = None
          /\ SeedsChannels(l.session, l.req.template, {})'
      BY <1>3, <2>5, <3>1, <3>2 DEF Building, Grow, SeedsChannels
    <3>5. Building(x)'
      BY <2>2, <2>8, <3>1, <3>3, <3>4 DEF Building, Kept, Making, Exists
    <3>6. x.pc \in {"phase", "seedRules"} /\ Kept(x, l) /\ Keys(x.todo) \subseteq PresetKeys
      BY <1>1, <2>0, <2>2, <2>8, <3>1
    <3> QED BY <1>1, <2>2, <2>5, <2>6, <2>8, <3>5, <3>6, MakerStays DEF Making
  <2> QED BY <2>2, <2>5, <2>6, <2>7, <2>8, Advances
<1> QED BY <1>2, <1>4, <1>5
----------------------------------------------------------------------------
(* The other requests *)

LEMMA SetupBeginsKeep ==
  ASSUME SetupInv, NEW p \in Handlers, SetupBegins(p), UNCHANGED deskVars
  PROVE  SetupInv'
<1>1. PICK r \in Requests :
        \/ CreateTemplate(p, r) \/ \E s \in Sessions : Instantiate(p, r, s)
        \/ ListChannels(p, r) \/ CreateChannel(p, r) \/ ListPhases(p, r) \/ Activate(p, r)
  BY DEF SetupBegins
<1> DEFINE Whose(local) == /\ DOMAIN local = Fields /\ DOMAIN local.row = RowFields /\ local.then \in Onward
                           /\ local.pc \in {"template", "ensureChannels", "listPhases", "ensurePhases"}
<1>2. ASSUME NEW local, Whose(local), Begin(p, r, local), UNCHANGED setupVars,
             r.op # "instantiate", local.pc = "template" => r.template \in DOMAIN Custom,
             r.op \in {"activate", "activate_phase"} => local.session \in Sessions /\ Exists(local.session)
      PROVE  SetupInv'
  <2> DEFINE x == [local EXCEPT !.req = r, !.n = requests + 1]
  <2>1. /\ DOMAIN x = Fields /\ x.row = local.row /\ x.then = local.then /\ x.pc = local.pc
        /\ x.req = r /\ x.session = local.session
    BY <1>2 DEF Fields
  <2>2. h' = [h EXCEPT ![p] = x] /\ UNCHANGED applied
    BY <1>2 DEF Begin, Become
  <2> HIDE DEF x
  <2>3. x.pc \notin Making \union {"activate"}
    BY <1>2, <2>1 DEF Making
  <2> QED BY <1>2, <2>1, <2>2, <2>3, Apart
<1>3. CASE CreateTemplate(p, r)
  <2>1. Whose([Idle EXCEPT !.pc = "template"])
    BY IdleSteady DEF Fields, Onward
  <2>2. r.op = "template" /\ r.template \in DOMAIN Custom
    BY <1>3, RequestsAssumption DEF CreateTemplate
  <2> QED BY <1>2, <1>3, <2>1, <2>2 DEF CreateTemplate
<1>4. ASSUME NEW s \in Sessions, Instantiate(p, r, s) PROVE SetupInv'
  BY <1>4, Instantiates
<1>5. CASE ListChannels(p, r)
  <2>1. Whose([Idle EXCEPT !.pc = "ensureChannels", !.session = r.session])
        /\ [Idle EXCEPT !.pc = "ensureChannels", !.session = r.session].pc = "ensureChannels"
    BY IdleSteady DEF Fields, Onward
  <2> QED BY <1>2, <1>5, <2>1 DEF ListChannels
<1>6. CASE CreateChannel(p, r)
  <2>1. Whose([Idle EXCEPT !.pc = "ensureChannels", !.session = r.session, !.then = "exists"])
        /\ [Idle EXCEPT !.pc = "ensureChannels", !.session = r.session, !.then = "exists"].pc = "ensureChannels"
    BY IdleSteady DEF Fields, Onward
  <2> QED BY <1>2, <1>6, <2>1 DEF CreateChannel
<1>7. CASE ListPhases(p, r)
  <2>1. Whose([Idle EXCEPT !.pc = "listPhases", !.session = r.session])
        /\ [Idle EXCEPT !.pc = "listPhases", !.session = r.session].pc = "listPhases"
    BY IdleSteady DEF Fields, Onward
  <2> QED BY <1>2, <1>7, <2>1 DEF ListPhases
<1>8. CASE Activate(p, r)
  <2> DEFINE local == [Idle EXCEPT !.pc = "ensurePhases", !.session = r.session, !.then = "target"]
  <2>1. Whose(local) /\ local.pc = "ensurePhases" /\ local.session = r.session
    BY IdleSteady DEF Fields, Onward
  <2>2. r.op = "activate" /\ r.session \in Sessions /\ Exists(r.session)
    BY <1>8, RequestsAssumption DEF Activate
  <2>3. Begin(p, r, local) /\ UNCHANGED setupVars
    BY <1>8 DEF Activate
  <2> HIDE DEF local
  <2> QED BY <1>2, <2>1, <2>2, <2>3
<1> QED BY <1>1, <1>3, <1>4, <1>5, <1>6, <1>7, <1>8

LEMMA SetupStepsKeep ==
  ASSUME SetupInv, NEW p \in Handlers, SetupSteps(p), UNCHANGED deskVars
  PROVE  SetupInv'
<1>1. PICK l : l = h[p] /\ Steady(l) /\ Informed(l) /\ DOMAIN l = Fields /\ DOMAIN l.row = RowFields
  BY DEF SetupInv, Steady
<1>2. l.pc \in {"template", "ensureChannels", "exists", "listPhases", "ensurePhases"} =>
        l.req.op # "instantiate" /\ l.then \in Onward
  BY <1>1 DEF Steady, Making
<1>3. ASSUME UNCHANGED <<setupVars, applied>>, NEW x, h' = [h EXCEPT ![p] = x] PROVE Grow /\ SetupTables'
  BY <1>3, TablesStay DEF SetupInv, SetupTables
<1>4. CASE StoreTemplate(p)
  <2>1. l.req.template \in DOMAIN Custom /\ templates' = templates \union {l.req.template}
    BY <1>1, <1>4 DEF StoreTemplate, InsertTemplate, At, Steady
  <2>2. UNCHANGED <<sessions, channels, phases, rules, applied>> /\ h' = [h EXCEPT ![p] = Idle]
    BY <1>4 DEF StoreTemplate, Return, Become, ghosts
  <2>3. Grow
    BY <2>2 DEF Grow, Exists
  <2>4. \A q \in Sessions :
          /\ DOMAIN sessions'[q] = RowFields
          /\ Exists(q)' => sessions'[q].status # "absent"
          /\ Keys(phases'[q]) \subseteq PresetKeys
          /\ applied[q] # None => sessions'[q].active \in PresetKeys
    BY <2>2 DEF SetupInv, SetupTables, Whole, Exists
  <2>5. DOMAIN channels' = Sessions /\ DOMAIN phases' = Sessions /\ DOMAIN rules' = Sessions
        /\ DOMAIN sessions' = Sessions /\ DOMAIN h' = Handlers /\ templates' \subseteq DOMAIN Custom
    BY <2>1, <2>2 DEF SetupInv, SetupTables
  <2>6. SetupTables'
    BY <2>3, <2>4, <2>5, TablesGrow
  <2> QED BY <2>2, <2>3, <2>6, Advances
<1>5. CASE EnsureChannels(p)
  <2>1. PICK todo : Continue(p, "channel", todo, l.then)
    BY <1>1, <1>5 DEF EnsureChannels
  <2>2. UNCHANGED <<setupVars, applied>> /\ l.pc = "ensureChannels"
    BY <1>1, <1>5 DEF EnsureChannels, ghosts, At
  <2>3. \E x : h' = [h EXCEPT ![p] = x]
    BY <2>1, Continues
  <2> QED BY <1>1, <1>2, <1>3, <2>1, <2>2, <2>3, OtherContinues
<1>6. CASE EnsurePhases(p)
  <2>1. PICK todo : Continue(p, "phase", todo, l.then) /\ Keys(todo) \subseteq PresetKeys
    BY <1>1, <1>6, KeysMissing DEF EnsurePhases
  <2>2. UNCHANGED <<setupVars, applied>> /\ l.pc = "ensurePhases"
    BY <1>1, <1>6 DEF EnsurePhases, ghosts, At
  <2>3. \E x : h' = [h EXCEPT ![p] = x]
    BY <2>1, Continues
  <2> QED BY <1>1, <1>2, <1>3, <2>1, <2>2, <2>3, OtherContinues
<1>7. CASE CheckChannel(p)
  <2>1. UNCHANGED <<setupVars, applied>> /\ l.pc = "exists"
    BY <1>1, <1>7 DEF CheckChannel, ghosts, At
  <2>2. PICK x, todo : /\ h' = [h EXCEPT ![p] = x]
                       /\ x = Idle \/ x = [l EXCEPT !.pc = "channel", !.then = "return", !.todo = todo]
    BY <1>1, <1>7 DEF CheckChannel, Return, Become
  <2>3. Grow /\ SetupTables'
    BY <1>3, <2>1, <2>2
  <2>4. CASE x # Idle
    <3>1. Kept(x, l) /\ x.pc = "channel" /\ x.then = "return"
      BY <1>1, <2>2, <2>4 DEF Kept, Fields
    <3>2. Steady(x)
      BY <1>1, <1>2, <2>1, <3>1 DEF Steady, Kept, Onward, Making
    <3>3. Informed(x)
      BY <1>1, <1>2, <2>1, <3>1 DEF Informed, Kept
    <3>4. Informed(x)'
      BY <2>3, <3>3, Grown
    <3> QED BY <1>1, <2>2, <2>3, <3>1, <3>2, <3>4, Advances
  <2> QED BY <2>2, <2>3, <2>4, Advances
<1>8. CASE ReadPhases(p)
  <2>1. UNCHANGED <<setupVars, applied>> /\ l.pc = "listPhases"
    BY <1>1, <1>8 DEF ReadPhases, ghosts, At
  <2>2. PICK x : h' = [h EXCEPT ![p] = x] /\ (x = Idle \/ x = [l EXCEPT !.pc = "ensurePhases"])
    BY <1>1, <1>8 DEF ReadPhases, Goto, Return, Become
  <2>3. CASE x # Idle
    <3>1. Kept(x, l) /\ x.pc = "ensurePhases" /\ x.then = l.then
      BY <1>1, <2>2, <2>3 DEF Kept, Fields
    <3>2. x.pc \notin Making \union {"activate", "template"}
      BY <3>1 DEF Making
    <3>3. l.req.op \in {"activate", "activate_phase"} => l.session \in Sessions /\ Exists(l.session)
      BY <1>1 DEF Informed
    <3>4. l.req.op # "instantiate" /\ l.then \in Onward
      BY <1>2, <2>1
    <3>5. h' = [h EXCEPT ![p] = x]
      BY <2>2
    <3>6. /\ DOMAIN x = Fields /\ DOMAIN x.row = RowFields /\ x.then \in Onward
          /\ x.req.op # "instantiate"
      BY <1>1, <3>1, <3>4 DEF Kept
    <3>7. x.req.op \in {"activate", "activate_phase"} => x.session \in Sessions /\ Exists(x.session)
      BY <3>1, <3>3 DEF Kept
    <3> QED BY <2>1, <3>2, <3>5, <3>6, <3>7, Apart
  <2>4. Grow /\ SetupTables'
    BY <1>3, <2>1, <2>2
  <2> QED BY <2>2, <2>3, <2>4, Advances
<1> QED BY <1>4, <1>5, <1>6, <1>7, <1>8, ChannelsSought, PhasesSought, RulesSought, RuleSeeded,
           SessionFinished, ChannelSeeded, PhaseSeeded DEF SetupSteps
----------------------------------------------------------------------------
(* A phase is activated from a row read earlier *)

\* The answer of an activation, or the audit that comes before it.
Ended(x, l) == x = Idle \/ (Kept(x, l) /\ x.then = l.then /\ x.pc = "audit")

LEMMA ActivationKeeps ==
  ASSUME SetupInv, NEW p \in Handlers, NEW ACTION after, TargetPhase(p, after) \/ WritePhase(p, after),
         h[p].req.op \in {"activate", "activate_phase"},
         after => \E x : h' = [h EXCEPT ![p] = x] /\ Ended(x, h[p])
  PROVE  SetupInv'
<1>1. PICK l : l = h[p] /\ Steady(l) /\ Informed(l) /\ DOMAIN l = Fields /\ DOMAIN l.row = RowFields
  BY DEF SetupInv, Steady
<1>2. /\ l.req.op \in {"activate", "activate_phase"} /\ l.req.op # "instantiate" /\ l.then \in Onward
      /\ l.session \in Sessions /\ Exists(l.session)
      /\ l.pc = "activate" => l.row.status # "absent" /\ l.req.phase \in Keys(phases[l.session])
  BY <1>1 DEF Steady, Informed
<1>3. ASSUME NEW x, Ended(x, l), x # Idle PROVE Kept(x, l) /\ Steady(x) /\ Informed(x)
  <2>1. Kept(x, l) /\ x.then = l.then /\ x.pc = "audit"
    BY <1>3 DEF Ended
  <2>2. Steady(x)
    BY <1>1, <1>2, <2>1 DEF Steady, Kept, Making
  <2>3. Informed(x)
    BY <1>2, <2>1 DEF Informed, Kept
  <2> QED BY <2>1, <2>2, <2>3
<1>4. CASE TargetPhase(p, after)
  <2>1. UNCHANGED <<setupVars, applied>>
    BY <1>4 DEF TargetPhase, ghosts
  <2>2. \/ Return(p) \/ after
        \/ /\ Become(p, [l EXCEPT !.pc = "activate", !.row = sessions[l.session]])
           /\ l.req.phase \in Keys(phases[l.session])
    BY <1>1, <1>4 DEF TargetPhase
  <2>3. PICK x : /\ h' = [h EXCEPT ![p] = x]
                 /\ \/ Ended(x, l)
                    \/ /\ x = [l EXCEPT !.pc = "activate", !.row = sessions[l.session]]
                       /\ l.req.phase \in Keys(phases[l.session])
    BY <1>1, <2>2 DEF Return, Become, Ended
  <2>4. Grow /\ SetupTables'
    BY <2>1, <2>3, TablesStay DEF SetupInv, SetupTables
  <2>5. CASE Ended(x, l)
    <3>1. x # Idle => Informed(x)'
      BY <1>3, <2>4, <2>5, Grown
    <3> QED BY <1>1, <1>3, <2>3, <2>4, <2>5, <3>1, Advances
  <2>6. CASE /\ x = [l EXCEPT !.pc = "activate", !.row = sessions[l.session]]
             /\ l.req.phase \in Keys(phases[l.session])
    <3>1. PICK row : row = sessions[l.session] /\ DOMAIN row = RowFields /\ row.status # "absent"
      BY <1>2 DEF SetupInv, SetupTables
    <3>2. /\ DOMAIN x = Fields /\ x.req = l.req /\ x.session = l.session /\ x.row = row
          /\ x.pc = "activate" /\ x.then = l.then
      BY <1>1, <2>6, <3>1 DEF Fields
    <3>3. Steady(x)
      BY <1>2, <3>1, <3>2 DEF Steady, Making
    <3>4. Informed(x)
      BY <1>2, <2>6, <3>1, <3>2 DEF Informed
    <3>5. Informed(x)'
      BY <2>4, <3>4, Grown
    <3>6. \A q \in Handlers \ {p} : x.req.op = "instantiate" /\ h[q].req.op = "instantiate"
                                    => x.session # h[q].session
      BY <1>2, <3>2
    <3> QED BY <2>3, <2>4, <3>3, <3>5, <3>6, OneStep
  <2> QED BY <2>3, <2>5, <2>6
<1>5. CASE WritePhase(p, after)
  <2>1. PICK row : row = [l.row EXCEPT !.active = l.req.phase]
    OBVIOUS
  <2>2. l.pc = "activate" /\ sessions' = [sessions EXCEPT ![l.session] = row]
        /\ UNCHANGED <<channels, phases, rules, templates, applied>>
    BY <1>1, <1>5, <2>1 DEF WritePhase, UpdateSession, At, ghosts
  <2>3. PICK x : h' = [h EXCEPT ![p] = x] /\ Ended(x, l)
    BY <1>1, <1>5 DEF WritePhase
  <2>4. DOMAIN row = RowFields /\ row.status # "absent" /\ row.active \in PresetKeys
    BY <1>1, <1>2, <2>1, <2>2 DEF RowFields, SetupInv, SetupTables
  <2>5. row # NoSession
    BY <2>4 DEF NoSession, Session
  <2>6. DOMAIN sessions = Sessions
    BY DEF SetupInv, SetupTables
  <2>7. Grow
    BY <2>2, <2>5, <2>6 DEF Grow, Exists
  <2>8. SetupTables'
    <3>1. \A q \in Sessions :
            /\ DOMAIN sessions'[q] = RowFields
            /\ Exists(q)' => sessions'[q].status # "absent"
            /\ Keys(phases'[q]) \subseteq PresetKeys
            /\ applied[q] # None => sessions'[q].active \in PresetKeys
      BY <2>2, <2>4, <2>6 DEF SetupInv, SetupTables, Whole, Exists
    <3>2. DOMAIN channels' = Sessions /\ DOMAIN phases' = Sessions /\ DOMAIN rules' = Sessions
          /\ DOMAIN sessions' = Sessions /\ DOMAIN h' = Handlers /\ templates' \subseteq DOMAIN Custom
      BY <2>2, <2>3, <2>6 DEF SetupInv, SetupTables
    <3> QED BY <2>7, <3>1, <3>2, TablesGrow
  <2>9. x # Idle => Informed(x)'
    BY <1>3, <2>3, <2>7, Grown
  <2> QED BY <1>1, <1>3, <2>3, <2>7, <2>8, <2>9, Advances
<1> QED BY <1>4, <1>5

LEMMA SetupActivationKeeps ==
  ASSUME SetupInv, NEW p \in Handlers, SetupActivation(p), UNCHANGED deskVars
  PROVE  SetupInv'
<1> DEFINE answer == Return(p) /\ UNCHANGED clock
<1>1. TargetPhase(p, answer) \/ WritePhase(p, answer)
  BY DEF SetupActivation
<1>2. answer => \E x : h' = [h EXCEPT ![p] = x] /\ Ended(x, h[p])
  BY DEF Return, Become, Ended
<1>3. h[p].req.op \in {"activate", "activate_phase"}
  BY DEF SetupActivation
<1> HIDE DEF answer
<1> QED BY <1>1, <1>2, <1>3, ActivationKeeps
----------------------------------------------------------------------------
(* What operators do leaves what a session is made of alone *)

LEMMA DeskBeginsKeep ==
  ASSUME SetupInv, NEW p \in Handlers, DeskBegins(p)
  PROVE  SetupInv'
<1>1. PICK r \in Requests :
        DecideApproval(p, r) \/ RestartJob(p, r) \/ CancelJob(p, r) \/ ActivatePhase(p, r)
  BY DEF DeskBegins
<1>2. UNCHANGED setupVars /\ r.op \notin {"instantiate", "template", "activate"}
      /\ (r.op # "activate_phase" \/ ActivatePhase(p, r))
  BY <1>1 DEF DecideApproval, RestartJob, CancelJob, ActivatePhase, JobDecisions, Requeued
<1> DEFINE Places == {"idle", "audit", "decide", "requeue", "interrupt", "cancel", "ensurePhases"}
           Whose(local) == /\ DOMAIN local = Fields /\ DOMAIN local.row = RowFields
                           /\ local.then \in Onward /\ local.pc \in Places
                           /\ r.op = "activate_phase" => local.session \in Sessions /\ Exists(local.session)
<1>3. ASSUME NEW local, Whose(local), Begin(p, r, local)
      PROVE  SetupInv'
  <2> DEFINE x == [local EXCEPT !.req = r, !.n = requests + 1]
  <2>1. /\ DOMAIN x = Fields /\ x.row = local.row /\ x.then = local.then /\ x.pc = local.pc
        /\ x.req = r /\ x.session = local.session
    BY <1>3 DEF Fields
  <2>2. h' = [h EXCEPT ![p] = x] /\ UNCHANGED applied
    BY <1>3 DEF Begin, Become
  <2> HIDE DEF x
  <2>3. x.pc \notin Making \union {"activate", "template"}
    BY <1>3, <2>1 DEF Making
  <2> QED BY <1>2, <1>3, <2>1, <2>2, <2>3, Apart
<1>4. ASSUME NEW local, Whose(local), NEW result, Ends(p, r, local, result)
      PROVE  SetupInv'
  <2> DEFINE x == [local EXCEPT !.pc = "audit", !.result = result, !.now = clock']
  <2>1. Whose(x)
    BY <1>4 DEF Fields
  <2>2. Begin(p, r, x)
    BY <1>4 DEF Ends
  <2> HIDE DEF x
  <2> QED BY <2>1, <2>2, <1>3
<1>5. ASSUME NEW local, Whose(local), Proceeds(p, r, local)
      PROVE  SetupInv'
  BY <1>3, <1>5 DEF Proceeds
<1>6. CASE DecideApproval(p, r)
  <2> DEFINE a == approvals[r.approval]
             local == [Idle EXCEPT !.pc = "decide", !.session = jobs[a.job].session, !.job = a.job]
  <2>1. DOMAIN local = Fields /\ local.row = Idle.row /\ local.then = Idle.then /\ local.pc = "decide"
    BY IdleSteady DEF Fields
  <2>2. Ends(p, r, local, "failed") \/ Proceeds(p, r, local)
    BY <1>6 DEF DecideApproval
  <2>3. r.op # "activate_phase"
    BY <1>6 DEF DecideApproval, JobDecisions
  <2> HIDE DEF local
  <2>4. Whose(local)
    BY <2>1, <2>3, IdleSteady DEF Onward
  <2> HIDE DEF Whose
  <2> QED BY <2>2, <2>4, <1>4, <1>5
<1>7. CASE RestartJob(p, r)
  <2> DEFINE local == [Idle EXCEPT !.session = jobs[r.job].session, !.job = r.job]
             next == [local EXCEPT !.pc = "requeue"]
  <2>1. /\ DOMAIN local = Fields /\ local.row = Idle.row /\ local.then = Idle.then /\ local.pc = "idle"
        /\ DOMAIN next = Fields /\ next.row = Idle.row /\ next.then = Idle.then /\ next.pc = "requeue"
    BY IdleSteady DEF Fields
  <2>2. Ends(p, r, local, "duplicate") \/ Ends(p, r, local, "failed") \/ Proceeds(p, r, next)
    BY <1>7 DEF RestartJob
  <2>3. r.op # "activate_phase"
    BY <1>7 DEF RestartJob, Requeued
  <2> HIDE DEF local, next
  <2>4. Whose(local) /\ Whose(next)
    BY <2>1, <2>3, IdleSteady DEF Onward
  <2> HIDE DEF Whose
  <2> QED BY <2>2, <2>4, <1>4, <1>5
<1>8. CASE CancelJob(p, r)
  <2> DEFINE row == jobs[r.job]
             local == [Idle EXCEPT !.session = row.session, !.job = r.job, !.held = Held(row)]
             next(pc) == [local EXCEPT !.pc = pc]
  <2>1. DOMAIN local = Fields /\ local.row = Idle.row /\ local.then = Idle.then /\ local.pc = "idle"
    BY IdleSteady DEF Fields
  <2>2. \A pc : DOMAIN next(pc) = Fields /\ next(pc).row = Idle.row /\ next(pc).then = Idle.then
                /\ next(pc).pc = pc
    BY IdleSteady DEF Fields
  <2>3. \/ Ends(p, r, local, "duplicate") \/ Ends(p, r, local, "failed")
        \/ Proceeds(p, r, next("interrupt")) \/ Proceeds(p, r, next("cancel"))
    BY <1>8 DEF CancelJob
  <2>4. r.op # "activate_phase"
    BY <1>8 DEF CancelJob
  <2> HIDE DEF local, next
  <2>5. Whose(local) /\ Whose(next("interrupt")) /\ Whose(next("cancel"))
    BY <2>1, <2>2, <2>4, IdleSteady DEF Onward
  <2> HIDE DEF Whose
  <2> QED BY <2>3, <2>5, <1>4, <1>5
<1>9. CASE ActivatePhase(p, r)
  <2>1. r.op = "activate_phase" /\ r.session \in Sessions /\ Exists(r.session)
        /\ DOMAIN sessions[r.session] = RowFields
    BY <1>9, RequestsAssumption DEF ActivatePhase, SetupInv, SetupTables
  <2> DEFINE local == [Idle EXCEPT !.session = r.session, !.row = sessions[r.session]]
             next == [local EXCEPT !.pc = "ensurePhases", !.then = "lookup"]
  <2>2. /\ DOMAIN local = Fields /\ local.row = sessions[r.session] /\ local.then = Idle.then
        /\ local.pc = "idle" /\ local.session = r.session
        /\ DOMAIN next = Fields /\ next.row = sessions[r.session] /\ next.then = "lookup"
        /\ next.pc = "ensurePhases" /\ next.session = r.session
    BY IdleSteady DEF Fields
  <2>3. Ends(p, r, local, "failed") \/ Proceeds(p, r, next)
    BY <1>9 DEF ActivatePhase
  <2> HIDE DEF local, next
  <2>4. Whose(local) /\ Whose(next)
    BY <2>1, <2>2, IdleSteady DEF Onward
  <2> HIDE DEF Whose
  <2> QED BY <2>3, <2>4, <1>4, <1>5
<1> QED BY <1>1, <1>6, <1>7, <1>8, <1>9

\* A step of an operator's action goes on to another place of it, or ends it.
LEMMA DeskGoesOn ==
  ASSUME SetupInv, NEW p \in Handlers, NEW x, h' = [h EXCEPT ![p] = x],
         UNCHANGED <<setupVars, applied>>, h[p].pc \notin Making,
         \/ x = Idle
         \/ /\ Kept(x, h[p]) /\ x.then \in {h[p].then, "target"}
            /\ x.pc \notin Making \union {"activate", "template"}
  PROVE  SetupInv'
<1>1. PICK l : l = h[p] /\ Steady(l) /\ Informed(l)
  BY DEF SetupInv
<1>2. l.req.op # "instantiate" /\ l.then \in Onward /\ DOMAIN l.row = RowFields
  BY <1>1 DEF Steady
<1>3. l.req.op \in {"activate", "activate_phase"} => l.session \in Sessions /\ Exists(l.session)
  BY <1>1 DEF Informed
<1>4. CASE x = Idle
  BY <1>4, TablesStay, Advances DEF SetupInv, SetupTables
<1>5. CASE x # Idle
  <2>1. Kept(x, l) /\ x.then \in Onward /\ x.pc \notin Making \union {"activate", "template"}
    BY <1>1, <1>2, <1>5 DEF Onward
  <2> QED BY <1>2, <1>3, <2>1, Apart DEF Kept
<1> QED BY <1>4, <1>5

LEMMA DeskStepsKeep ==
  ASSUME SetupInv, NEW p \in Handlers, DeskSteps(p)
  PROVE  SetupInv'
<1>1. PICK l : l = h[p] /\ DOMAIN l = Fields
  BY DEF SetupInv, Steady
<1> DEFINE Places == {"resolve", "read", "write", "jobEvent", "sessionEvent", "requeued",
                      "schedule", "reread", "cancel", "interrupted", "audit"}
           Goes(x) == h' = [h EXCEPT ![p] = x] /\ (x = Idle \/ (Kept(x, l) /\ x.then = l.then /\ x.pc \in Places))
<1>2. ASSUME NEW pc \in Places, Goto(p, pc) PROVE \E x : Goes(x)
  <2> DEFINE x == [l EXCEPT !.pc = pc]
  <2>1. Kept(x, l) /\ x.then = l.then /\ x.pc = pc
    BY <1>1 DEF Kept, Fields
  <2>2. h' = [h EXCEPT ![p] = x]
    BY <1>1, <1>2 DEF Goto, Become
  <2> HIDE DEF x
  <2> QED BY <2>1, <2>2
<1>3. ASSUME NEW result, Audited(p, h[p], result) PROVE \E x : Goes(x)
  <2> DEFINE x == [l EXCEPT !.pc = "audit", !.result = result, !.now = clock']
  <2>1. Kept(x, l) /\ x.then = l.then /\ x.pc = "audit"
    BY <1>1 DEF Kept, Fields
  <2>2. h' = [h EXCEPT ![p] = x]
    BY <1>1, <1>3 DEF Audited, Become
  <2> HIDE DEF x
  <2> QED BY <2>1, <2>2
<1>4. ASSUME Return(p) PROVE \E x : Goes(x)
  BY <1>4 DEF Return, Become
<1>5. ASSUME NEW pc \in Places, NEW held, NEW now,
             Become(p, [h[p] EXCEPT !.pc = pc, !.held = held, !.now = now])
      PROVE  \E x : Goes(x)
  <2> DEFINE x == [l EXCEPT !.pc = pc, !.held = held, !.now = now]
  <2>1. Kept(x, l) /\ x.then = l.then /\ x.pc = pc
    BY <1>1 DEF Kept, Fields
  <2>2. h' = [h EXCEPT ![p] = x]
    BY <1>1, <1>5 DEF Become
  <2> HIDE DEF x
  <2> QED BY <2>1, <2>2
<1>6. ASSUME NEW pc \in Places, NEW held, Become(p, [h[p] EXCEPT !.pc = pc, !.held = held])
      PROVE  \E x : Goes(x)
  <2> DEFINE x == [l EXCEPT !.pc = pc, !.held = held]
  <2>1. Kept(x, l) /\ x.then = l.then /\ x.pc = pc
    BY <1>1 DEF Kept, Fields
  <2>2. h' = [h EXCEPT ![p] = x]
    BY <1>1, <1>6 DEF Become
  <2> HIDE DEF x
  <2> QED BY <2>1, <2>2
<1>7. ASSUME NEW pc \in Places, NEW now, Become(p, [h[p] EXCEPT !.pc = pc, !.now = now])
      PROVE  \E x : Goes(x)
  <2> DEFINE x == [l EXCEPT !.pc = pc, !.now = now]
  <2>1. Kept(x, l) /\ x.then = l.then /\ x.pc = pc
    BY <1>1 DEF Kept, Fields
  <2>2. h' = [h EXCEPT ![p] = x]
    BY <1>1, <1>7 DEF Become
  <2> HIDE DEF x
  <2> QED BY <2>1, <2>2
<1> DEFINE From == {"decide", "resolve", "read", "write", "jobEvent", "sessionEvent", "requeue",
                    "requeued", "schedule", "reread", "interrupt", "interrupted", "cancel",
                    "lookup", "audit"}
<1>8. ASSUME \E x : Goes(x), UNCHANGED <<setupVars, applied>>, l.pc \in From
      PROVE  SetupInv'
  <2>1. PICK x : Goes(x)
    BY <1>8
  <2>2. l.pc \notin Making
    BY <1>8 DEF Making
  <2>3. x # Idle => x.pc \notin Making \union {"activate", "template"}
    BY <2>1 DEF Making
  <2> QED BY <1>1, <1>8, <2>1, <2>2, <2>3, DeskGoesOn
<1>9. CASE ~Activation(p)
  <2>1. UNCHANGED <<setupVars, applied>> /\ l.pc \in From
    BY <1>1, <1>9 DEF DeskSteps, CheckApproval, WriteApproval, ReadJob, WriteDecided, RecordJobEvent,
       RecordSessionEvent, Requeue, WriteQueued, Schedule, Reread, Interrupt, WriteInterrupted,
       CancelDirectly, LookupPhase, RecordAudit, At, ghosts
  <2>2. CASE LookupPhase(p) /\ Become(p, [h[p] EXCEPT !.pc = "ensurePhases", !.then = "target"])
    <3> DEFINE x == [l EXCEPT !.pc = "ensurePhases", !.then = "target"]
    <3>1. Kept(x, l) /\ x.then = "target" /\ x.pc = "ensurePhases"
      BY <1>1 DEF Kept, Fields
    <3>2. h' = [h EXCEPT ![p] = x]
      BY <1>1, <2>2 DEF Become
    <3> HIDE DEF x
    <3> QED BY <1>1, <2>1, <3>1, <3>2, DeskGoesOn DEF Making
  <2>3. CASE ~(LookupPhase(p) /\ Become(p, [h[p] EXCEPT !.pc = "ensurePhases", !.then = "target"]))
    <3> HIDE DEF Goes, From
    <3>1. CASE CheckApproval(p)
      BY <3>1, <1>4, <1>7, <1>8, <2>1 DEF CheckApproval
    <3>2. CASE WriteApproval(p)
      BY <3>2, <1>2, <1>8, <2>1 DEF WriteApproval
    <3>3. CASE ReadJob(p)
      BY <3>3, <1>6, <1>8, <2>1 DEF ReadJob
    <3>4. CASE WriteDecided(p)
      BY <3>4, <1>2, <1>8, <2>1 DEF WriteDecided
    <3>5. CASE RecordJobEvent(p)
      BY <3>5, <1>2, <1>8, <2>1 DEF RecordJobEvent
    <3>6. CASE RecordSessionEvent(p)
      BY <3>6, <1>2, <1>3, <1>8, <2>1 DEF RecordSessionEvent
    <3>7. CASE Requeue(p)
      BY <3>7, <1>2, <1>4, <1>6, <1>8, <2>1 DEF Requeue
    <3>8. CASE WriteQueued(p)
      BY <3>8, <1>2, <1>8, <2>1 DEF WriteQueued
    <3>9. CASE Schedule(p)
      BY <3>9, <1>2, <1>4, <1>8, <2>1 DEF Schedule
    <3>10. CASE Reread(p)
      BY <3>10, <1>3, <1>8, <2>1 DEF Reread
    <3>11. CASE Interrupt(p)
      BY <3>11, <1>2, <1>5, <1>8, <2>1 DEF Interrupt
    <3>12. CASE WriteInterrupted(p)
      BY <3>12, <1>2, <1>4, <1>8, <2>1 DEF WriteInterrupted
    <3>13. CASE CancelDirectly(p)
      BY <3>13, <1>3, <1>8, <2>1 DEF CancelDirectly
    <3>14. CASE LookupPhase(p)
      BY <3>14, <2>3, <1>3, <1>8, <2>1 DEF LookupPhase
    <3>15. CASE RecordAudit(p)
      BY <3>15, <1>4, <1>8, <2>1 DEF RecordAudit
    <3> QED BY <1>9, <3>1, <3>2, <3>3, <3>4, <3>5, <3>6, <3>7, <3>8, <3>9, <3>10, <3>11, <3>12,
               <3>13, <3>14, <3>15 DEF DeskSteps
  <2> QED BY <2>2, <2>3
<1>10. CASE Activation(p)
  <2> DEFINE answer == Audited(p, h[p], "applied")
  <2>1. TargetPhase(p, answer) \/ WritePhase(p, answer)
    BY <1>10 DEF Activation
  <2>2. answer => \E x : h' = [h EXCEPT ![p] = x] /\ Ended(x, h[p])
    <3> SUFFICES ASSUME answer PROVE \E x : h' = [h EXCEPT ![p] = x] /\ Ended(x, h[p])
      OBVIOUS
    <3> DEFINE x == [l EXCEPT !.pc = "audit", !.result = "applied", !.now = clock']
    <3>1. Kept(x, l) /\ x.then = l.then /\ x.pc = "audit"
      BY <1>1 DEF Kept, Fields
    <3>2. h' = [h EXCEPT ![p] = x]
      BY <1>1 DEF Audited, Become
    <3> HIDE DEF x
    <3> QED BY <1>1, <3>1, <3>2 DEF Ended
  <2>3. h[p].req.op \in {"activate", "activate_phase"}
    BY <1>10 DEF Activation
  <2> HIDE DEF answer
  <2> QED BY <2>1, <2>2, <2>3, ActivationKeeps
<1> QED BY <1>9, <1>10

LEMMA SetupCrashed ==
  ASSUME SetupInv, Crash
  PROVE  SetupInv'
<1>1. DOMAIN h' = Handlers /\ \A p \in Handlers : h'[p] = Idle
  BY DEF Crash
<1>2. UNCHANGED <<setupVars, applied>>
  BY DEF Crash
<1>3. SetupTables'
  BY <1>1, <1>2, TablesStay
<1>4. OneMaker'
  BY <1>1, IdleSteady DEF OneMaker
<1>5. ASSUME NEW p \in Handlers PROVE (Steady(h[p]) /\ Informed(h[p]))'
  BY <1>1, IdleSteady DEF Steady, Informed
<1> QED BY <1>3, <1>4, <1>5 DEF SetupInv
----------------------------------------------------------------------------
(* The theorem *)

LEMMA SetupStarts == Init => SetupInv
<1> SUFFICES ASSUME Init PROVE SetupInv
  OBVIOUS
<1> USE DEF Init, DeskInit, SetupInit
<1>1. \A p \in Handlers : h[p] = Idle
  OBVIOUS
<1>2. OneMaker
  BY <1>1, IdleSteady DEF OneMaker
<1>3. \A p \in Handlers : Steady(h[p]) /\ Informed(h[p])
  BY <1>1, IdleSteady DEF Informed
<1>4. Keys(PresetRows) = PresetKeys
  <2> DEFINE row(i) == [key |-> Presets[i], order |-> 10 * i, at |-> 0]
  <2>1. \A i \in DOMAIN Presets : row(i).key = Presets[i]
    OBVIOUS
  <2>2. PresetRows = {row(i) : i \in DOMAIN Presets}
    BY DEF PresetRows
  <2> HIDE DEF row
  <2>3. Keys(PresetRows) = {Presets[i] : i \in DOMAIN Presets}
    BY <2>1, <2>2 DEF Keys
  <2> QED BY <2>3 DEF PresetKeys, Range
<1>5. \A s \in Sessions : /\ DOMAIN sessions[s] = RowFields
                          /\ Exists(s) => sessions[s].status # "absent"
  BY DEF Exists, NoSession, Session, RowFields
<1>6. \A s \in Sessions : Keys(phases[s]) \subseteq PresetKeys /\ applied[s] = None
  BY <1>4 DEF Keys
<1>7. SetupTables
  BY <1>5, <1>6 DEF SetupTables
<1> QED BY <1>2, <1>3, <1>7 DEF SetupInv

LEMMA SetupNext == SetupInv /\ [Next]_vars => SetupInv'
<1> SUFFICES ASSUME SetupInv, [Next]_vars PROVE SetupInv'
  OBVIOUS
<1>1. ASSUME NEW p \in Handlers, Serve(p) PROVE SetupInv'
  BY <1>1, SetupBeginsKeep, SetupStepsKeep, SetupActivationKeeps, DeskBeginsKeep, DeskStepsKeep DEF Serve
<1>2. ASSUME NEW j, JobMoves(j) PROVE SetupInv'
  BY <1>2, NothingMoves DEF JobMoves, ghosts
<1>3. CASE Crash
  BY <1>3, SetupCrashed
<1>4. ASSUME NEW c \in Clients, Watch(c) PROVE SetupInv'
  BY <1>4, NothingMoves DEF Watch, ghosts
<1>5. CASE UNCHANGED vars
  BY <1>5, NothingMoves DEF vars, ghosts
<1> QED BY <1>1, <1>2, <1>3, <1>4, <1>5 DEF Next, Server

\* A session whose instantiation was answered has the channels, phases, rules and
\* active phase of its template, with any number of requests that seed the same
\* rows, die half-way or activate a phase from a row they read before
\* (instantiate_session, _seed_channels, _seed_phases, activate_phase).
THEOREM TemplatesApplied == Spec => []TemplateApplied
<1>1. SetupInv => TemplateApplied
  <2> SUFFICES ASSUME SetupInv, NEW s \in Sessions, applied[s] # None
               PROVE  LET t == applied[s] IN
                      /\ Keys(ResolveChannels(t)) \subseteq Keys(channels[s])
                      /\ Keys(phases[s]) = PresetKeys
                      /\ Definition(t).rules \subseteq rules[s]
                      /\ sessions[s].active \in Keys(phases[s])
    BY DEF TemplateApplied
  <2>1. Whole(s, applied[s]) /\ Keys(phases[s]) \subseteq PresetKeys /\ Keys({}) = {}
    BY DEF SetupInv, SetupTables, Keys
  <2> QED BY <2>1 DEF Whole, SeedsChannels, SeedsPhases, SeedsRules
<1> QED BY SetupStarts, SetupNext, <1>1, PTL DEF Spec
----------------------------------------------------------------------------
(* Where a cursor is in the list, and what moves the list *)

\* The part of the list that only grows: all but the active phase.
Standing(t, s) == SessionEventDrafts(t, s) \union JobEventDrafts(t, s) \union JobDrafts(t, s)
RowsNow == [sessionEvents |-> sessionEvents, jobEvents |-> jobEvents, jobs |-> jobs, phaseRows |-> phases]
UpTo(drafts, m) == {d \in drafts : d.key <= m}

\* Times are numbers, there are finitely many events, and a phase is one row.
Moments == clock \in Nat /\ \A p \in Handlers : h[p].now \in Nat
Timed(events) == IsFiniteSet(events) /\ \A e \in events : e.at \in Nat
EventsTimed == Timed(sessionEvents) /\ Timed(jobEvents)
PhasesTimed ==
  \A s \in Sessions :
    /\ \A f \in phases[s] : f.at \in Nat
    /\ \A f, g \in phases[s] : f.key = g.key => f = g
    /\ sessions[s].active # None => sessions[s].active \in Keys(phases[s])

\* A cursor counts no more than the rows up to one the client was given, as they
\* are now, and the row of the active phase if there is one.
Counted(s, n, m) ==
  n <= Cardinality(UpTo(Standing(RowsNow, s), m)) + (IF sessions[s].active # None THEN 1 ELSE 0)
\* The rows of a poll under way are rows still there.
FeedRead(v) ==
  /\ "sessionEvents" \notin v.todo =>
       "sessionEvents" \in DOMAIN v.read /\ v.read.sessionEvents \subseteq sessionEvents
  /\ "jobEvents" \notin v.todo =>
       "jobEvents" \in DOMAIN v.read /\ v.read.jobEvents \subseteq jobEvents
  /\ "phases" \notin v.todo =>
       "phases" \in DOMAIN v.read /\ v.read.phases[v.session] \subseteq phases[v.session]
Following(v) ==
  /\ v.session \in Sessions /\ v.cursor \in Nat
  /\ v.given \union v.fresh \subseteq Nat
  /\ v.cursor > 0 => \E m \in v.given \union v.fresh : Counted(v.session, v.cursor, m)
  /\ v.pc # "idle" => v.fresh = {} /\ (v.active # None => sessions[v.session].active # None)
  /\ v.pc = "feed" => FeedRead(v)

FeedInv ==
  /\ Moments /\ EventsTimed /\ PhasesTimed
  /\ \A c \in Clients : Following(view[c])
----------------------------------------------------------------------------
(* Counting rows *)

LEMMA ImageFinite ==
  ASSUME NEW S, IsFiniteSet(S), NEW f, DOMAIN f = S, f = [x \in S |-> f[x]]
  PROVE  IsFiniteSet({f[x] : x \in S})
<1> DEFINE T == {f[x] : x \in S}
<1>1. f \in Surjection(S, T)
  BY DEF Surjection
<1> QED BY <1>1, FS_Surjection

\* The standing rows are finitely many, have numbers as keys, and are no phase.
LEMMA StandingRows ==
  ASSUME NEW t, Timed(t.sessionEvents), Timed(t.jobEvents), JobsKept(t.jobs), NEW s
  PROVE  /\ IsFiniteSet(Standing(t, s))
         /\ \A d \in Standing(t, s) : d.key \in Nat /\ d.kind # "phase"
<1>1. IsFiniteSet(SessionEventDrafts(t, s))
  <2> DEFINE S == {e \in t.sessionEvents : e.session = s}
             f == [e \in S |-> Draft(e.at, 0, 0, "event")]
  <2>1. IsFiniteSet(S)
    BY FS_Subset DEF Timed
  <2>2. IsFiniteSet({f[e] : e \in S})
    <3> HIDE DEF S
    <3> QED BY <2>1, ImageFinite
  <2>3. SessionEventDrafts(t, s) = {f[e] : e \in S}
    BY DEF SessionEventDrafts
  <2> QED BY <2>2, <2>3
<1>2. IsFiniteSet(JobEventDrafts(t, s))
  <2> DEFINE S == {e \in t.jobEvents : e.session = s}
             f == [e \in S |-> Draft(e.at, 1, 0, "jobEvent")]
  <2>1. IsFiniteSet(S)
    BY FS_Subset DEF Timed
  <2>2. IsFiniteSet({f[e] : e \in S})
    <3> HIDE DEF S
    <3> QED BY <2>1, ImageFinite
  <2>3. JobEventDrafts(t, s) = {f[e] : e \in S}
    BY DEF JobEventDrafts
  <2> QED BY <2>2, <2>3
<1>3. IsFiniteSet(JobDrafts(t, s))
  <2> DEFINE S == {j \in DOMAIN t.jobs : t.jobs[j].session = s}
             f == [j \in S |-> Draft(t.jobs[j].at, 2, j, "job")]
  <2>1. IsFiniteSet(S)
    BY FS_Subset, RowsAssumption DEF JobsKept
  <2>2. IsFiniteSet({f[e] : e \in S})
    <3> HIDE DEF S
    <3> QED BY <2>1, ImageFinite
  <2>3. JobDrafts(t, s) = {f[j] : j \in S}
    BY DEF JobDrafts
  <2> QED BY <2>2, <2>3
<1>4. IsFiniteSet(Standing(t, s))
  BY <1>1, <1>2, <1>3, FS_Union DEF Standing
<1>5. ASSUME NEW at \in Nat, NEW rank \in 0..2, NEW id \in Nat, NEW kind
      PROVE  Draft(at, rank, id, kind).key \in Nat /\ Draft(at, rank, id, kind).kind = kind
  BY DEF Draft, SortKey
<1>6. \A d \in SessionEventDrafts(t, s) : d.key \in Nat /\ d.kind # "phase"
  <2> SUFFICES ASSUME NEW e \in t.sessionEvents
               PROVE  /\ Draft(e.at, 0, 0, "event").key \in Nat
                      /\ Draft(e.at, 0, 0, "event").kind # "phase"
    BY DEF SessionEventDrafts
  <2> QED BY <1>5 DEF Timed
<1>7. \A d \in JobEventDrafts(t, s) : d.key \in Nat /\ d.kind # "phase"
  <2> SUFFICES ASSUME NEW e \in t.jobEvents
               PROVE  /\ Draft(e.at, 1, 0, "jobEvent").key \in Nat
                      /\ Draft(e.at, 1, 0, "jobEvent").kind # "phase"
    BY DEF JobEventDrafts
  <2> QED BY <1>5 DEF Timed
<1>8. \A d \in JobDrafts(t, s) : d.key \in Nat /\ d.kind # "phase"
  <2> SUFFICES ASSUME NEW j \in DOMAIN t.jobs
               PROVE  /\ Draft(t.jobs[j].at, 2, j, "job").key \in Nat
                      /\ Draft(t.jobs[j].at, 2, j, "job").kind # "phase"
    BY DEF JobDrafts
  <2> QED BY <1>5, RowsAssumption DEF JobsKept
<1> QED BY <1>4, <1>6, <1>7, <1>8 DEF Standing

\* Rows are inserted and keep their time and session.
RowsStay ==
  /\ sessionEvents \subseteq sessionEvents' /\ jobEvents \subseteq jobEvents'
  /\ JobsKept(jobs) /\ JobsKept(jobs')
LEMMA StandingGrows ==
  ASSUME RowsStay, NEW s
  PROVE  Standing(RowsNow, s) \subseteq Standing(RowsNow, s)'
<1>1. /\ RowsNow.sessionEvents = sessionEvents /\ RowsNow.jobEvents = jobEvents /\ RowsNow.jobs = jobs
      /\ RowsNow'.sessionEvents = sessionEvents' /\ RowsNow'.jobEvents = jobEvents' /\ RowsNow'.jobs = jobs'
  BY DEF RowsNow
<1>2. SessionEventDrafts(RowsNow, s) \subseteq SessionEventDrafts(RowsNow', s)
  BY <1>1 DEF SessionEventDrafts, RowsStay
<1>3. JobEventDrafts(RowsNow, s) \subseteq JobEventDrafts(RowsNow', s)
  BY <1>1 DEF JobEventDrafts, RowsStay
<1>4. JobDrafts(RowsNow, s) \subseteq JobDrafts(RowsNow', s)
  <2> SUFFICES ASSUME NEW j \in DOMAIN jobs, jobs[j].session = s
               PROVE  Draft(jobs[j].at, 2, j, "job") \in JobDrafts(RowsNow', s)
    BY <1>1 DEF JobDrafts
  <2>1. j \in DOMAIN jobs' /\ jobs'[j].session = s /\ jobs'[j].at = jobs[j].at
    BY DEF RowsStay, JobsKept
  <2> QED BY <1>1, <2>1 DEF JobDrafts
<1> QED BY <1>2, <1>3, <1>4 DEF Standing

LEMMA CountsGrow ==
  ASSUME NEW S, NEW T, S \subseteq T, IsFiniteSet(T), NEW m
  PROVE  /\ IsFiniteSet(UpTo(S, m)) /\ IsFiniteSet(UpTo(T, m))
         /\ Cardinality(UpTo(S, m)) \in Nat /\ Cardinality(UpTo(T, m)) \in Nat
         /\ Cardinality(UpTo(S, m)) <= Cardinality(UpTo(T, m))
<1>1. UpTo(T, m) \in SUBSET T /\ UpTo(S, m) \in SUBSET UpTo(T, m)
  BY DEF UpTo
<1> HIDE DEF UpTo
<1>2. IsFiniteSet(UpTo(T, m))
  BY <1>1, FS_Subset
<1>3. IsFiniteSet(UpTo(S, m)) /\ Cardinality(UpTo(S, m)) <= Cardinality(UpTo(T, m))
  BY <1>1, <1>2, FS_Subset
<1> QED BY <1>2, <1>3, FS_CardinalityType

LEMMA CountedStays ==
  ASSUME NEW s \in Sessions, NEW n \in Nat, NEW m, Counted(s, n, m), RowsStay, EventsTimed',
         sessions[s].active # None => sessions'[s].active # None
  PROVE  Counted(s, n, m)'
<1>1. PICK S, T : S = Standing(RowsNow, s) /\ T = Standing(RowsNow', s)
  OBVIOUS
<1>2. S \subseteq T
  BY <1>1, StandingGrows
<1>3. IsFiniteSet(T)
  BY <1>1, StandingRows DEF RowsStay, RowsNow, EventsTimed
<1> QED BY <1>1, <1>2, <1>3, CountsGrow DEF Counted
----------------------------------------------------------------------------
(* What a step of the server does to the list: times go on, rows are added *)

\* The handlers' times and the clock.
Timely(p) == \E x : h' = [h EXCEPT ![p] = x] /\ x.now \in Nat

LEMMA MomentsPass ==
  ASSUME SetupInv, Moments, NEW p \in Handlers, Timely(p), clock' \in Nat
  PROVE  Moments'
BY DEF Moments, SetupInv, SetupTables, Timely

LEMMA TimesKept ==
  ASSUME SetupInv, Moments, NEW p \in Handlers
  PROVE  /\ Return(p) => Timely(p)
         /\ \A pc : Goto(p, pc) => Timely(p)
         /\ \A loop, todo, then : Continue(p, loop, todo, then) => Timely(p)
         /\ \A local : local.now \in Nat /\ Become(p, local) => Timely(p)
<1>1. PICK l : l = h[p] /\ DOMAIN l = Fields /\ l.now \in Nat
  BY DEF SetupInv, Steady, Moments
<1>2. \A local : local.now \in Nat /\ Become(p, local) => Timely(p)
  BY DEF Become, Timely
<1>3. Idle.now \in Nat
  BY DEF Idle
<1>4. Return(p) => Timely(p)
  BY <1>2, <1>3 DEF Return
<1>5. \A pc : [l EXCEPT !.pc = pc].now = l.now
  BY <1>1 DEF Fields
<1>6. \A pc : Goto(p, pc) => Timely(p)
  BY <1>1, <1>2, <1>4, <1>5 DEF Goto
<1>7. \A loop, todo, then : [l EXCEPT !.pc = loop, !.todo = todo, !.then = then].now = l.now
  BY <1>1 DEF Fields
<1>8. \A then : [l EXCEPT !.pc = then, !.todo = {}].now = l.now
  BY <1>1 DEF Fields
<1>9. ASSUME NEW loop, NEW todo, NEW then, Continue(p, loop, todo, then)
      PROVE  Timely(p)
  <2>1. \/ Become(p, [l EXCEPT !.pc = loop, !.todo = todo, !.then = then])
        \/ Return(p)
        \/ Become(p, [l EXCEPT !.pc = then, !.todo = {}])
    BY <1>1, <1>9 DEF Continue
  <2>2. CASE Return(p)
    BY <1>4, <2>2
  <2>3. CASE ~Return(p)
    <3>1. PICK local : local.now = l.now /\ Become(p, local)
      BY <1>7, <1>8, <2>1, <2>3
    <3> QED BY <1>1, <1>2, <3>1
  <2> QED BY <2>2, <2>3
<1> QED BY <1>2, <1>4, <1>6, <1>9

LEMMA BegunInTime ==
  ASSUME NEW p \in Handlers, NEW r, NEW local, DOMAIN local = Fields, local.now \in Nat,
         Begin(p, r, local)
  PROVE  Timely(p)
<1> DEFINE x == [local EXCEPT !.req = r, !.n = requests + 1]
<1>1. h' = [h EXCEPT ![p] = x]
  BY DEF Begin, Become
<1>2. x.now = local.now
  BY DEF Fields
<1> HIDE DEF x
<1> QED BY <1>1, <1>2 DEF Timely

LEMMA SetupBeginsInTime ==
  ASSUME SetupInv, Moments, NEW p \in Handlers, SetupBegins(p)
  PROVE  Moments'
<1>1. PICK r \in Requests :
        \/ CreateTemplate(p, r) \/ \E s \in Sessions : Instantiate(p, r, s)
        \/ ListChannels(p, r) \/ CreateChannel(p, r) \/ ListPhases(p, r) \/ Activate(p, r)
  BY DEF SetupBegins
<1>2. clock' = clock \/ clock' = clock + 1
  BY <1>1 DEF CreateTemplate, Instantiate, ListChannels, CreateChannel, ListPhases, Activate, Tick
<1>3. clock' \in Nat
  BY <1>2 DEF Moments
<1>4. DOMAIN Idle = Fields /\ Idle.now = 0
  BY DEF Idle, Fields
<1> DEFINE Fit(local) == DOMAIN local = Fields /\ local.now \in Nat
<1>5. ASSUME NEW local, Fit(local), Begin(p, r, local) PROVE Moments'
  BY <1>3, <1>5, BegunInTime, MomentsPass
<1>6. CASE CreateTemplate(p, r)
  <2>1. Fit([Idle EXCEPT !.pc = "template"])
    BY <1>4 DEF Fields
  <2> HIDE DEF Fit
  <2> QED BY <1>5, <1>6, <2>1 DEF CreateTemplate
<1>7. ASSUME NEW s \in Sessions, Instantiate(p, r, s) PROVE Moments'
  <2>1. PICK row : Begin(p, r, [Idle EXCEPT !.pc = "seedChannels", !.session = s,
                                            !.row = row, !.now = clock'])
    BY <1>7 DEF Instantiate
  <2>2. Fit([Idle EXCEPT !.pc = "seedChannels", !.session = s, !.row = row, !.now = clock'])
    BY <1>3, <1>4 DEF Fields
  <2> HIDE DEF Fit
  <2> QED BY <1>5, <2>1, <2>2
<1>8. CASE ListChannels(p, r)
  <2>1. Fit([Idle EXCEPT !.pc = "ensureChannels", !.session = r.session])
    BY <1>4 DEF Fields
  <2> HIDE DEF Fit
  <2> QED BY <1>5, <1>8, <2>1 DEF ListChannels
<1>9. CASE CreateChannel(p, r)
  <2>1. Fit([Idle EXCEPT !.pc = "ensureChannels", !.session = r.session, !.then = "exists"])
    BY <1>4 DEF Fields
  <2> HIDE DEF Fit
  <2> QED BY <1>5, <1>9, <2>1 DEF CreateChannel
<1>10. CASE ListPhases(p, r)
  <2>1. Fit([Idle EXCEPT !.pc = "listPhases", !.session = r.session])
    BY <1>4 DEF Fields
  <2> HIDE DEF Fit
  <2> QED BY <1>5, <1>10, <2>1 DEF ListPhases
<1>11. CASE Activate(p, r)
  <2>1. Fit([Idle EXCEPT !.pc = "ensurePhases", !.session = r.session, !.then = "target"])
    BY <1>4 DEF Fields
  <2> HIDE DEF Fit
  <2> QED BY <1>5, <1>11, <2>1 DEF Activate
<1> QED BY <1>1, <1>6, <1>7, <1>8, <1>9, <1>10, <1>11

LEMMA SetupStepsInTime ==
  ASSUME SetupInv, Moments, NEW p \in Handlers, SetupSteps(p)
  PROVE  Moments'
<1>1. h[p].now \in Nat /\ clock \in Nat
  BY DEF Moments
<1>2. clock' \in Nat
  <2>1. CASE SeedPhase(p)
    BY <1>1, <2>1 DEF SeedPhase
  <2>2. CASE ~SeedPhase(p)
    BY <1>1, <2>2 DEF SetupSteps, StoreTemplate, SeedChannels, SeedPhases, SeedRules, SeedRule,
       FinishSession, EnsureChannels, SeedChannel, CheckChannel, ReadPhases, EnsurePhases
  <2> QED BY <2>1, <2>2
<1>3. CASE CheckChannel(p)
  <2>1. PICK l : l = h[p] /\ DOMAIN l = Fields /\ l.now \in Nat
    BY DEF SetupInv, Steady, Moments
  <2>2. \A todo : [l EXCEPT !.pc = "channel", !.then = "return", !.todo = todo].now = l.now
    BY <2>1 DEF Fields
  <2>3. Return(p) \/ \E todo : Become(p, [l EXCEPT !.pc = "channel", !.then = "return", !.todo = todo])
    BY <1>3, <2>1 DEF CheckChannel
  <2> QED BY <1>2, <2>1, <2>2, <2>3, TimesKept, MomentsPass
<1>4. CASE ~CheckChannel(p)
  <2>1. \/ Return(p) \/ \E pc : Goto(p, pc)
        \/ \E loop, todo, then : Continue(p, loop, todo, then)
    BY <1>4 DEF SetupSteps, StoreTemplate, SeedChannels, SeedPhases, SeedRules, SeedRule,
       FinishSession, EnsureChannels, SeedChannel, ReadPhases, EnsurePhases, SeedPhase
  <2> QED BY <1>2, <2>1, TimesKept, MomentsPass
<1> QED BY <1>3, <1>4

\* Activating a phase, by itself or by an operator.
LEMMA ActivationInTime ==
  ASSUME SetupInv, Moments, NEW p \in Handlers, NEW ACTION after,
         TargetPhase(p, after) \/ WritePhase(p, after),
         after => Timely(p) /\ clock' \in Nat
  PROVE  Moments'
<1>1. PICK l : l = h[p] /\ DOMAIN l = Fields /\ l.now \in Nat
  BY DEF SetupInv, Steady, Moments
<1>2. \A row : [l EXCEPT !.pc = "activate", !.row = row].now = l.now
  BY <1>1 DEF Fields
<1>3. clock \in Nat
  BY DEF Moments
<1>4. \/ (Return(p) \/ \E row : Become(p, [l EXCEPT !.pc = "activate", !.row = row])) /\ UNCHANGED clock
      \/ after
  BY <1>1 DEF TargetPhase, WritePhase
<1>5. Timely(p) /\ clock' \in Nat
  BY <1>1, <1>2, <1>3, <1>4, TimesKept
<1> QED BY <1>5, MomentsPass

LEMMA DeskBeginsInTime ==
  ASSUME SetupInv, Moments, NEW p \in Handlers, DeskBegins(p)
  PROVE  Moments'
<1>1. PICK r \in Requests :
        DecideApproval(p, r) \/ RestartJob(p, r) \/ CancelJob(p, r) \/ ActivatePhase(p, r)
  BY DEF DeskBegins
<1>2. clock \in Nat /\ DOMAIN Idle = Fields /\ Idle.now = 0
  BY DEF Moments, Idle, Fields
<1> DEFINE Fit(local) == DOMAIN local = Fields /\ local.now \in Nat
<1>3. ASSUME NEW local, Fit(local), NEW result, Ends(p, r, local, result) PROVE Moments'
  <2>1. PICK now : now = clock' /\ now \in Nat
    BY <1>2, <1>3 DEF Ends, Tick
  <2>2. Begin(p, r, [local EXCEPT !.pc = "audit", !.result = result, !.now = now])
    BY <1>3, <2>1 DEF Ends
  <2>3. Fit([local EXCEPT !.pc = "audit", !.result = result, !.now = now])
    BY <1>3, <2>1 DEF Fields
  <2> QED BY <2>1, <2>2, <2>3, BegunInTime, MomentsPass
<1>4. ASSUME NEW local, Fit(local), Proceeds(p, r, local) PROVE Moments'
  BY <1>2, <1>4, BegunInTime, MomentsPass DEF Proceeds
<1>5. CASE DecideApproval(p, r)
  <2> DEFINE a == approvals[r.approval]
             local == [Idle EXCEPT !.pc = "decide", !.session = jobs[a.job].session, !.job = a.job]
  <2>1. Fit(local)
    BY <1>2 DEF Fields
  <2>2. Ends(p, r, local, "failed") \/ Proceeds(p, r, local)
    BY <1>5 DEF DecideApproval
  <2> HIDE DEF local, Fit
  <2> QED BY <2>1, <2>2, <1>3, <1>4
<1>6. CASE RestartJob(p, r)
  <2> DEFINE local == [Idle EXCEPT !.session = jobs[r.job].session, !.job = r.job]
             next == [local EXCEPT !.pc = "requeue"]
  <2>1. Fit(local) /\ Fit(next)
    BY <1>2 DEF Fields
  <2>2. Ends(p, r, local, "duplicate") \/ Ends(p, r, local, "failed") \/ Proceeds(p, r, next)
    BY <1>6 DEF RestartJob
  <2> HIDE DEF local, next, Fit
  <2> QED BY <2>1, <2>2, <1>3, <1>4
<1>7. CASE CancelJob(p, r)
  <2> DEFINE row == jobs[r.job]
             local == [Idle EXCEPT !.session = row.session, !.job = r.job, !.held = Held(row)]
             next(pc) == [local EXCEPT !.pc = pc]
  <2>1. Fit(local) /\ \A pc : Fit(next(pc))
    BY <1>2 DEF Fields
  <2>2. \/ Ends(p, r, local, "duplicate") \/ Ends(p, r, local, "failed")
        \/ Proceeds(p, r, next("interrupt")) \/ Proceeds(p, r, next("cancel"))
    BY <1>7 DEF CancelJob
  <2> HIDE DEF local, next, Fit
  <2> QED BY <2>1, <2>2, <1>3, <1>4
<1>8. CASE ActivatePhase(p, r)
  <2> DEFINE local == [Idle EXCEPT !.session = r.session, !.row = sessions[r.session]]
             next == [local EXCEPT !.pc = "ensurePhases", !.then = "lookup"]
  <2>1. Fit(local) /\ Fit(next)
    BY <1>2 DEF Fields
  <2>2. Ends(p, r, local, "failed") \/ Proceeds(p, r, next)
    BY <1>8 DEF ActivatePhase
  <2> HIDE DEF local, next, Fit
  <2> QED BY <2>1, <2>2, <1>3, <1>4
<1> QED BY <1>1, <1>5, <1>6, <1>7, <1>8

LEMMA DeskStepsInTime ==
  ASSUME SetupInv, Moments, NEW p \in Handlers, DeskSteps(p)
  PROVE  Moments'
<1>1. PICK l : l = h[p] /\ DOMAIN l = Fields /\ l.now \in Nat
  BY DEF SetupInv, Steady, Moments
<1>2. clock \in Nat
  BY DEF Moments
<1>3. ASSUME NEW result, Audited(p, h[p], result) PROVE Timely(p) /\ clock' \in Nat
  <2>1. PICK now : now = clock' /\ now \in Nat
    BY <1>2, <1>3 DEF Audited, Tick
  <2>2. [l EXCEPT !.pc = "audit", !.result = result, !.now = now].now = now
    BY <1>1 DEF Fields
  <2>3. Become(p, [l EXCEPT !.pc = "audit", !.result = result, !.now = now])
    BY <1>1, <1>3, <2>1 DEF Audited
  <2> QED BY <2>1, <2>2, <2>3, TimesKept
<1>4. ASSUME Timely(p), clock' \in Nat PROVE Moments'
  BY <1>4, MomentsPass
<1>5. ASSUME NEW pc, Goto(p, pc), UNCHANGED clock PROVE Moments'
  BY <1>2, <1>4, <1>5, TimesKept
<1>6. ASSUME Return(p), UNCHANGED clock PROVE Moments'
  BY <1>2, <1>4, <1>6, TimesKept
<1>7. ASSUME NEW x, x.now \in Nat, Become(p, x), clock' \in Nat PROVE Moments'
  BY <1>4, <1>7, TimesKept
<1>8. \A pc, held : /\ [l EXCEPT !.pc = pc, !.held = held].now \in Nat
                    /\ [l EXCEPT !.pc = pc, !.then = held].now \in Nat
  BY <1>1 DEF Fields
<1>9. CASE CheckApproval(p)
  <2>1. CASE Tick /\ Become(p, [h[p] EXCEPT !.pc = "resolve", !.now = clock'])
    <3>1. PICK now : now = clock' /\ now \in Nat
      BY <1>2, <2>1 DEF Tick
    <3>2. [l EXCEPT !.pc = "resolve", !.now = now].now = now
      BY <1>1 DEF Fields
    <3>3. Become(p, [l EXCEPT !.pc = "resolve", !.now = now])
      BY <1>1, <2>1, <3>1
    <3> QED BY <1>7, <3>1, <3>2, <3>3
  <2>2. CASE Return(p) /\ UNCHANGED clock
    BY <1>6, <2>2
  <2> QED BY <1>9, <2>1, <2>2 DEF CheckApproval
<1>10. CASE Interrupt(p)
  <2> DEFINE held == Held(jobs[h[p].job])
  <2>1. CASE Tick /\ Become(p, [h[p] EXCEPT !.pc = "interrupted", !.held = held, !.now = clock'])
    <3>1. PICK now : now = clock' /\ now \in Nat
      BY <1>2, <2>1 DEF Tick
    <3>2. [l EXCEPT !.pc = "interrupted", !.held = held, !.now = now].now = now
      BY <1>1 DEF Fields
    <3>3. Become(p, [l EXCEPT !.pc = "interrupted", !.held = held, !.now = now])
      BY <1>1, <2>1, <3>1
    <3> QED BY <1>7, <3>1, <3>2, <3>3
  <2>2. CASE (\E pc : Goto(p, pc)) /\ UNCHANGED clock
    BY <1>5, <2>2
  <2> QED BY <1>10, <2>1, <2>2 DEF Interrupt
<1>11. CASE WriteApproval(p) \/ WriteDecided(p) \/ RecordJobEvent(p) \/ WriteQueued(p)
  BY <1>5, <1>11 DEF WriteApproval, WriteDecided, RecordJobEvent, WriteQueued
<1>12. CASE ReadJob(p)
  BY <1>1, <1>2, <1>7, <1>8, <1>12 DEF ReadJob
<1>13. CASE RecordSessionEvent(p)
  BY <1>3, <1>4, <1>5, <1>13 DEF RecordSessionEvent
<1>14. CASE Requeue(p)
  BY <1>1, <1>2, <1>5, <1>6, <1>7, <1>8, <1>14 DEF Requeue
<1>15. CASE Schedule(p)
  BY <1>5, <1>6, <1>15 DEF Schedule
<1>16. CASE Reread(p) \/ CancelDirectly(p)
  BY <1>3, <1>4, <1>16 DEF Reread, CancelDirectly
<1>17. CASE WriteInterrupted(p)
  BY <1>5, <1>6, <1>17 DEF WriteInterrupted
<1>18. CASE LookupPhase(p)
  <2>1. CASE \E result : Audited(p, h[p], result)
    BY <1>3, <1>4, <2>1
  <2>2. CASE Become(p, [h[p] EXCEPT !.pc = "ensurePhases", !.then = "target"]) /\ UNCHANGED clock
    BY <1>1, <1>2, <1>7, <1>8, <2>2
  <2> QED BY <1>18, <2>1, <2>2 DEF LookupPhase
<1>19. CASE RecordAudit(p)
  BY <1>6, <1>19 DEF RecordAudit
<1>20. CASE Activation(p)
  <2> DEFINE answer == Audited(p, h[p], "applied")
  <2>1. TargetPhase(p, answer) \/ WritePhase(p, answer)
    BY <1>20 DEF Activation
  <2>2. answer => Timely(p) /\ clock' \in Nat
    BY <1>3
  <2> HIDE DEF answer
  <2> QED BY <2>1, <2>2, ActivationInTime
<1> QED BY <1>9, <1>10, <1>11, <1>12, <1>13, <1>14, <1>15, <1>16, <1>17, <1>18, <1>19, <1>20
        DEF DeskSteps

LEMMA ServerInTime ==
  ASSUME SetupInv, Moments, Server
  PROVE  Moments'
<1>1. ASSUME NEW p \in Handlers, SetupActivation(p) PROVE Moments'
  <2> DEFINE answer == Return(p) /\ UNCHANGED clock
  <2>1. TargetPhase(p, answer) \/ WritePhase(p, answer)
    BY <1>1 DEF SetupActivation
  <2>2. answer => Timely(p) /\ clock' \in Nat
    BY TimesKept DEF Moments
  <2> HIDE DEF answer
  <2> QED BY <2>1, <2>2, ActivationInTime
<1>2. ASSUME NEW p \in Handlers, Serve(p) PROVE Moments'
  BY <1>1, <1>2, SetupBeginsInTime, SetupStepsInTime, DeskBeginsInTime, DeskStepsInTime DEF Serve
<1>3. ASSUME NEW j, JobMoves(j) PROVE Moments'
  BY <1>3 DEF JobMoves, Moments
<1>4. CASE Crash
  <2>1. Idle.now \in Nat
    BY DEF Idle
  <2> QED BY <1>4, <2>1 DEF Crash, Moments
<1> QED BY <1>2, <1>3, <1>4 DEF Server

\* The rows of the events.
EventsForward ==
  EventsTimed' /\ sessionEvents \subseteq sessionEvents' /\ jobEvents \subseteq jobEvents'

LEMMA EventAdded ==
  ASSUME NEW events, Timed(events), NEW e, e.at \in Nat
  PROVE  Timed(events \union {e}) /\ events \subseteq events \union {e}
<1>1. IsFiniteSet(events \union {e})
  BY FS_AddElement DEF Timed
<1> QED BY <1>1 DEF Timed

LEMMA ServerAddsEvents ==
  ASSUME Moments, EventsTimed, Server
  PROVE  EventsForward
<1>1. CASE UNCHANGED <<sessionEvents, jobEvents>>
  BY <1>1 DEF EventsForward, EventsTimed, Timed
<1>2. ASSUME NEW p \in Handlers, RecordAudit(p) PROVE EventsForward
  <2>1. PICK e : /\ e = [session |-> h[p].session, type |-> h[p].req.op, result |-> h[p].result,
                         n |-> h[p].n, at |-> h[p].now]
                 /\ sessionEvents' = sessionEvents \union {e} /\ jobEvents' = jobEvents
    BY <1>2 DEF RecordAudit
  <2>2. e.at \in Nat
    BY <2>1 DEF Moments
  <2> QED BY <2>1, <2>2, EventAdded DEF EventsForward, EventsTimed
<1>3. ASSUME NEW p \in Handlers, RecordJobEvent(p) \/ RecordSessionEvent(p) PROVE EventsForward
  <2>1. PICK e : e = Event(p)
    OBVIOUS
  <2>3. e.at \in Nat
    BY <2>1 DEF Event, Moments
  <2>2. \/ sessionEvents' = sessionEvents \union {e} /\ jobEvents' = jobEvents
        \/ jobEvents' = jobEvents \union {e} /\ sessionEvents' = sessionEvents
    BY <1>3, <2>1 DEF RecordJobEvent, RecordSessionEvent
  <2> QED BY <2>2, <2>3, EventAdded DEF EventsForward, EventsTimed
<1>4. ASSUME NEW p \in Handlers, DeskSteps(p), ~RecordAudit(p), ~RecordJobEvent(p), ~RecordSessionEvent(p)
      PROVE  UNCHANGED <<sessionEvents, jobEvents>>
  BY <1>4 DEF DeskSteps, CheckApproval, WriteApproval, ReadJob, WriteDecided, Requeue, WriteQueued,
     Schedule, Reread, Interrupt, WriteInterrupted, CancelDirectly, LookupPhase, Activation,
     deskVars, trail
<1>5. ASSUME NEW p \in Handlers, Serve(p), ~DeskSteps(p) PROVE UNCHANGED <<sessionEvents, jobEvents>>
  BY <1>5 DEF Serve, DeskBegins, DecideApproval, RestartJob, CancelJob, ActivatePhase, deskVars
<1>6. ASSUME NEW j, JobMoves(j) PROVE UNCHANGED <<sessionEvents, jobEvents>>
  BY <1>6 DEF JobMoves
<1>7. CASE Crash
  BY <1>1, <1>7 DEF Crash
<1> QED BY <1>1, <1>2, <1>3, <1>4, <1>5, <1>6, <1>7 DEF Server

\* The rows of the phases, and which is the active one.
PhasesForward ==
  /\ PhasesTimed'
  /\ \A s \in Sessions : /\ phases[s] \subseteq phases'[s]
                         /\ sessions[s].active # None => sessions'[s].active # None
                         /\ sessions[s] # NoSession => sessions'[s] # NoSession

LEMMA NoneIsNoPreset == None \notin PresetKeys
BY PresetsNamed DEF None

LEMMA PhasesStay ==
  ASSUME PhasesTimed, UNCHANGED <<sessions, phases>>
  PROVE  PhasesForward
BY DEF PhasesForward, PhasesTimed, Keys

LEMMA ActiveWritten ==
  ASSUME SetupInv, PhasesTimed, NEW s \in Sessions, NEW row, sessions' = [sessions EXCEPT ![s] = row],
         UNCHANGED phases,
         \/ sessions[s].active = None /\ row.active = None /\ row # NoSession
         \/ row.active \in Keys(phases[s])
  PROVE  PhasesForward
<1>1. DOMAIN sessions = Sessions
  BY DEF SetupInv, SetupTables
<1>2. Keys(phases[s]) \subseteq PresetKeys
  BY DEF SetupInv, SetupTables
<1>3. \A q \in Sessions : sessions'[q] = IF q = s THEN row ELSE sessions[q]
  BY <1>1
<1>4. row.active \in Keys(phases[s]) => row # NoSession
  BY <1>2, NoneIsNoPreset DEF NoSession, Session
<1> QED BY <1>2, <1>3, <1>4, NoneIsNoPreset DEF PhasesForward, PhasesTimed, Keys

LEMMA ActivationAdds ==
  ASSUME SetupInv, PhasesTimed, NEW p \in Handlers, NEW ACTION after,
         TargetPhase(p, after) \/ WritePhase(p, after),
         h[p].req.op \in {"activate", "activate_phase"}
  PROVE  PhasesForward
<1>1. PICK l : l = h[p] /\ Steady(l) /\ Informed(l)
  BY DEF SetupInv
<1>2. CASE TargetPhase(p, after)
  BY <1>2, PhasesStay DEF TargetPhase, setupVars
<1>3. CASE WritePhase(p, after)
  <2>1. PICK row : row = [l.row EXCEPT !.active = l.req.phase]
    OBVIOUS
  <2>2. l.pc = "activate" /\ sessions' = [sessions EXCEPT ![l.session] = row] /\ UNCHANGED phases
    BY <1>1, <1>3, <2>1 DEF WritePhase, UpdateSession, At
  <2>3. l.session \in Sessions /\ l.req.phase \in Keys(phases[l.session])
    BY <1>1, <2>2 DEF Informed
  <2>4. row.active = l.req.phase
    BY <1>1, <2>1 DEF Steady, RowFields
  <2> QED BY <2>2, <2>3, <2>4, ActiveWritten
<1> QED BY <1>2, <1>3

LEMMA SetupAdds ==
  ASSUME SetupInv, Moments, PhasesTimed, NEW p \in Handlers, SetupSteps(p) \/ SetupBegins(p)
  PROVE  PhasesForward
<1>1. PICK l : l = h[p] /\ Steady(l) /\ Informed(l) /\ l.now \in Nat
  BY DEF SetupInv, Moments
<1>2. CASE SeedPhase(p)
  <2>1. CASE UNCHANGED <<sessions, phases>>
    BY <2>1, PhasesStay
  <2>2. PICK row, at : /\ at = (IF l.req.op = "instantiate" THEN l.now ELSE clock + 1)
                       /\ \/ UNCHANGED phases
                          \/ /\ row.key \notin Keys(phases[l.session])
                             /\ InsertPhaseRow(l.session, [key |-> row.key, order |-> row.order, at |-> at])
    BY <1>1, <1>2 DEF SeedPhase
  <2>3. PICK new : new = [key |-> row.key, order |-> row.order, at |-> at]
    OBVIOUS
  <2>4. new.key = row.key /\ new.at = at /\ at \in Nat
    BY <1>1, <2>2, <2>3 DEF Moments
  <2>5. CASE row.key \notin Keys(phases[l.session]) /\ InsertPhaseRow(l.session, new)
    <3>1. phases' = [phases EXCEPT ![l.session] = @ \union {new}] /\ DOMAIN phases = Sessions
      BY <2>5 DEF InsertPhaseRow, SetupInv, SetupTables
    <3>2. sessions' = sessions
      BY <1>2 DEF SeedPhase
    <3>3. \A f \in phases[l.session] : f.key # new.key
      BY <2>4, <2>5 DEF Keys
    <3>4. \A s \in Sessions : phases'[s] = phases[s] \union (IF s = l.session THEN {new} ELSE {})
      BY <3>1
    <3> QED BY <2>4, <3>2, <3>3, <3>4 DEF PhasesForward, PhasesTimed, Keys
  <2> QED BY <1>2, <2>1, <2>2, <2>3, <2>5 DEF SeedPhase
<1>3. CASE FinishSession(p)
  <2>1. PICK row : row = [l.row EXCEPT !.active = ResolveActive(l.req.template)]
    OBVIOUS
  <2>2. l.pc = "finish" /\ sessions' = [sessions EXCEPT ![l.session] = row] /\ UNCHANGED phases
    BY <1>1, <1>3, <2>1 DEF FinishSession, UpdateSession, At
  <2>3. Building(l)
    BY <1>1, <2>2, MakerAt DEF Making
  <2>4. l.session \in Sessions /\ PresetKeys \subseteq Keys(phases[l.session])
        /\ ResolveActive(l.req.template) \in PresetKeys
    BY <2>2, <2>3, ActiveIsPreset DEF Building, SeedsPhases, Keys
  <2>5. row.active = ResolveActive(l.req.template)
    BY <1>1, <2>1 DEF Steady, RowFields
  <2> QED BY <2>2, <2>4, <2>5, ActiveWritten
<1>4. ASSUME NEW r, NEW s \in Sessions, Instantiate(p, r, s) PROVE PhasesForward
  <2>1. PICK row : /\ row = [Session(IF r.lead THEN "active" ELSE "draft") EXCEPT !.template = r.template]
                   /\ sessions' = [sessions EXCEPT ![s] = row] /\ UNCHANGED phases
    BY <1>4 DEF Instantiate, InsertSession
  <2>2. row.active = None /\ row.status \in {"active", "draft"} /\ row # NoSession
    BY <2>1 DEF Session, NoSession
  <2>3. sessions[s].active = None
    BY <1>4 DEF Instantiate, Exists, NoSession, Session
  <2> QED BY <2>1, <2>2, <2>3, ActiveWritten
<1>5. CASE SetupBegins(p) /\ ~(\E r \in Requests, s \in Sessions : Instantiate(p, r, s))
  BY <1>5, PhasesStay DEF SetupBegins, CreateTemplate, ListChannels, CreateChannel, ListPhases,
     Activate, setupVars
<1>6. CASE SetupSteps(p) /\ ~SeedPhase(p) /\ ~FinishSession(p)
  BY <1>6, PhasesStay DEF SetupSteps, StoreTemplate, SeedChannels, SeedPhases, SeedRules, SeedRule,
     EnsureChannels, SeedChannel, CheckChannel, ReadPhases, EnsurePhases, setupVars
<1> QED BY <1>2, <1>3, <1>4, <1>5, <1>6

LEMMA ServerAddsPhases ==
  ASSUME SetupInv, Moments, PhasesTimed, Server
  PROVE  PhasesForward
<1>1. ASSUME NEW p \in Handlers, SetupActivation(p) PROVE PhasesForward
  BY <1>1, ActivationAdds DEF SetupActivation
<1>2. ASSUME NEW p \in Handlers, Activation(p) PROVE PhasesForward
  BY <1>2, ActivationAdds DEF Activation
<1>3. ASSUME NEW p \in Handlers, DeskBegins(p) PROVE PhasesForward
  BY <1>3, PhasesStay DEF DeskBegins, DecideApproval, RestartJob, CancelJob, ActivatePhase, setupVars
<1>4. ASSUME NEW p \in Handlers, DeskSteps(p), ~Activation(p) PROVE PhasesForward
  BY <1>4, PhasesStay DEF DeskSteps, CheckApproval, WriteApproval, ReadJob, WriteDecided,
     RecordJobEvent, RecordSessionEvent, Requeue, WriteQueued, Schedule, Reread, Interrupt,
     WriteInterrupted, CancelDirectly, LookupPhase, RecordAudit, setupVars
<1>5. ASSUME NEW p \in Handlers, Serve(p) PROVE PhasesForward
  BY <1>1, <1>2, <1>3, <1>4, <1>5, SetupAdds DEF Serve
<1>6. ASSUME NEW j, JobMoves(j) PROVE PhasesForward
  BY <1>6, PhasesStay DEF JobMoves, setupVars
<1>7. CASE Crash
  BY <1>7, PhasesStay DEF Crash, setupVars
<1> QED BY <1>5, <1>6, <1>7 DEF Server
----------------------------------------------------------------------------
(* What an answer counts *)

LEMMA CursorCounts ==
  ASSUME NEW drafts, IsFiniteSet(drafts), NEW given \in SUBSET drafts, given # {}, NEW since
  PROVE  \E g \in given : NextCursor(given, drafts, since) = Sequence(g, drafts)
<1>1. PICK N \in Nat : N = Cardinality(drafts)
  BY FS_CardinalityType
<1>2. ASSUME NEW d PROVE Sequence(d, drafts) \in Nat /\ Sequence(d, drafts) <= N
  <2>1. {e \in drafts : e.key <= d.key} \subseteq drafts
    OBVIOUS
  <2>2. PICK S : S = {e \in drafts : e.key <= d.key} /\ S \subseteq drafts
    BY <2>1
  <2>3. Cardinality(S) \in Nat /\ Cardinality(S) <= Cardinality(drafts)
    BY <2>2, FS_Subset, FS_CardinalityType
  <2> QED BY <1>1, <2>2, <2>3 DEF Sequence
<1> DEFINE Left == {N - Sequence(d, drafts) : d \in given}
<1>3. Left \in SUBSET Nat /\ Left # {}
  BY <1>1, <1>2
<1>4. PICK x \in Left : \A y \in Left : x <= y
  BY <1>3, SmallestOf
<1>5. PICK g \in given : x = N - Sequence(g, drafts)
  BY <1>4
<1>6. \A d \in given : Sequence(d, drafts) <= Sequence(g, drafts)
  BY <1>1, <1>2, <1>4, <1>5
<1> DEFINE Places == {Sequence(d, drafts) : d \in given}
           Latest(n) == \A d \in given : Sequence(d, drafts) <= n
<1>7. \E n \in Places : Latest(n)
  BY <1>6
<1>8. NextCursor(given, drafts, since) = CHOOSE n \in Places : Latest(n)
  BY DEF NextCursor
<1>9. NextCursor(given, drafts, since) \in Places
  BY <1>7, <1>8
<1> QED BY <1>9

LEMMA OnePhaseDraft ==
  ASSUME NEW t, NEW s, NEW active, \A f \in t.phaseRows[s] : f.at \in Nat,
         \A f, g \in t.phaseRows[s] : f.key = g.key => f = g,
         \A f \in t.phaseRows[s] : f.key # None
  PROVE  /\ IsFiniteSet(PhaseDrafts(t, s, active))
         /\ Cardinality(PhaseDrafts(t, s, active)) <= (IF active # None THEN 1 ELSE 0)
         /\ \A d \in PhaseDrafts(t, s, active) : d.key \in Nat
<1> DEFINE F == {f \in t.phaseRows[s] : f.key = active}
<1>1. CASE F = {}
  <2>1. PhaseDrafts(t, s, active) = {}
    BY <1>1 DEF PhaseDrafts
  <2> QED BY <2>1, FS_EmptySet
<1>2. CASE F # {}
  <2>1. PICK f : F = {f} /\ f \in t.phaseRows[s] /\ f.key = active
    BY <1>2
  <2>2. PhaseDrafts(t, s, active) = {Draft(f.at, 3, 0, "phase")}
    BY <2>1 DEF PhaseDrafts
  <2>3. Draft(f.at, 3, 0, "phase").key \in Nat
    BY <2>1 DEF Draft, SortKey
  <2>4. PICK x : PhaseDrafts(t, s, active) = {x} /\ x.key \in Nat
    BY <2>2, <2>3
  <2>5. IsFiniteSet({x}) /\ Cardinality({x}) = 1
    BY FS_Singleton
  <2>6. active # None
    BY <2>1
  <2> QED BY <2>4, <2>5, <2>6
<1> QED BY <1>1, <1>2

LEMMA DraftsOf ==
  ASSUME NEW t, NEW s, NEW active
  PROVE  Drafts(t, s, active) = Standing(t, s) \union PhaseDrafts(t, s, active)
BY DEF Drafts, Standing

LEMMA TogetherCounts ==
  ASSUME NEW A, NEW B, NEW C, C \subseteq A \union B, IsFiniteSet(A), IsFiniteSet(B)
  PROVE  Cardinality(C) \in Nat /\ Cardinality(C) <= Cardinality(A) + Cardinality(B)
<1>1. IsFiniteSet(A \union B) /\ IsFiniteSet(A \intersect B)
  BY FS_Union, FS_Intersection
<1>2. Cardinality(A \union B) = Cardinality(A) + Cardinality(B) - Cardinality(A \intersect B)
  BY FS_Union
<1>3. Cardinality(C) <= Cardinality(A \union B) /\ IsFiniteSet(C)
  BY <1>1, FS_Subset
<1>4. /\ Cardinality(A) \in Nat /\ Cardinality(B) \in Nat /\ Cardinality(C) \in Nat
      /\ Cardinality(A \intersect B) \in Nat
  BY <1>1, <1>3, FS_CardinalityType
<1> QED BY <1>2, <1>3, <1>4

\* The tables behind an answer hold no more than there is now, and one phase.
LEMMA AnswerCounts ==
  ASSUME NEW t, NEW s \in Sessions, NEW active, NEW m, JobsKept(jobs), JobsKept(t.jobs), EventsTimed,
         t.sessionEvents \subseteq sessionEvents, t.jobEvents \subseteq jobEvents,
         t.phaseRows[s] \subseteq phases[s], PhasesTimed, SetupTables,
         active # None => sessions[s].active # None
  PROVE  /\ IsFiniteSet(Drafts(t, s, active))
         /\ \A d \in Drafts(t, s, active) : d.key \in Nat
         /\ Counted(s, Cardinality({e \in Drafts(t, s, active) : e.key <= m}), m)
<1>1. PICK P : P = PhaseDrafts(t, s, active)
  OBVIOUS
<1>2. \A f \in t.phaseRows[s] : f.at \in Nat /\ f.key # None
  BY NoneIsNoPreset DEF PhasesTimed, SetupTables, Keys
<1>3. \A f, g \in t.phaseRows[s] : f.key = g.key => f = g
  BY DEF PhasesTimed
<1>4. /\ IsFiniteSet(P) /\ Cardinality(P) <= (IF active # None THEN 1 ELSE 0)
      /\ \A d \in P : d.key \in Nat
  BY <1>1, <1>2, <1>3, OnePhaseDraft
<1>5. PICK T : T = Standing(RowsNow, s)
  OBVIOUS
<1>6. IsFiniteSet(T) /\ \A d \in T : d.key \in Nat
  BY <1>5, StandingRows DEF RowsNow, EventsTimed
<1>7. Standing(t, s) \subseteq T
  <2>1. /\ RowsNow.sessionEvents = sessionEvents /\ RowsNow.jobEvents = jobEvents
        /\ RowsNow.jobs = jobs
    BY DEF RowsNow
  <2>2. SessionEventDrafts(t, s) \subseteq SessionEventDrafts(RowsNow, s)
    BY <2>1 DEF SessionEventDrafts
  <2>3. JobEventDrafts(t, s) \subseteq JobEventDrafts(RowsNow, s)
    BY <2>1 DEF JobEventDrafts
  <2>4. JobDrafts(t, s) \subseteq JobDrafts(RowsNow, s)
    <3> SUFFICES ASSUME NEW j \in DOMAIN t.jobs, t.jobs[j].session = s
                 PROVE  Draft(t.jobs[j].at, 2, j, "job") \in JobDrafts(RowsNow, s)
      BY DEF JobDrafts
    <3>1. j \in DOMAIN jobs /\ jobs[j].session = s /\ jobs[j].at = t.jobs[j].at
      BY DEF JobsKept
    <3> QED BY <2>1, <3>1 DEF JobDrafts
  <2> QED BY <1>5, <2>2, <2>3, <2>4 DEF Standing
<1>8. Drafts(t, s, active) \subseteq T \union P
  BY <1>1, <1>7, DraftsOf
<1>9. IsFiniteSet(Drafts(t, s, active)) /\ \A d \in Drafts(t, s, active) : d.key \in Nat
  BY <1>4, <1>6, <1>8, FS_Union, FS_Subset
<1>10. PICK C : C = {e \in Drafts(t, s, active) : e.key <= m}
  OBVIOUS
<1>11. C \subseteq UpTo(T, m) \union P
  BY <1>8, <1>10 DEF UpTo
<1>12. IsFiniteSet(UpTo(T, m)) /\ Cardinality(UpTo(T, m)) \in Nat
  BY <1>6, CountsGrow
<1>13. Cardinality(C) \in Nat /\ Cardinality(C) <= Cardinality(UpTo(T, m)) + Cardinality(P)
  BY <1>4, <1>11, <1>12, TogetherCounts
<1>14. Cardinality(P) \in Nat
  BY <1>4, FS_CardinalityType
<1>15. Cardinality(C) <= Cardinality(UpTo(T, m)) + (IF sessions[s].active # None THEN 1 ELSE 0)
  BY <1>4, <1>12, <1>13, <1>14
<1> QED BY <1>5, <1>9, <1>10, <1>15 DEF Counted
----------------------------------------------------------------------------
(* Every step keeps where the cursors are *)

LEMMA FollowingStays ==
  ASSUME NEW v, Following(v), RowsStay, EventsForward, PhasesForward
  PROVE  Following(v)'
<1>1. v.session \in Sessions /\ v.cursor \in Nat
  BY DEF Following
<1>2. ASSUME NEW m, Counted(v.session, v.cursor, m) PROVE Counted(v.session, v.cursor, m)'
  BY <1>1, <1>2, CountedStays DEF EventsForward, PhasesForward
<1>3. FeedRead(v) => FeedRead(v)'
  BY <1>1 DEF FeedRead, EventsForward, PhasesForward
<1>4. sessions[v.session].active # None => sessions'[v.session].active # None
  BY <1>1 DEF PhasesForward
<1> QED BY <1>1, <1>2, <1>3, <1>4 DEF Following

LEMMA FollowingCut ==
  ASSUME NEW v, DOMAIN v = ViewFields, Following(v)'
  PROVE  Following(Cut(v))'
<1>1. /\ Cut(v).pc = "idle" /\ Cut(v).session = v.session /\ Cut(v).cursor = v.cursor
      /\ Cut(v).given = v.given /\ Cut(v).fresh = v.fresh
  BY DEF Cut, ViewFields
<1> QED BY <1>1 DEF Following

LEMMA ServerKeepsFeed ==
  ASSUME SetupInv, WatchInv, FeedInv, Server
  PROVE  FeedInv'
<1>1. Moments' /\ EventsForward /\ PhasesForward
  BY ServerInTime, ServerAddsEvents, ServerAddsPhases DEF FeedInv
<1>2. RowsStay
  BY <1>1, ServerKeepsTables DEF WatchInv, TablesKept, RowsStay, EventsForward
<1>3. view' = view \/ view' = [c \in Clients |-> Cut(view[c])]
  BY DEF Server
<1>4. ASSUME NEW c \in Clients PROVE Following(view[c])'
  <2>1. PICK v : v = view[c] /\ DOMAIN v = ViewFields /\ Following(v)
    BY DEF WatchInv, Polling, FeedInv
  <2>2. Following(v)'
    BY <1>1, <1>2, <2>1, FollowingStays
  <2>3. Following(Cut(v))'
    BY <2>1, <2>2, FollowingCut
  <2>4. view'[c] = v \/ view'[c] = Cut(v)
    BY <1>3, <2>1
  <2>5. CASE view'[c] = v
    BY <2>2, <2>5 DEF Following
  <2>6. CASE view'[c] = Cut(v)
    BY <2>3, <2>6 DEF Following
  <2> QED BY <2>4, <2>5, <2>6
<1> QED BY <1>1, <1>4 DEF FeedInv, EventsForward, PhasesForward

\* A step of a client changes no table.
LEMMA FollowingOn ==
  ASSUME NEW v, Following(v), UNCHANGED <<setupVars, deskVars>>
  PROVE  Following(v)'
<1>1. \A n, m : Counted(v.session, n, m) => Counted(v.session, n, m)'
  <2>1. UNCHANGED <<sessions, RowsNow>>
    BY DEF setupVars, deskVars, RowsNow
  <2> QED BY <2>1 DEF Counted
<1>2. UNCHANGED <<sessions, phases, sessionEvents, jobEvents>>
  BY DEF setupVars, deskVars
<1> QED BY <1>1, <1>2 DEF Following, FeedRead

LEMMA AnswerFollows ==
  ASSUME SetupInv, WatchInv, FeedInv, NEW c \in Clients, NEW limit \in Limits, Answer(c, limit),
         NEW w, view' = [view EXCEPT ![c] = w]
  PROVE  Following(w)
<1>1. PICK v : v = view[c] /\ DOMAIN v = ViewFields /\ Following(v) /\ Polling(v, lasting[c])
  BY DEF WatchInv, Polling, FeedInv
<1>2. v.pc = "feed" /\ v.todo = {} /\ v.session \in Sessions /\ FeedRead(v) /\ ReadJobs(v, lasting[c])
      /\ v.fresh = {} /\ (v.active # None => sessions[v.session].active # None)
  BY <1>1 DEF Answer, Following, Polling
<1>3. PICK rows, drafts, given :
        /\ rows = FeedRows(v) /\ drafts = Drafts(rows, v.session, v.active)
        /\ given = Materialize(drafts, v.cursor, limit)
  OBVIOUS
<1>11. PICK fresh, cursor, state :
        /\ fresh = {d.key : d \in given} /\ cursor = NextCursor(given, drafts, v.cursor)
        /\ state = IncidentState(Signals(rows, v.session, v.dashboard))
  OBVIOUS
<1>4. w = [v EXCEPT !.pc = "idle", !.read = <<>>, !.active = None, !.fresh = fresh,
                    !.cursor = cursor, !.state = state, !.dashboard = <<>>]
  <2>1. DOMAIN view = Clients
    BY DEF WatchInv
  <2>2. view' = [view EXCEPT ![c] =
           [v EXCEPT !.pc = "idle", !.read = <<>>, !.active = None, !.fresh = fresh,
                     !.cursor = cursor, !.state = state, !.dashboard = <<>>]]
    BY <1>1, <1>3, <1>11 DEF Answer
  <2> QED BY <2>1, <2>2
<1>5. /\ w.pc = "idle" /\ w.session = v.session /\ w.cursor = cursor
      /\ w.given = v.given /\ w.fresh = fresh
  BY <1>1, <1>4 DEF ViewFields
<1>6. ASSUME NEW m
      PROVE  /\ IsFiniteSet(drafts) /\ \A d \in drafts : d.key \in Nat
             /\ Counted(v.session, Cardinality({e \in drafts : e.key <= m}), m)
  <2>1. /\ rows.sessionEvents = v.read.sessionEvents /\ rows.jobEvents = v.read.jobEvents
        /\ rows.jobs = v.read.jobs /\ rows.phaseRows = v.read.phases
    BY <1>3 DEF FeedRows
  <2>2. JobsKept(rows.jobs) /\ JobsKept(jobs)
    BY <1>2, <2>1 DEF ReadJobs, WatchInv, TablesKept
  <2>3. rows.sessionEvents \subseteq sessionEvents /\ rows.jobEvents \subseteq jobEvents
        /\ rows.phaseRows[v.session] \subseteq phases[v.session]
    BY <1>2, <2>1 DEF FeedRead
  <2> QED BY <1>2, <1>3, <2>2, <2>3, AnswerCounts DEF FeedInv, SetupInv
<1>7. given \subseteq drafts
  BY <1>3 DEF Materialize
<1>8. fresh \subseteq Nat
  BY <1>6, <1>7, <1>11
<1>9. CASE given = {}
  <2>1. fresh = {} /\ cursor = v.cursor
    BY <1>9, <1>11 DEF NextCursor
  <2> QED BY <1>1, <1>2, <1>5, <2>1 DEF Following
<1>10. CASE given # {}
  <2>1. PICK g \in given : cursor = Sequence(g, drafts)
    BY <1>6, <1>7, <1>10, <1>11, CursorCounts
  <2>2. PICK m : m = g.key /\ m \in fresh
    BY <1>11
  <2>3. cursor = Cardinality({e \in drafts : e.key <= m})
    BY <2>1, <2>2 DEF Sequence
  <2>4. Counted(v.session, cursor, m)
    BY <1>6, <2>3
  <2>5. cursor \in Nat
    <3>1. {e \in drafts : e.key <= m} \in SUBSET drafts
      OBVIOUS
    <3> QED BY <1>6, <2>3, <3>1, FS_Subset, FS_CardinalityType
  <2>6. w.given \union w.fresh \subseteq Nat
    BY <1>1, <1>5, <1>8 DEF Following
  <2> QED BY <1>2, <1>5, <2>2, <2>4, <2>5, <2>6 DEF Following
<1> QED BY <1>9, <1>10

LEMMA WatchKeepsFeed ==
  ASSUME SetupInv, WatchInv, FeedInv, NEW c \in Clients, Watch(c)
  PROVE  FeedInv'
<1>1. UNCHANGED <<setupVars, clock, h, deskVars>> /\ DOMAIN view = Clients
  BY DEF Watch, WatchInv
<1>2. Moments' /\ EventsTimed' /\ PhasesTimed'
  BY <1>1 DEF FeedInv, Moments, EventsTimed, Timed, PhasesTimed, Keys, setupVars, deskVars
<1>3. PICK w : view' = [view EXCEPT ![c] = w]
  BY DEF Watch, Poll, ReadTables, LoadDashboard, Answer
<1>4. PICK v : v = view[c] /\ DOMAIN v = ViewFields /\ Following(v)
  BY DEF WatchInv, Polling, FeedInv
<1>5. w = view'[c]
  BY <1>1, <1>3
<1>6. ASSUME Poll(c) PROVE Following(w)
  <2>1. /\ v.pc = "idle"
        /\ w = [v EXCEPT !.pc = "dashboard", !.todo = DashboardTables, !.polls = @ + 1,
                         !.active = sessions[v.session].active,
                         !.given = @ \union v.fresh, !.fresh = {}, !.state = None]
    BY <1>1, <1>4, <1>5, <1>6 DEF Poll
  <2>2. /\ w.pc = "dashboard" /\ w.session = v.session /\ w.cursor = v.cursor
        /\ w.active = sessions[v.session].active /\ w.given = v.given \union v.fresh /\ w.fresh = {}
    BY <1>4, <2>1 DEF ViewFields
  <2> QED BY <1>4, <2>2 DEF Following
<1>7. ASSUME ReadTables(c) PROVE Following(w)
  <2>1. PICK some \in SUBSET v.todo :
          view' = [view EXCEPT ![c].todo = @ \ some,
                               ![c].read = [t \in some \union DOMAIN @ |->
                                              IF t \in some THEN Stored[t] ELSE @[t]]]
    BY <1>4, <1>7 DEF ReadTables
  <2>2. PICK read : read = [t \in some \union DOMAIN v.read |->
                              IF t \in some THEN Stored[t] ELSE v.read[t]]
    OBVIOUS
  <2>3. w = [v EXCEPT !.todo = @ \ some, !.read = read]
    BY <1>1, <1>4, <1>5, <2>1, <2>2
  <2>4. /\ w.pc = v.pc /\ w.session = v.session /\ w.cursor = v.cursor /\ w.given = v.given
        /\ w.fresh = v.fresh /\ w.active = v.active /\ w.todo = v.todo \ some /\ w.read = read
    BY <1>4, <2>3 DEF ViewFields
  <2>5. /\ Stored["sessionEvents"] = sessionEvents /\ Stored["jobEvents"] = jobEvents
        /\ Stored["phases"] = phases
    BY DEF Stored, SessionEventRows, JobEventRows, PhaseRows
  <2>6. \A t \in some : t \in DOMAIN read /\ read[t] = Stored[t]
    BY <2>2
  <2>7. \A t \in DOMAIN v.read \ some : t \in DOMAIN read /\ read[t] = v.read[t]
    BY <2>2
  <2>8. ASSUME FeedRead(v) PROVE FeedRead(w)
    <3>1. "sessionEvents" \notin w.todo =>
            "sessionEvents" \in DOMAIN read /\ read["sessionEvents"] \subseteq sessionEvents
      BY <2>4, <2>5, <2>6, <2>7, <2>8 DEF FeedRead
    <3>2. "jobEvents" \notin w.todo =>
            "jobEvents" \in DOMAIN read /\ read["jobEvents"] \subseteq jobEvents
      BY <2>4, <2>5, <2>6, <2>7, <2>8 DEF FeedRead
    <3>3. "phases" \notin w.todo =>
            "phases" \in DOMAIN read /\ read["phases"][v.session] \subseteq phases[v.session]
      BY <2>4, <2>5, <2>6, <2>7, <2>8 DEF FeedRead
    <3> QED BY <2>4, <3>1, <3>2, <3>3 DEF FeedRead
  <2> QED BY <1>4, <2>4, <2>8 DEF Following
<1>8. ASSUME LoadDashboard(c) PROVE Following(w)
  <2>1. PICK dashboard : /\ v.pc = "dashboard"
                         /\ w = [v EXCEPT !.pc = "feed", !.todo = FeedTables, !.read = <<>>,
                                          !.dashboard = dashboard]
    BY <1>1, <1>4, <1>5, <1>8 DEF LoadDashboard
  <2>2. /\ w.pc = "feed" /\ w.session = v.session /\ w.cursor = v.cursor /\ w.given = v.given
        /\ w.fresh = v.fresh /\ w.active = v.active /\ w.todo = FeedTables
    BY <1>4, <2>1 DEF ViewFields
  <2>3. FeedRead(w)
    BY <2>2 DEF FeedRead, FeedTables
  <2> QED BY <1>4, <2>1, <2>2, <2>3 DEF Following
<1>9. ASSUME NEW limit \in Limits, Answer(c, limit) PROVE Following(w)
  BY <1>3, <1>9, AnswerFollows
<1>10. Following(w)
  BY <1>6, <1>7, <1>8, <1>9 DEF Watch
<1>11. ASSUME NEW d \in Clients PROVE Following(view[d])'
  <2>1. PICK u : u = view'[d] /\ Following(u)
    BY <1>1, <1>3, <1>5, <1>10 DEF FeedInv
  <2>2. Following(u)'
    BY <1>1, <2>1, FollowingOn
  <2> QED BY <2>1, <2>2 DEF Following
<1> QED BY <1>2, <1>11 DEF FeedInv
----------------------------------------------------------------------------
(* The theorem *)

LEMMA FeedStarts == Init => FeedInv
<1> SUFFICES ASSUME Init PROVE FeedInv
  OBVIOUS
<1> USE DEF Init, DeskInit, SetupInit
<1>1. Moments
  BY DEF Moments, Idle
<1>2. EventsTimed
  BY FS_EmptySet DEF EventsTimed, Timed
<1>3. PhasesTimed
  <2>1. \A s \in Sessions : sessions[s].active = None
    BY DEF Session, NoSession
  <2>2. \A f \in PresetRows : f.at \in Nat
    BY DEF PresetRows
  <2>3. \A f, g \in PresetRows : f.key = g.key => f = g
    <3> SUFFICES ASSUME NEW i \in DOMAIN Presets, NEW j \in DOMAIN Presets, Presets[i] = Presets[j]
                 PROVE  i = j
      BY DEF PresetRows
    <3> QED BY DEF Presets
  <2> QED BY <2>1, <2>2, <2>3 DEF PhasesTimed
<1>4. ASSUME NEW c \in Clients PROVE Following(view[c])
  <2>1. PICK s \in Watched : view[c] = Unread(s)
    OBVIOUS
  <2>2. s \in Sessions
    BY WatchedAssumption
  <2> QED BY <2>1, <2>2 DEF Unread, Following
<1> QED BY <1>1, <1>2, <1>3, <1>4 DEF FeedInv

LEMMA FeedNext == SetupInv /\ WatchInv /\ FeedInv /\ [Next]_vars => FeedInv'
<1> SUFFICES ASSUME SetupInv, WatchInv, FeedInv, [Next]_vars PROVE FeedInv'
  OBVIOUS
<1>1. CASE UNCHANGED vars
  <2>1. UNCHANGED <<setupVars, deskVars, clock, h, view>>
    BY <1>1 DEF vars, watchVars
  <2>2. Moments' /\ EventsTimed' /\ PhasesTimed'
    BY <2>1 DEF FeedInv, Moments, EventsTimed, Timed, PhasesTimed, Keys, setupVars, deskVars
  <2>3. ASSUME NEW d \in Clients PROVE Following(view[d])'
    <3>1. PICK u : u = view'[d] /\ Following(u)
      BY <2>1 DEF FeedInv
    <3>2. Following(u)'
      BY <2>1, <3>1, FollowingOn
    <3> QED BY <3>1, <3>2 DEF Following
  <2> QED BY <2>2, <2>3 DEF FeedInv
<1> QED BY <1>1, ServerKeepsFeed, WatchKeepsFeed DEF Next

LEMMA SetupInvariance == Spec => []SetupInv
BY SetupStarts, SetupNext, PTL DEF Spec

\* A row above the cursor's: it is no phase, so it is counted with all the cursor
\* counts and not among them.
LEMMA NewestIsAbove ==
  ASSUME SetupTables, TablesKept, EventsTimed, PhasesTimed, NEW v, Following(v), NEW d \in Current(v),
         \A k \in v.given \union v.fresh \union {SortKey(f.at, 3, 0) : f \in phases[v.session]} : k < d.key
  PROVE  Sequence(d, Current(v)) > v.cursor
<1>1. PICK s, active, n : s = v.session /\ active = sessions[v.session].active /\ n = v.cursor
  OBVIOUS
<1>2. s \in Sessions /\ n \in Nat
  BY <1>1 DEF Following
<1>3. Current(v) = Drafts(RowsNow, s, active)
  BY <1>1 DEF Current, RowsNow
<1>4. /\ RowsNow.jobs = jobs /\ RowsNow.sessionEvents = sessionEvents
      /\ RowsNow.jobEvents = jobEvents /\ RowsNow.phaseRows = phases
  BY DEF RowsNow
<1>5. IsFiniteSet(Current(v)) /\ \A e \in Current(v) : e.key \in Nat
  BY <1>1, <1>2, <1>3, <1>4, AnswerCounts DEF TablesKept
<1>6. PICK T, P : T = Standing(RowsNow, s) /\ P = PhaseDrafts(RowsNow, s, active)
  OBVIOUS
<1>7. Current(v) = T \union P
  BY <1>3, <1>6, DraftsOf
<1>8. IsFiniteSet(T) /\ \A e \in T : e.key \in Nat /\ e.kind # "phase"
  BY <1>4, <1>6, StandingRows DEF TablesKept, EventsTimed
<1>9. IsFiniteSet(P) /\ (\A e \in P : e.kind = "phase" /\ e.key < d.key)
  <2>1. IsFiniteSet(P)
    BY <1>5, <1>7, FS_Subset
  <2>2. \A f \in phases[s] : Draft(f.at, 3, 0, "phase").kind = "phase"
                             /\ Draft(f.at, 3, 0, "phase").key = SortKey(f.at, 3, 0)
    BY DEF Draft
  <2> QED BY <1>1, <1>4, <1>6, <2>1, <2>2 DEF PhaseDrafts
<1>10. d.key \in Nat
  BY <1>5
<1>11. d \notin P /\ d \in T
  BY <1>7, <1>9, <1>10
<1>12. PICK U : U = {e \in Current(v) : e.key <= d.key} /\ IsFiniteSet(U) /\ d \in U
  <2>1. PICK U : U = {e \in Current(v) : e.key <= d.key}
    OBVIOUS
  <2>2. U \in SUBSET Current(v) /\ d \in U
    BY <1>10, <2>1
  <2>3. IsFiniteSet(U)
    BY <1>5, <2>2, FS_Subset
  <2> QED BY <2>1, <2>2, <2>3
<1>13. Sequence(d, Current(v)) = Cardinality(U) /\ Cardinality(U) \in Nat
  BY <1>12, FS_CardinalityType DEF Sequence
<1>14. CASE n = 0
  <2>1. Cardinality(U) # 0
    BY <1>12, FS_EmptySet
  <2> QED BY <1>1, <1>13, <1>14, <2>1
<1>15. CASE n > 0
  <2>1. PICK m \in v.given \union v.fresh : Counted(s, n, m)
    BY <1>1, <1>15 DEF Following
  <2>2. m \in Nat /\ m < d.key
    BY <2>1 DEF Following
  <2>3. PICK A : A = UpTo(T, m)
    OBVIOUS
  <2>4. IsFiniteSet(A) /\ Cardinality(A) \in Nat
    BY <1>8, <2>3, CountsGrow
  <2>5. n <= Cardinality(A) + (IF active # None THEN 1 ELSE 0)
    BY <1>1, <1>6, <2>1, <2>3 DEF Counted
  <2>6. A \intersect P = {} /\ d \notin A \union P
    BY <1>8, <1>9, <1>10, <1>11, <2>2, <2>3 DEF UpTo
  <2>7. A \union P \union {d} \subseteq U
    <3>1. \A e \in A : e \in T /\ e.key <= d.key
      BY <1>8, <1>10, <2>2, <2>3 DEF UpTo
    <3>2. \A e \in P : e \in Current(v) /\ e.key <= d.key
      BY <1>5, <1>7, <1>9, <1>10
    <3> QED BY <1>7, <1>12, <3>1, <3>2
  <2>8. active # None => Cardinality(P) # 0
    <3>1. active # None => \E f \in phases[s] : f.key = active
      BY <1>1, <1>2 DEF PhasesTimed, Keys
    <3>2. active # None => P # {}
      BY <1>4, <1>6, <3>1 DEF PhaseDrafts
    <3> QED BY <1>9, <3>2, FS_EmptySet
  <2>9. Cardinality(P) \in Nat
    BY <1>9, FS_CardinalityType
  <2>10. /\ IsFiniteSet(A \union P)
         /\ Cardinality(A \union P) = Cardinality(A) + Cardinality(P)
    <3>1. Cardinality(A \union P) = Cardinality(A) + Cardinality(P) - Cardinality(A \intersect P)
      BY <1>9, <2>4, FS_Union
    <3>2. Cardinality(A \intersect P) = 0
      BY <2>6, FS_EmptySet
    <3> QED BY <1>9, <2>4, <2>9, <3>1, <3>2, FS_Union
  <2>11. Cardinality(A \union P \union {d}) = Cardinality(A \union P) + 1
    BY <2>6, <2>10, FS_AddElement
  <2>12. Cardinality(A \union P \union {d}) <= Cardinality(U)
    BY <1>12, <2>7, FS_Subset
  <2>13. n < Cardinality(U)
    BY <1>2, <1>13, <2>4, <2>5, <2>8, <2>9, <2>10, <2>11, <2>12
  <2> QED BY <1>1, <1>13, <2>13
<1> QED BY <1>2, <1>14, <1>15

\* Positions are the cursor of the feed, and rows come into the middle of its list
\* and out of it: what is newer than all a client was given, and than the phases,
\* is above its cursor, so that no client stops short of it.  Any number of clients,
\* sessions, jobs and polls, crashes in between (get_session_activity,
\* _materialize_events).
THEOREM NewestIsReached == Spec => []FeedReachesNewest
<1>1. SetupInv /\ WatchInv /\ FeedInv => FeedReachesNewest
  <2> SUFFICES ASSUME SetupInv, WatchInv, FeedInv, NEW c \in Clients, NEW v, v = view[c],
                      NEW d \in Current(v),
                      \A k \in v.given \union v.fresh
                               \union {SortKey(f.at, 3, 0) : f \in phases[v.session]} : k < d.key
               PROVE  Sequence(d, Current(v)) > v.cursor
    BY DEF FeedReachesNewest
  <2>1. SetupTables /\ TablesKept /\ EventsTimed /\ PhasesTimed /\ Following(v)
    BY DEF SetupInv, WatchInv, FeedInv
  <2> QED BY <2>1, NewestIsAbove
<1>2. Spec => []FeedInv
  BY FeedStarts, FeedNext, SetupInvariance, WatchInvariance, PTL DEF Spec
<1> QED BY <1>1, <1>2, SetupInvariance, WatchInvariance, PTL
----------------------------------------------------------------------------
(* Sums over a finite set *)

\* The parts of X, by the value g gives its members.
Part(X, g, s) == {j \in X : g[j] = s}
Parts(X, g, D) == {j \in X : g[j] \in D}
\* A fold that adds up the parts.
AddsUp(it, X, g, D) ==
  it = [d \in SUBSET D |-> IF d = {} THEN 0
                           ELSE Cardinality(Part(X, g, CHOOSE y \in d : TRUE))
                                + it[d \ {CHOOSE y \in d : TRUE}]]

LEMMA PartsSplit ==
  ASSUME NEW X, IsFiniteSet(X), NEW g, NEW d, NEW x, x \in d, NEW e, e = d \ {x}
  PROVE  /\ Cardinality(Parts(X, g, d)) = Cardinality(Part(X, g, x)) + Cardinality(Parts(X, g, e))
         /\ Cardinality(Parts(X, g, d)) \in Nat
<1>1. PICK A, B, C : A = Part(X, g, x) /\ B = Parts(X, g, e) /\ C = Parts(X, g, d)
  OBVIOUS
<1>2. A \subseteq X /\ B \subseteq X /\ C \subseteq X /\ C = A \union B /\ A \intersect B = {}
  BY <1>1 DEF Part, Parts
<1>3. IsFiniteSet(A) /\ IsFiniteSet(B) /\ IsFiniteSet(C)
  BY <1>2, FS_Subset
<1>4. Cardinality(A) \in Nat /\ Cardinality(B) \in Nat /\ Cardinality(C) \in Nat
  BY <1>3, FS_CardinalityType
<1>5. Cardinality(A \union B) = Cardinality(A) + Cardinality(B) - Cardinality(A \intersect B)
  BY <1>3, FS_Union
<1>6. Cardinality(A \intersect B) = 0
  BY <1>2, FS_EmptySet
<1>7. Cardinality(C) = Cardinality(A) + Cardinality(B)
  BY <1>2, <1>4, <1>5, <1>6
<1> QED BY <1>1, <1>4, <1>7

LEMMA SumExists ==
  ASSUME NEW D, NEW X, IsFiniteSet(X), NEW g
  PROVE  \E it : AddsUp(it, X, g, D)
<1> DEFINE it == [d \in SUBSET D |-> Cardinality(Parts(X, g, d))]
<1>1. ASSUME NEW d \in SUBSET D
      PROVE  Cardinality(Parts(X, g, d)) =
               IF d = {} THEN 0
               ELSE Cardinality(Part(X, g, CHOOSE y \in d : TRUE)) + it[d \ {CHOOSE y \in d : TRUE}]
  <2>1. CASE d = {}
    <3>1. Parts(X, g, d) = {}
      BY <2>1 DEF Parts
    <3> QED BY <2>1, <3>1, FS_EmptySet
  <2>2. CASE d # {}
    <3>1. PICK x : x = (CHOOSE y \in d : TRUE) /\ x \in d
      BY <2>2
    <3>2. PICK e : e = d \ {x} /\ it[e] = Cardinality(Parts(X, g, e))
      BY <1>1
    <3>3. /\ Cardinality(Parts(X, g, d)) = Cardinality(Part(X, g, x)) + Cardinality(Parts(X, g, e))
          /\ Cardinality(Parts(X, g, d)) \in Nat
      <4>1. x \in d /\ e = d \ {x} /\ IsFiniteSet(X)
        BY <3>1, <3>2
      <4> QED BY <4>1, PartsSplit
    <3> QED BY <2>2, <3>1, <3>2, <3>3
  <2> QED BY <2>1, <2>2
<1>2. AddsUp(it, X, g, D)
  BY <1>1 DEF AddsUp
<1> QED BY <1>2

\* Were there a set a fold is wrong about, there were a smallest.
LEMMA SumOfParts ==
  ASSUME NEW D, IsFiniteSet(D), NEW X, IsFiniteSet(X), NEW g, NEW it, AddsUp(it, X, g, D)
  PROVE  it[D] = Cardinality(Parts(X, g, D))
<1> DEFINE Wrong == {d \in SUBSET D : it[d] # Cardinality(Parts(X, g, d))}
           Sizes == {Cardinality(d) : d \in Wrong}
<1>1. \A d \in SUBSET D : IsFiniteSet(d) /\ Cardinality(d) \in Nat
  BY FS_Subset, FS_CardinalityType
<1>9. \A c, y, e : y \in c /\ e = c \ {y} =>
        Cardinality(Parts(X, g, c)) = Cardinality(Part(X, g, y)) + Cardinality(Parts(X, g, e))
  <2> HIDE DEF Wrong, Sizes
  <2> QED BY PartsSplit
<1>2. SUFFICES ASSUME Wrong # {} PROVE FALSE
  OBVIOUS
<1>3. Sizes \in SUBSET Nat /\ Sizes # {}
  BY <1>1, <1>2
<1>4. PICK n \in Sizes : \A m \in Sizes : n <= m
  BY <1>3, SmallestOf
<1>5. PICK d \in Wrong : n = Cardinality(d)
  BY <1>4
<1>6. it[d] = IF d = {} THEN 0
              ELSE Cardinality(Part(X, g, CHOOSE y \in d : TRUE)) + it[d \ {CHOOSE y \in d : TRUE}]
  BY <1>5 DEF AddsUp
<1>7. CASE d = {}
  <2>1. Parts(X, g, d) = {}
    BY <1>7 DEF Parts
  <2> QED BY <1>5, <1>6, <1>7, <2>1, FS_EmptySet
<1>8. CASE d # {}
  <2>1. PICK x : x = (CHOOSE y \in d : TRUE) /\ x \in d
    BY <1>8
  <2>2. PICK e : e = d \ {x} /\ e \in SUBSET D
    BY <1>5
  <2>3. Cardinality(e) = Cardinality(d) - 1
    BY <1>1, <1>5, <2>1, <2>2, FS_RemoveElement
  <2>4. Cardinality(e) \in Nat /\ Cardinality(d) \in Nat
    BY <1>1, <1>5, <2>2
  <2>5. e \notin Wrong
    BY <1>4, <1>5, <2>3, <2>4
  <2>6. it[e] = Cardinality(Parts(X, g, e))
    BY <2>2, <2>5
  <2>7. it[d] = Cardinality(Part(X, g, x)) + it[e]
    BY <1>6, <1>8, <2>1, <2>2
  <2>8. Cardinality(Parts(X, g, d)) = Cardinality(Part(X, g, x)) + Cardinality(Parts(X, g, e))
    <3>1. x \in d /\ e = d \ {x}
      BY <2>1, <2>2
    <3> HIDE DEF Wrong, Sizes
    <3> QED BY <1>9, <3>1
  <2> QED BY <1>5, <2>6, <2>7, <2>8
<1> QED BY <1>7, <1>8

\* The sum FiltersSelect takes.
Total(n, D) == FoldSet(LAMBDA s, m : n[s] + m, 0, D)

LEMMA TotalOfParts ==
  ASSUME NEW D, IsFiniteSet(D), NEW X, IsFiniteSet(X), NEW g, NEW n,
         \A s \in D : n[s] = Cardinality(Part(X, g, s))
  PROVE  Total(n, D) = Cardinality(Parts(X, g, D))
<1> DEFINE Is(it) == it = [d \in SUBSET D |-> IF d = {} THEN 0
                                              ELSE n[CHOOSE y \in d : TRUE] + it[d \ {CHOOSE y \in d : TRUE}]]
<1>1. \A it : Is(it) <=> AddsUp(it, X, g, D)
  <2> SUFFICES ASSUME NEW it PROVE Is(it) <=> AddsUp(it, X, g, D)
    OBVIOUS
  <2>1. \A d \in SUBSET D : d # {} => (CHOOSE y \in d : TRUE) \in D
    OBVIOUS
  <2>2. \A d \in SUBSET D :
          (IF d = {} THEN 0 ELSE n[CHOOSE y \in d : TRUE] + it[d \ {CHOOSE y \in d : TRUE}])
          = (IF d = {} THEN 0 ELSE Cardinality(Part(X, g, CHOOSE y \in d : TRUE))
                                    + it[d \ {CHOOSE y \in d : TRUE}])
    BY <2>1
  <2> QED BY <2>2 DEF AddsUp
<1> HIDE DEF Is
<1>2. \E it : Is(it)
  BY <1>1, SumExists
<1>3. Is(CHOOSE f : Is(f))
  BY <1>2
<1>4. Total(n, D) = (CHOOSE f : Is(f))[D]
  BY DEF Total, FoldSet, MapThenFoldSet, Is
<1>5. PICK it : it = (CHOOSE f : Is(f)) /\ Is(it)
  BY <1>3
<1>6. it[D] = Cardinality(Parts(X, g, D))
  BY <1>1, <1>5, SumOfParts
<1> QED BY <1>4, <1>5, <1>6
----------------------------------------------------------------------------
(* A row filtered twice is a row filtered once *)

\* The tables of a dashboard, and the filter that lets all pass.
Shaped(t) ==
  DOMAIN t = {"sessions", "jobs", "approvals", "phases", "reviews", "runs", "contexts", "tasks",
              "hooks", "deliveries", "pools"}
Unfiltered == Filters(NoKey, NoKey, NoKey, NoKey)

\* The jobs a filter lets pass, where one is counted, and those counted there.
Shown(S, f) == {j \in DOMAIN S.rows.jobs : JobMatches(S, f, j)}
Place(S, j) == <<S.rows.jobs[j].session, S.jobPhase[j], S.poolOf[j]>>
CountedAt(S, f, statuses, g) == {j \in JobsWith(S, f, statuses) : Place(S, j) = g}
ShownAt(S, f, g) == {j \in Shown(S, f) : Place(S, j) = g}

\* The indexes of a snapshot are made before a filter and stay; a row that is
\* kept is kept as it is, and passes the filter again.
LEMMA FilteredRows ==
  ASSUME NEW t, Shaped(t), NEW f, NEW S, NEW T, S = Snapshot(t), T = FilterSnapshot(S, f)
  PROVE  /\ T.sessions = S.sessions /\ T.poolOf = S.poolOf /\ T.phaseOf = S.phaseOf
         /\ T.jobPhase = S.jobPhase
         /\ S.rows = t /\ S.sessions = DOMAIN t.sessions
         /\ Shown(T, f) = Shown(S, f)
         /\ \A j \in Shown(S, f) : T.rows.jobs[j] = t.jobs[j]
         /\ \A statuses : JobsWith(T, f, statuses) = JobsWith(S, f, statuses)
         /\ PendingReviews(T, f) = PendingReviews(S, f)
         /\ \A v \in PendingReviews(S, f) : T.rows.reviews[v] = t.reviews[v]
         /\ Tasks(T, f) = Tasks(S, f)
         /\ \A k \in Tasks(S, f) : T.rows.tasks[k] = t.tasks[k] /\ TaskPool(T, k) = TaskPool(S, k)
         /\ f.pool = NoKey => T.rows.pools = t.pools
         /\ f.pool # NoKey => /\ DOMAIN T.rows.pools = {k \in DOMAIN t.pools : k = f.pool}
                              /\ \A k \in DOMAIN T.rows.pools : T.rows.pools[k] = t.pools[k]
<1>1. /\ DOMAIN S = {"rows", "sessions", "jobOf", "poolOf", "phaseOf", "jobPhase"}
      /\ S.rows = t /\ S.sessions = DOMAIN t.sessions
  BY DEF Snapshot
<1>2. PICK rows : /\ T = [S EXCEPT !.rows = rows]
                  /\ rows.jobs = Keep(t.jobs, LAMBDA j : JobMatches(S, f, j))
                  /\ rows.reviews = Keep(t.reviews, LAMBDA v : ReviewMatches(S, f, v))
                  /\ rows.tasks = Keep(t.tasks, LAMBDA k : TaskMatches(S, f, k))
                  /\ rows.pools = IF f.pool = NoKey THEN t.pools ELSE Keep(t.pools, LAMBDA k : k = f.pool)
  <2> DEFINE hooks == Keep(t.hooks, LAMBDA w : HookMatches(S, f, w))
  <2>1. PICK a, b, c, d, e, g, i, l, m, n :
          /\ a = Keep(t.sessions, LAMBDA s : SessionMatches(S, f, s))
          /\ b = Keep(t.jobs, LAMBDA j : JobMatches(S, f, j))
          /\ c = Keep(t.reviews, LAMBDA v : ReviewMatches(S, f, v))
          /\ d = Keep(t.runs, LAMBDA u : RunMatches(S, f, u))
          /\ e = Keep(t.contexts, LAMBDA j : ContextMatches(S, f, j))
          /\ g = Keep(t.tasks, LAMBDA k : TaskMatches(S, f, k))
          /\ i = Keep(t.approvals, LAMBDA x : ApprovalMatches(S, f, x))
          /\ l = Keep(t.hooks, LAMBDA w : HookMatches(S, f, w))
          /\ m = Keep(t.deliveries, LAMBDA x : DeliveryMatches(S, f, DOMAIN l, x))
          /\ n = IF f.pool = NoKey THEN t.pools ELSE Keep(t.pools, LAMBDA k : k = f.pool)
    OBVIOUS
  <2>2. PICK rows : rows = [t EXCEPT !.sessions = a, !.jobs = b, !.reviews = c, !.runs = d,
                                     !.contexts = e, !.tasks = g, !.approvals = i, !.hooks = l,
                                     !.deliveries = m, !.pools = n]
    OBVIOUS
  <2>3. T = [S EXCEPT !.rows = rows]
    BY <1>1, <2>1, <2>2 DEF FilterSnapshot
  <2>4. rows.jobs = b /\ rows.reviews = c /\ rows.tasks = g /\ rows.pools = n
    BY <2>2 DEF Shaped
  <2> QED BY <2>1, <2>3, <2>4
<1>3. /\ T.rows = rows /\ T.sessions = S.sessions /\ T.poolOf = S.poolOf /\ T.phaseOf = S.phaseOf
      /\ T.jobPhase = S.jobPhase
  BY <1>1, <1>2
<1>4. /\ rows.jobs = Restrict(t.jobs, {j \in DOMAIN t.jobs : JobMatches(S, f, j)})
      /\ rows.reviews = Restrict(t.reviews, {v \in DOMAIN t.reviews : ReviewMatches(S, f, v)})
      /\ rows.tasks = Restrict(t.tasks, {k \in DOMAIN t.tasks : TaskMatches(S, f, k)})
      /\ rows.pools = IF f.pool = NoKey THEN t.pools
                      ELSE Restrict(t.pools, {k \in DOMAIN t.pools : k = f.pool})
  BY <1>2 DEF Keep
<1>5. /\ DOMAIN T.rows.jobs = {j \in DOMAIN t.jobs : JobMatches(S, f, j)}
      /\ \A j \in DOMAIN T.rows.jobs : T.rows.jobs[j] = t.jobs[j]
  BY <1>3, <1>4 DEF Restrict
<1>6. /\ DOMAIN T.rows.reviews = {v \in DOMAIN t.reviews : ReviewMatches(S, f, v)}
      /\ \A v \in DOMAIN T.rows.reviews : T.rows.reviews[v] = t.reviews[v]
  BY <1>3, <1>4 DEF Restrict
<1>7. /\ DOMAIN T.rows.tasks = {k \in DOMAIN t.tasks : TaskMatches(S, f, k)}
      /\ \A k \in DOMAIN T.rows.tasks : T.rows.tasks[k] = t.tasks[k]
  BY <1>3, <1>4 DEF Restrict
<1>8. /\ f.pool = NoKey => T.rows.pools = t.pools
      /\ f.pool # NoKey => /\ DOMAIN T.rows.pools = {k \in DOMAIN t.pools : k = f.pool}
                           /\ \A k \in DOMAIN T.rows.pools : T.rows.pools[k] = t.pools[k]
  BY <1>3, <1>4 DEF Restrict
<1>9. \A j \in DOMAIN T.rows.jobs : JobMatches(T, f, j) <=> JobMatches(S, f, j)
  BY <1>1, <1>3, <1>5 DEF JobMatches
<1>10. Shown(S, f) = DOMAIN T.rows.jobs /\ Shown(T, f) = Shown(S, f)
  BY <1>1, <1>5, <1>9 DEF Shown
<1>11. ASSUME NEW statuses PROVE JobsWith(T, f, statuses) = JobsWith(S, f, statuses)
  <2>1. JobsWith(T, f, statuses) = {j \in Shown(T, f) : T.rows.jobs[j].status \in statuses}
    BY DEF JobsWith, Shown
  <2>2. JobsWith(S, f, statuses) = {j \in Shown(S, f) : S.rows.jobs[j].status \in statuses}
    BY DEF JobsWith, Shown
  <2> QED BY <1>1, <1>5, <1>10, <2>1, <2>2
<1>12. ASSUME NEW v \in DOMAIN T.rows.reviews PROVE ReviewMatches(T, f, v) <=> ReviewMatches(S, f, v)
  <2>1. T.rows.reviews[v] = S.rows.reviews[v]
    BY <1>1, <1>6
  <2>2. PICK row : row = T.rows.reviews[v] /\ row = S.rows.reviews[v]
    BY <2>1
  <2>3. Lookup(T.poolOf, row.job) = Lookup(S.poolOf, row.job)
    BY <1>3
  <2>4. PICK pool : pool = Lookup(T.poolOf, row.job) /\ pool = Lookup(S.poolOf, row.job)
    BY <2>3
  <2>5. ReviewMatches(T, f, v) <=>
          /\ row.session \in T.sessions /\ row.status = "requested"
          /\ Passes(f.session, row.session) /\ Passes(f.phase, T.phaseOf[row.session])
          /\ Passes(f.template, row.template) /\ Passes(f.pool, pool)
    BY <2>2, <2>4 DEF ReviewMatches
  <2>6. ReviewMatches(S, f, v) <=>
          /\ row.session \in S.sessions /\ row.status = "requested"
          /\ Passes(f.session, row.session) /\ Passes(f.phase, S.phaseOf[row.session])
          /\ Passes(f.template, row.template) /\ Passes(f.pool, pool)
    BY <2>2, <2>4 DEF ReviewMatches
  <2> QED BY <1>3, <2>5, <2>6
<1>13. \A k \in DOMAIN T.rows.tasks : /\ TaskPhase(T, k) = TaskPhase(S, k) /\ TaskPool(T, k) = TaskPool(S, k)
                                      /\ TaskMatches(T, f, k) <=> TaskMatches(S, f, k)
  BY <1>1, <1>3, <1>7 DEF TaskMatches, TaskPhase, TaskPool
<1>14. PendingReviews(S, f) = DOMAIN T.rows.reviews /\ PendingReviews(T, f) = PendingReviews(S, f)
  BY <1>1, <1>6, <1>12 DEF PendingReviews
<1>15. Tasks(S, f) = DOMAIN T.rows.tasks /\ Tasks(T, f) = Tasks(S, f)
  BY <1>1, <1>7, <1>13 DEF Tasks
<1>16. \A statuses : JobsWith(T, f, statuses) = JobsWith(S, f, statuses)
  BY <1>11
<1>17. \A j \in Shown(S, f) : T.rows.jobs[j] = t.jobs[j]
  BY <1>5, <1>10
<1>18. \A v \in PendingReviews(S, f) : T.rows.reviews[v] = t.reviews[v]
  BY <1>6, <1>14
<1>19. \A k \in Tasks(S, f) : T.rows.tasks[k] = t.tasks[k] /\ TaskPool(T, k) = TaskPool(S, k)
  BY <1>7, <1>13, <1>15
<1> QED BY <1>1, <1>3, <1>8, <1>10, <1>14, <1>15, <1>16, <1>17, <1>18, <1>19

\* The builders see in the filtered rows what they see in all of them.
HeatOf(S, f) ==
  [g \in {Place(S, j) : j \in Shown(S, f)} |->
    [queued |-> Cardinality(CountedAt(S, f, {"queued"}, g)),
     running |-> Cardinality(CountedAt(S, f, {"running"}, g)),
     blocked |-> Cardinality(CountedAt(S, f, BlockedStatuses, g)),
     total |-> Cardinality(ShownAt(S, f, g))]]

LEMMA HeatIs ==
  ASSUME NEW S, NEW f
  PROVE  QueueHeat(S, f) = HeatOf(S, f)
BY DEF QueueHeat, HeatOf, Place, CountedAt, ShownAt, Shown

LEMMA FilteredHeat ==
  ASSUME NEW t, Shaped(t), NEW f, NEW S, S = Snapshot(t)
  PROVE  View(t, f).heat = HeatOf(S, f)
<1>1. PICK T : T = FilterSnapshot(S, f)
  OBVIOUS
<1>2. View(t, f).heat = QueueHeat(T, f)
  BY <1>1 DEF View
<1>3. /\ T.poolOf = S.poolOf /\ T.jobPhase = S.jobPhase /\ S.rows = t
      /\ Shown(T, f) = Shown(S, f)
      /\ \A j \in Shown(S, f) : T.rows.jobs[j] = t.jobs[j]
      /\ \A statuses : JobsWith(T, f, statuses) = JobsWith(S, f, statuses)
  BY <1>1, FilteredRows
<1>4. \A j \in Shown(S, f) : Place(T, j) = Place(S, j)
  BY <1>3 DEF Place
<1>5. \A statuses : JobsWith(S, f, statuses) \subseteq Shown(S, f)
  BY DEF JobsWith, Shown
<1>6. ASSUME NEW g PROVE /\ \A statuses : CountedAt(T, f, statuses, g) = CountedAt(S, f, statuses, g)
                         /\ ShownAt(T, f, g) = ShownAt(S, f, g)
  BY <1>3, <1>4, <1>5 DEF CountedAt, ShownAt
<1>7. {Place(T, j) : j \in Shown(T, f)} = {Place(S, j) : j \in Shown(S, f)}
  BY <1>3, <1>4
<1>8. HeatOf(T, f) = HeatOf(S, f)
  BY <1>6, <1>7 DEF HeatOf
<1> QED BY <1>2, <1>8, HeatIs

Waiting(S, f, k) == {v \in PendingReviews(S, f) : Lookup(S.poolOf, S.rows.reviews[v].job) = k}
InPool(S, f, statuses, k) == {j \in JobsWith(S, f, statuses) : S.poolOf[j] = k}
Pending(S, f, k) == {i \in Tasks(S, f) : TaskPool(S, i) = k /\ S.rows.tasks[i].status \in PendingTaskStatuses}
PoolRow(S, f, k) ==
  [status |-> S.rows.pools[k].status, waiting |-> S.rows.pools[k].waiting,
   queued |-> Cardinality(InPool(S, f, {"queued"}, k)),
   blocked |-> Cardinality(InPool(S, f, BlockedStatuses, k)),
   reviews |-> Cardinality(Waiting(S, f, k)), tasks |-> Cardinality(Pending(S, f, k))]
PoolsOf(S, f) == [k \in {k \in DOMAIN S.rows.pools : Passes(f.pool, k)} |-> PoolRow(S, f, k)]

LEMMA FilteredPools ==
  ASSUME NEW t, Shaped(t), NEW f, NEW S, S = Snapshot(t)
  PROVE  View(t, f).pools = PoolsOf(S, f)
<1>1. PICK T : T = FilterSnapshot(S, f)
  OBVIOUS
<1>2. View(t, f).pools = PoolHealth(T, f)
  BY <1>1 DEF View
<1>3. PoolHealth(T, f) = PoolsOf(T, f)
  BY DEF PoolHealth, PoolsOf, PoolRow, InPool, Waiting, Pending
<1>4. /\ T.poolOf = S.poolOf /\ S.rows = t
      /\ \A statuses : JobsWith(T, f, statuses) = JobsWith(S, f, statuses)
      /\ PendingReviews(T, f) = PendingReviews(S, f)
      /\ \A v \in PendingReviews(S, f) : T.rows.reviews[v] = t.reviews[v]
      /\ Tasks(T, f) = Tasks(S, f)
      /\ \A k \in Tasks(S, f) : T.rows.tasks[k] = t.tasks[k] /\ TaskPool(T, k) = TaskPool(S, k)
      /\ f.pool = NoKey => T.rows.pools = t.pools
      /\ f.pool # NoKey => /\ DOMAIN T.rows.pools = {k \in DOMAIN t.pools : k = f.pool}
                           /\ \A k \in DOMAIN T.rows.pools : T.rows.pools[k] = t.pools[k]
  BY <1>1, FilteredRows
<1>5. {k \in DOMAIN T.rows.pools : Passes(f.pool, k)} = {k \in DOMAIN S.rows.pools : Passes(f.pool, k)}
  BY <1>4 DEF Passes
<1>6. ASSUME NEW k \in {k \in DOMAIN T.rows.pools : Passes(f.pool, k)}
      PROVE  T.rows.pools[k] = S.rows.pools[k]
  BY <1>4
<1>7. ASSUME NEW k
      PROVE  /\ \A statuses : InPool(T, f, statuses, k) = InPool(S, f, statuses, k)
             /\ Waiting(T, f, k) = Waiting(S, f, k) /\ Pending(T, f, k) = Pending(S, f, k)
  <2>1. Waiting(T, f, k) = Waiting(S, f, k)
    BY <1>4 DEF Waiting
  <2>2. Pending(T, f, k) = Pending(S, f, k)
    BY <1>4 DEF Pending
  <2>3. \A statuses : InPool(T, f, statuses, k) = InPool(S, f, statuses, k)
    BY <1>4 DEF InPool
  <2> QED BY <2>1, <2>2, <2>3
<1>8. PoolsOf(T, f) = PoolsOf(S, f)
  <2>1. ASSUME NEW k \in {k \in DOMAIN T.rows.pools : Passes(f.pool, k)}
        PROVE  PoolRow(T, f, k) = PoolRow(S, f, k)
    BY <1>6, <1>7 DEF PoolRow
  <2> QED BY <1>5, <2>1 DEF PoolsOf
<1> QED BY <1>2, <1>3, <1>8

TasksWith(t, S, f, status) == {k \in Tasks(S, f) : t.tasks[k].status = status}

LEMMA FilteredTasks ==
  ASSUME NEW t, Shaped(t), NEW f, NEW S, S = Snapshot(t)
  PROVE  \A status \in PendingTaskStatuses :
           View(t, f).tasks[status] = Cardinality(TasksWith(t, S, f, status))
<1>1. PICK T : T = FilterSnapshot(S, f)
  OBVIOUS
<1>2. View(t, f).tasks = Throughput(T, f)
  BY <1>1 DEF View
<1>3. Tasks(T, f) = Tasks(S, f) /\ \A k \in Tasks(S, f) : T.rows.tasks[k] = t.tasks[k]
  BY <1>1, FilteredRows
<1>4. \A status : {k \in Tasks(T, f) : T.rows.tasks[k].status = status} = TasksWith(t, S, f, status)
  BY <1>3 DEF TasksWith
<1>5. \A status \in PendingTaskStatuses :
        Throughput(T, f)[status] = Cardinality({k \in Tasks(T, f) : T.rows.tasks[k].status = status})
  BY DEF Throughput, PendingTaskStatuses
<1> QED BY <1>2, <1>4, <1>5
----------------------------------------------------------------------------
(* What a filter selects *)

\* Tables of finitely many rows, of which no session and no pool is named like no
\* filter, and the tasks are of sessions there are.
WholeTables(t) ==
  /\ Shaped(t)
  /\ IsFiniteSet(DOMAIN t.sessions) /\ IsFiniteSet(DOMAIN t.jobs) /\ IsFiniteSet(DOMAIN t.tasks)
  /\ NoKey \notin DOMAIN t.sessions /\ NoKey \notin DOMAIN t.pools
  /\ \A k \in DOMAIN t.tasks : t.tasks[k].session \in DOMAIN t.sessions

\* A row passes a filter if it passes without one and is at the place asked for.
LEMMA FilterIsPlace ==
  ASSUME NEW S, NEW s, NEW phase, NEW pool
  PROVE  LET f == Filters(s, NoKey, phase, pool) IN
         /\ \A j : JobMatches(S, f, j) <=>
              /\ JobMatches(S, Unfiltered, j)
              /\ Passes(s, S.rows.jobs[j].session) /\ Passes(phase, S.jobPhase[j]) /\ Passes(pool, S.poolOf[j])
         /\ \A k : TaskMatches(S, f, k) <=>
              /\ TaskMatches(S, Unfiltered, k)
              /\ Passes(s, S.rows.tasks[k].session) /\ Passes(phase, TaskPhase(S, k)) /\ Passes(pool, TaskPool(S, k))
<1> DEFINE f == Filters(s, NoKey, phase, pool)
<1>1. /\ f.session = s /\ f.template = NoKey /\ f.phase = phase /\ f.pool = pool
      /\ Unfiltered.session = NoKey /\ Unfiltered.template = NoKey
      /\ Unfiltered.phase = NoKey /\ Unfiltered.pool = NoKey
  BY DEF Filters, Unfiltered
<1>2. \A x : Passes(NoKey, x)
  BY DEF Passes
<1> HIDE DEF f
<1>3. \A j : JobMatches(S, f, j) <=>
              /\ JobMatches(S, Unfiltered, j)
              /\ Passes(s, S.rows.jobs[j].session) /\ Passes(phase, S.jobPhase[j]) /\ Passes(pool, S.poolOf[j])
  BY <1>1, <1>2 DEF JobMatches
<1>4. \A k : TaskMatches(S, f, k) <=>
              /\ TaskMatches(S, Unfiltered, k)
              /\ Passes(s, S.rows.tasks[k].session) /\ Passes(phase, TaskPhase(S, k)) /\ Passes(pool, TaskPool(S, k))
  BY <1>1, <1>2 DEF TaskMatches
<1> QED BY <1>3, <1>4 DEF f

LEMMA ReviewOfPool ==
  ASSUME NEW S, NEW k
  PROVE  LET f == Filters(NoKey, NoKey, NoKey, k) IN
         \A v : ReviewMatches(S, f, v) <=>
           ReviewMatches(S, Unfiltered, v) /\ Passes(k, Lookup(S.poolOf, S.rows.reviews[v].job))
<1> DEFINE f == Filters(NoKey, NoKey, NoKey, k)
<1>1. /\ f.session = NoKey /\ f.template = NoKey /\ f.phase = NoKey /\ f.pool = k
      /\ Unfiltered.session = NoKey /\ Unfiltered.template = NoKey
      /\ Unfiltered.phase = NoKey /\ Unfiltered.pool = NoKey
  BY DEF Filters, Unfiltered
<1>2. \A x : Passes(NoKey, x)
  BY DEF Passes
<1> HIDE DEF f
<1>3. \A v : ReviewMatches(S, f, v) <=>
           ReviewMatches(S, Unfiltered, v) /\ Passes(k, Lookup(S.poolOf, S.rows.reviews[v].job))
  BY <1>1, <1>2 DEF ReviewMatches
<1> QED BY <1>3 DEF f

LEMMA HeatSelected ==
  ASSUME NEW t, WholeTables(t), NEW S, S = Snapshot(t), NEW g \in DOMAIN HeatOf(S, Unfiltered)
  PROVE  HeatOf(S, Filters(g[1], NoKey, g[2], g[3]))
         = Restrict(HeatOf(S, Unfiltered),
                    {x \in DOMAIN HeatOf(S, Unfiltered) :
                      x[1] = g[1] /\ Passes(g[2], x[2]) /\ Passes(g[3], x[3])})
<1>1. PICK f : f = Filters(g[1], NoKey, g[2], g[3])
  OBVIOUS
<1>2. PICK d \in Shown(S, Unfiltered) : g = Place(S, d)
  BY DEF HeatOf
<1>3. S.rows = t /\ S.sessions = DOMAIN t.sessions
  BY DEF Snapshot
<1>4. g[1] \in DOMAIN t.sessions /\ g[1] # NoKey
  BY <1>2, <1>3 DEF Place, Shown, JobMatches, WholeTables
<1>5. \A j : JobMatches(S, f, j) <=>
        /\ JobMatches(S, Unfiltered, j)
        /\ Place(S, j)[1] = g[1] /\ Passes(g[2], Place(S, j)[2]) /\ Passes(g[3], Place(S, j)[3])
  <2>1. \A j : /\ Place(S, j)[1] = S.rows.jobs[j].session
               /\ Place(S, j)[2] = S.jobPhase[j] /\ Place(S, j)[3] = S.poolOf[j]
    BY DEF Place
  <2>2. \A x : Passes(g[1], x) <=> x = g[1]
    BY <1>4 DEF Passes
  <2>3. PICK a, b, c : a = g[1] /\ b = g[2] /\ c = g[3]
    OBVIOUS
  <2>4. \A j : JobMatches(S, f, j) <=>
          /\ JobMatches(S, Unfiltered, j)
          /\ Passes(a, S.rows.jobs[j].session) /\ Passes(b, S.jobPhase[j]) /\ Passes(c, S.poolOf[j])
    BY <1>1, <2>3, FilterIsPlace
  <2> QED BY <2>1, <2>2, <2>3, <2>4
<1> DEFINE Under == {x \in DOMAIN HeatOf(S, Unfiltered) :
                      x[1] = g[1] /\ Passes(g[2], x[2]) /\ Passes(g[3], x[3])}
<1>6. DOMAIN HeatOf(S, Unfiltered) = {Place(S, j) : j \in Shown(S, Unfiltered)}
  BY DEF HeatOf
<1>7. Shown(S, f) = {j \in Shown(S, Unfiltered) : Place(S, j) \in Under}
  BY <1>5, <1>6 DEF Shown
<1>8. {Place(S, j) : j \in Shown(S, f)} = Under
  BY <1>6, <1>7
<1>9. ASSUME NEW x \in Under
      PROVE  /\ \A statuses : CountedAt(S, f, statuses, x) = CountedAt(S, Unfiltered, statuses, x)
             /\ ShownAt(S, f, x) = ShownAt(S, Unfiltered, x)
  <2>1. ShownAt(S, f, x) = ShownAt(S, Unfiltered, x)
    BY <1>7 DEF ShownAt
  <2>2. ASSUME NEW statuses PROVE CountedAt(S, f, statuses, x) = CountedAt(S, Unfiltered, statuses, x)
    <3>1. PICK a : a = ShownAt(S, f, x) /\ a = ShownAt(S, Unfiltered, x)
      BY <2>1
    <3>2. CountedAt(S, f, statuses, x) = {j \in a : S.rows.jobs[j].status \in statuses}
      BY <3>1 DEF CountedAt, ShownAt, JobsWith, Shown
    <3>3. CountedAt(S, Unfiltered, statuses, x) = {j \in a : S.rows.jobs[j].status \in statuses}
      BY <3>1 DEF CountedAt, ShownAt, JobsWith, Shown
    <3> QED BY <3>2, <3>3
  <2> QED BY <2>1, <2>2
<1>10. HeatOf(S, f) = [x \in Under |-> HeatOf(S, Unfiltered)[x]]
  <2>1. ASSUME NEW x \in Under
        PROVE  HeatOf(S, Unfiltered)[x] =
                 [queued |-> Cardinality(CountedAt(S, f, {"queued"}, x)),
                  running |-> Cardinality(CountedAt(S, f, {"running"}, x)),
                  blocked |-> Cardinality(CountedAt(S, f, BlockedStatuses, x)),
                  total |-> Cardinality(ShownAt(S, f, x))]
    BY <1>6, <1>9 DEF HeatOf
  <2> QED BY <1>8, <2>1 DEF HeatOf
<1> QED BY <1>1, <1>10 DEF Restrict

LEMMA PoolSelected ==
  ASSUME NEW t, WholeTables(t), NEW S, S = Snapshot(t), NEW k \in DOMAIN t.pools
  PROVE  PoolsOf(S, Filters(NoKey, NoKey, NoKey, k)) = Restrict(PoolsOf(S, Unfiltered), {k})
<1>1. PICK f : f = Filters(NoKey, NoKey, NoKey, k)
  OBVIOUS
<1>2. f.pool = k /\ Unfiltered.pool = NoKey /\ k # NoKey /\ S.rows = t
  BY <1>1 DEF Filters, Unfiltered, WholeTables, Snapshot
<1>3. /\ {x \in DOMAIN S.rows.pools : Passes(f.pool, x)} = {k}
      /\ k \in {x \in DOMAIN S.rows.pools : Passes(Unfiltered.pool, x)}
  BY <1>2 DEF Passes
<1>4. \A x : Passes(NoKey, x) /\ Passes(k, k)
  BY DEF Passes
<1>5. /\ \A j : JobMatches(S, f, j) <=> JobMatches(S, Unfiltered, j) /\ Passes(k, S.poolOf[j])
      /\ \A i : TaskMatches(S, f, i) <=> TaskMatches(S, Unfiltered, i) /\ Passes(k, TaskPool(S, i))
  BY <1>1, <1>4, FilterIsPlace
<1>6. \A v : ReviewMatches(S, f, v) <=>
           ReviewMatches(S, Unfiltered, v) /\ Passes(k, Lookup(S.poolOf, S.rows.reviews[v].job))
  BY <1>1, ReviewOfPool
<1>7. \A statuses : InPool(S, f, statuses, k) = InPool(S, Unfiltered, statuses, k)
  BY <1>4, <1>5 DEF InPool, JobsWith
<1>8. Waiting(S, f, k) = Waiting(S, Unfiltered, k)
  BY <1>4, <1>6 DEF Waiting, PendingReviews
<1>9. Pending(S, f, k) = Pending(S, Unfiltered, k)
  BY <1>4, <1>5 DEF Pending, Tasks
<1>10. PoolRow(S, f, k) = PoolRow(S, Unfiltered, k)
  BY <1>7, <1>8, <1>9 DEF PoolRow
<1> QED BY <1>1, <1>3, <1>10 DEF PoolsOf, Restrict

\* The blocked jobs of a pool are those of its sessions.
LEMMA BlockedAddUp ==
  ASSUME NEW t, WholeTables(t), NEW S, S = Snapshot(t), NEW k,
         NEW n, \A s \in DOMAIN t.sessions :
                  n[s] = Cardinality(InPool(S, Filters(s, NoKey, NoKey, NoKey), BlockedStatuses, k))
  PROVE  Total(n, DOMAIN t.sessions)
         = Cardinality(InPool(S, Unfiltered, BlockedStatuses, k))
<1>1. PICK X, g, D : /\ X = InPool(S, Unfiltered, BlockedStatuses, k)
                     /\ g = [j \in DOMAIN t.jobs |-> t.jobs[j].session]
                     /\ D = DOMAIN t.sessions
  OBVIOUS
<1>2. S.rows = t /\ S.sessions = D
  BY <1>1 DEF Snapshot
<1>3. IsFiniteSet(D) /\ NoKey \notin D /\ IsFiniteSet(DOMAIN t.jobs)
  BY <1>1 DEF WholeTables
<1>4. X \subseteq DOMAIN t.jobs
  BY <1>1, <1>2 DEF InPool, JobsWith
<1>5. IsFiniteSet(X)
  BY <1>3, <1>4, FS_Subset
<1>6. \A j \in X : g[j] \in D /\ g[j] = t.jobs[j].session
  BY <1>1, <1>2, <1>4 DEF InPool, JobsWith, JobMatches
<1>7. Parts(X, g, D) = X
  BY <1>6 DEF Parts
<1>8. ASSUME NEW s \in D PROVE n[s] = Cardinality(Part(X, g, s))
  <2>1. PICK f : f = Filters(s, NoKey, NoKey, NoKey)
    OBVIOUS
  <2>2. \A x : Passes(NoKey, x) /\ (Passes(s, x) <=> x = s)
    BY <1>3 DEF Passes
  <2>3. \A j : JobMatches(S, f, j) <=> JobMatches(S, Unfiltered, j) /\ S.rows.jobs[j].session = s
    BY <2>1, <2>2, FilterIsPlace
  <2>4. InPool(S, f, BlockedStatuses, k) = {j \in X : S.rows.jobs[j].session = s}
    BY <1>1, <2>3 DEF InPool, JobsWith
  <2>5. InPool(S, f, BlockedStatuses, k) = Part(X, g, s)
    BY <1>2, <1>6, <2>4 DEF Part
  <2> QED BY <1>1, <2>1, <2>5
<1>9. Total(n, D) = Cardinality(Parts(X, g, D))
  BY <1>3, <1>5, <1>8, TotalOfParts
<1> QED BY <1>1, <1>7, <1>9

\* The tasks in flight of a filter, counted by status and together.
InFlight(t, S, f) == {k \in Tasks(S, f) : t.tasks[k].status \in PendingTaskStatuses}

LEMMA InFlightCounts ==
  ASSUME NEW t, WholeTables(t), NEW S, S = Snapshot(t), NEW f
  PROVE  Diagnostics(View(t, f)).inFlight = Cardinality(InFlight(t, S, f))
<1>1. PICK A, B, C, D, AB, CD : /\ A = TasksWith(t, S, f, "queued") /\ B = TasksWith(t, S, f, "running")
                                /\ C = TasksWith(t, S, f, "input_required") /\ D = TasksWith(t, S, f, "auth_required")
                                /\ AB = A \union B /\ CD = C \union D
  OBVIOUS
<1>2. /\ View(t, f).tasks["queued"] = Cardinality(A) /\ View(t, f).tasks["running"] = Cardinality(B)
      /\ View(t, f).tasks["input_required"] = Cardinality(C)
      /\ View(t, f).tasks["auth_required"] = Cardinality(D)
  <2>1. Shaped(t)
    BY DEF WholeTables
  <2> QED BY <1>1, <2>1, FilteredTasks DEF PendingTaskStatuses
<1>3. Tasks(S, f) \subseteq DOMAIN t.tasks /\ IsFiniteSet(DOMAIN t.tasks)
  BY DEF Tasks, Snapshot, WholeTables
<1>4. /\ A \subseteq DOMAIN t.tasks /\ B \subseteq DOMAIN t.tasks /\ C \subseteq DOMAIN t.tasks
      /\ D \subseteq DOMAIN t.tasks /\ AB \subseteq DOMAIN t.tasks /\ CD \subseteq DOMAIN t.tasks
  BY <1>1, <1>3 DEF TasksWith
<1>5. /\ IsFiniteSet(A) /\ IsFiniteSet(B) /\ IsFiniteSet(C) /\ IsFiniteSet(D)
      /\ IsFiniteSet(AB) /\ IsFiniteSet(CD)
  BY <1>3, <1>4, FS_Subset
<1>6. A \intersect B = {} /\ C \intersect D = {} /\ AB \intersect CD = {}
  BY <1>1 DEF TasksWith
<1>7. InFlight(t, S, f) = AB \union CD
  BY <1>1 DEF InFlight, PendingTaskStatuses, TasksWith
<1>8. Cardinality({}) = 0
  BY FS_EmptySet
<1>9. \A V, W : IsFiniteSet(V) /\ IsFiniteSet(W) /\ V \intersect W = {} =>
        /\ Cardinality(V) \in Nat /\ Cardinality(W) \in Nat
        /\ Cardinality(V \union W) = Cardinality(V) + Cardinality(W)
  <2> SUFFICES ASSUME NEW V, NEW W, IsFiniteSet(V), IsFiniteSet(W), V \intersect W = {}
               PROVE  /\ Cardinality(V) \in Nat /\ Cardinality(W) \in Nat
                      /\ Cardinality(V \union W) = Cardinality(V) + Cardinality(W)
    OBVIOUS
  <2>1. Cardinality(V) \in Nat /\ Cardinality(W) \in Nat
    BY FS_CardinalityType
  <2>2. Cardinality(V \union W) = Cardinality(V) + Cardinality(W) - Cardinality(V \intersect W)
    BY FS_Union
  <2>3. Cardinality(V \intersect W) = 0
    BY <1>8
  <2> QED BY <2>1, <2>2, <2>3
<1>10. Cardinality(AB) = Cardinality(A) + Cardinality(B) /\ Cardinality(A) \in Nat /\ Cardinality(B) \in Nat
  BY <1>1, <1>5, <1>6, <1>9
<1>11. Cardinality(CD) = Cardinality(C) + Cardinality(D) /\ Cardinality(C) \in Nat /\ Cardinality(D) \in Nat
  BY <1>1, <1>5, <1>6, <1>9
<1>12. Cardinality(AB \union CD) = Cardinality(AB) + Cardinality(CD)
  BY <1>5, <1>6, <1>9
<1>13. PICK v : v = View(t, f) /\ Diagnostics(v).inFlight = v.tasks["queued"] + v.tasks["running"]
                                    + v.tasks["input_required"] + v.tasks["auth_required"]
  BY DEF Diagnostics
<1> QED BY <1>2, <1>7, <1>10, <1>11, <1>12, <1>13

LEMMA InFlightAddUp ==
  ASSUME NEW t, WholeTables(t), NEW S, S = Snapshot(t),
         NEW n, \A s \in DOMAIN t.sessions :
                  n[s] = Cardinality(InFlight(t, S, Filters(s, NoKey, NoKey, NoKey)))
  PROVE  Total(n, DOMAIN t.sessions) = Cardinality(InFlight(t, S, Unfiltered))
<1>1. PICK X, g, D : /\ X = InFlight(t, S, Unfiltered)
                     /\ g = [k \in DOMAIN t.tasks |-> t.tasks[k].session]
                     /\ D = DOMAIN t.sessions
  OBVIOUS
<1>2. S.rows = t
  BY DEF Snapshot
<1>3. /\ IsFiniteSet(D) /\ NoKey \notin D /\ IsFiniteSet(DOMAIN t.tasks)
      /\ \A k \in DOMAIN t.tasks : t.tasks[k].session \in D
  BY <1>1 DEF WholeTables
<1>4. X \subseteq DOMAIN t.tasks
  BY <1>1, <1>2 DEF InFlight, Tasks
<1>5. IsFiniteSet(X)
  BY <1>3, <1>4, FS_Subset
<1>6. \A k \in X : g[k] \in D /\ g[k] = t.tasks[k].session
  BY <1>1, <1>3, <1>4
<1>7. Parts(X, g, D) = X
  BY <1>6 DEF Parts
<1>8. ASSUME NEW s \in D PROVE n[s] = Cardinality(Part(X, g, s))
  <2>1. PICK f : f = Filters(s, NoKey, NoKey, NoKey)
    OBVIOUS
  <2>2. \A x : Passes(NoKey, x) /\ (Passes(s, x) <=> x = s)
    BY <1>3 DEF Passes
  <2>3. \A k : TaskMatches(S, f, k) <=> TaskMatches(S, Unfiltered, k) /\ S.rows.tasks[k].session = s
    BY <2>1, <2>2, FilterIsPlace
  <2>4. InFlight(t, S, f) = {k \in X : t.tasks[k].session = s}
    BY <1>1, <1>2, <2>3 DEF InFlight, Tasks
  <2>5. InFlight(t, S, f) = Part(X, g, s)
    BY <1>6, <2>4 DEF Part
  <2> QED BY <1>1, <2>1, <2>5
<1>9. Total(n, D) = Cardinality(Parts(X, g, D))
  BY <1>3, <1>5, <1>8, TotalOfParts
<1> QED BY <1>1, <1>7, <1>9
----------------------------------------------------------------------------
(* The tables a poll filters *)

\* The counts of tables that are whole are those of what a filter selects.
Selected(t) ==
  LET all == View(t, Unfiltered)
      of(s) == View(t, Filters(s, NoKey, NoKey, NoKey))
  IN  /\ \A g \in DOMAIN all.heat :
           View(t, Filters(g[1], NoKey, g[2], g[3])).heat
           = Restrict(all.heat, {x \in DOMAIN all.heat :
                                  x[1] = g[1] /\ Passes(g[2], x[2]) /\ Passes(g[3], x[3])})
      /\ \A k \in DOMAIN t.pools :
           /\ View(t, Filters(NoKey, NoKey, NoKey, k)).pools = Restrict(all.pools, {k})
           /\ all.pools[k].blocked = Total([s \in DOMAIN t.sessions |-> of(s).pools[k].blocked], DOMAIN t.sessions)
      /\ \A s \in DOMAIN t.sessions : Diagnostics(of(s)).degraded = Diagnostics(all).degraded
      /\ Diagnostics(all).inFlight
         = Total([s \in DOMAIN t.sessions |-> Diagnostics(of(s)).inFlight], DOMAIN t.sessions)

LEMMA CountsSelected ==
  ASSUME NEW t, WholeTables(t)
  PROVE  Selected(t)
<1>1. PICK S : S = Snapshot(t)
  OBVIOUS
<1>2. S.rows = t
  BY <1>1 DEF Snapshot
<1>3. Shaped(t)
  BY DEF WholeTables
<1>4. PICK all : all = View(t, Unfiltered) /\ all.heat = HeatOf(S, Unfiltered) /\ all.pools = PoolsOf(S, Unfiltered)
  BY <1>1, <1>3, FilteredHeat, FilteredPools
<1>5. ASSUME NEW g \in DOMAIN all.heat
      PROVE  View(t, Filters(g[1], NoKey, g[2], g[3])).heat
             = Restrict(all.heat, {x \in DOMAIN all.heat :
                                    x[1] = g[1] /\ Passes(g[2], x[2]) /\ Passes(g[3], x[3])})
  <2>1. View(t, Filters(g[1], NoKey, g[2], g[3])).heat = HeatOf(S, Filters(g[1], NoKey, g[2], g[3]))
    BY <1>1, <1>3, FilteredHeat
  <2>2. g \in DOMAIN HeatOf(S, Unfiltered)
    BY <1>4
  <2>3. HeatOf(S, Filters(g[1], NoKey, g[2], g[3]))
        = Restrict(HeatOf(S, Unfiltered),
                   {x \in DOMAIN HeatOf(S, Unfiltered) :
                     x[1] = g[1] /\ Passes(g[2], x[2]) /\ Passes(g[3], x[3])})
    BY <1>1, <2>2, HeatSelected
  <2> QED BY <1>4, <2>1, <2>3
<1>6. ASSUME NEW f, f.pool = NoKey
      PROVE  /\ DOMAIN View(t, f).pools = DOMAIN t.pools
             /\ \A k \in DOMAIN t.pools : /\ View(t, f).pools[k].status = t.pools[k].status
                                          /\ View(t, f).pools[k].blocked
                                             = Cardinality(InPool(S, f, BlockedStatuses, k))
  <2>1. View(t, f).pools = PoolsOf(S, f)
    BY <1>1, <1>3, FilteredPools
  <2>2. {k \in DOMAIN S.rows.pools : Passes(f.pool, k)} = DOMAIN t.pools
    BY <1>6, <1>2 DEF Passes
  <2>3. PoolsOf(S, f) = [k \in DOMAIN t.pools |-> PoolRow(S, f, k)]
    BY <2>2 DEF PoolsOf
  <2>4. \A k : /\ PoolRow(S, f, k).status = t.pools[k].status
               /\ PoolRow(S, f, k).blocked = Cardinality(InPool(S, f, BlockedStatuses, k))
    BY <1>2 DEF PoolRow
  <2> QED BY <2>1, <2>3, <2>4
<1>7. \A s : Filters(s, NoKey, NoKey, NoKey).pool = NoKey /\ Unfiltered.pool = NoKey
  BY DEF Filters, Unfiltered
<1>8. ASSUME NEW k \in DOMAIN t.pools
      PROVE  /\ View(t, Filters(NoKey, NoKey, NoKey, k)).pools = Restrict(all.pools, {k})
             /\ all.pools[k].blocked
                = Total([s \in DOMAIN t.sessions |-> View(t, Filters(s, NoKey, NoKey, NoKey)).pools[k].blocked],
                        DOMAIN t.sessions)
  <2>1. View(t, Filters(NoKey, NoKey, NoKey, k)).pools = Restrict(all.pools, {k})
    BY <1>1, <1>3, <1>4, PoolSelected, FilteredPools
  <2>2. PICK n : n = [s \in DOMAIN t.sessions |-> View(t, Filters(s, NoKey, NoKey, NoKey)).pools[k].blocked]
    OBVIOUS
  <2>3. \A s \in DOMAIN t.sessions :
          n[s] = Cardinality(InPool(S, Filters(s, NoKey, NoKey, NoKey), BlockedStatuses, k))
    BY <1>6, <1>7, <2>2
  <2>4. Total(n, DOMAIN t.sessions) = Cardinality(InPool(S, Unfiltered, BlockedStatuses, k))
    BY <1>1, <2>3, BlockedAddUp
  <2>5. all.pools[k].blocked = Cardinality(InPool(S, Unfiltered, BlockedStatuses, k))
    BY <1>4, <1>6, <1>7
  <2> QED BY <2>1, <2>2, <2>4, <2>5
<1>9. ASSUME NEW s \in DOMAIN t.sessions
      PROVE  Diagnostics(View(t, Filters(s, NoKey, NoKey, NoKey))).degraded = Diagnostics(all).degraded
  <2>1. PICK some : some = View(t, Filters(s, NoKey, NoKey, NoKey))
    OBVIOUS
  <2>2. DOMAIN some.pools = DOMAIN t.pools /\ \A k \in DOMAIN t.pools : some.pools[k].status = t.pools[k].status
    BY <1>6, <1>7, <2>1
  <2>3. DOMAIN all.pools = DOMAIN t.pools /\ \A k \in DOMAIN t.pools : all.pools[k].status = t.pools[k].status
    BY <1>4, <1>6, <1>7
  <2>4. \A v : Diagnostics(v).degraded = {k \in DOMAIN v.pools : v.pools[k].status # "ready"}
    BY DEF Diagnostics
  <2>5. {k \in DOMAIN some.pools : some.pools[k].status # "ready"} = {k \in DOMAIN all.pools : all.pools[k].status # "ready"}
    BY <2>2, <2>3
  <2> QED BY <2>1, <2>4, <2>5
<1>10. Diagnostics(all).inFlight
       = Total([s \in DOMAIN t.sessions |-> Diagnostics(View(t, Filters(s, NoKey, NoKey, NoKey))).inFlight],
               DOMAIN t.sessions)
  <2>1. PICK n : n = [s \in DOMAIN t.sessions |-> Diagnostics(View(t, Filters(s, NoKey, NoKey, NoKey))).inFlight]
    OBVIOUS
  <2>2. \A f : Diagnostics(View(t, f)).inFlight = Cardinality(InFlight(t, S, f))
    BY <1>1, InFlightCounts
  <2>3. \A s \in DOMAIN t.sessions : n[s] = Cardinality(InFlight(t, S, Filters(s, NoKey, NoKey, NoKey)))
    BY <2>1, <2>2
  <2>4. Total(n, DOMAIN t.sessions) = Cardinality(InFlight(t, S, Unfiltered))
    BY <1>1, <2>3, InFlightAddUp
  <2> QED BY <1>4, <2>1, <2>2, <2>4
<1> QED BY <1>4, <1>5, <1>8, <1>9, <1>10 DEF Selected

\* A poll reads the rows of sessions there are, the opened ones among them, and of
\* the jobs.
TablesRead(v) ==
  v.pc = "dashboard" =>
    /\ "jobs" \notin v.todo => "jobs" \in DOMAIN v.read /\ JobsKept(v.read.jobs)
    /\ "sessions" \notin v.todo => /\ "sessions" \in DOMAIN v.read
                                   /\ Opened \subseteq DOMAIN v.read.sessions
                                   /\ DOMAIN v.read.sessions \subseteq Sessions
SelectInv ==
  /\ \A s \in Opened : Exists(s)
  /\ \A c \in Clients : TablesRead(view[c])

LEMMA SelectStarts == Init => SelectInv
<1> SUFFICES ASSUME Init PROVE SelectInv
  OBVIOUS
<1>1. ASSUME NEW s \in Opened PROVE Exists(s)
  <2>1. s \in Sessions
    BY OpenedAssumption
  <2>2. sessions[s] = Session("active")
    BY <2>1 DEF Init, DeskInit, SetupInit
  <2>3. Session("active").status # NoSession.status
    BY DEF Session, NoSession
  <2> QED BY <2>2, <2>3 DEF Exists
<1>2. ASSUME NEW c \in Clients PROVE TablesRead(view[c])
  <2>1. PICK s \in Watched : view[c] = Unread(s)
    BY DEF Init
  <2> QED BY <2>1 DEF Unread, TablesRead
<1> QED BY <1>1, <1>2 DEF SelectInv

LEMMA WatchKeepsSelect ==
  ASSUME WatchInv, SelectInv, NEW c \in Clients, Watch(c)
  PROVE  SelectInv'
<1>1. UNCHANGED sessions /\ DOMAIN view = Clients
  BY DEF Watch, WatchInv, setupVars
<1>2. PICK w : view' = [view EXCEPT ![c] = w]
  BY DEF Watch, Poll, ReadTables, LoadDashboard, Answer
<1>3. PICK v : v = view[c] /\ DOMAIN v = ViewFields /\ TablesRead(v)
  BY DEF WatchInv, Polling, SelectInv
<1>4. w = view'[c]
  BY <1>1, <1>2
<1>5. ASSUME Poll(c) PROVE TablesRead(w)
  <2>1. w.pc = "dashboard" /\ w.todo = DashboardTables
    BY <1>1, <1>3, <1>4, <1>5 DEF Poll, ViewFields
  <2> QED BY <2>1 DEF TablesRead, DashboardTables
<1>6. ASSUME ReadTables(c) PROVE TablesRead(w)
  <2>1. PICK some \in SUBSET v.todo :
          view' = [view EXCEPT ![c].todo = @ \ some,
                               ![c].read = [t \in some \union DOMAIN @ |->
                                              IF t \in some THEN Stored[t] ELSE @[t]]]
    BY <1>3, <1>6 DEF ReadTables
  <2>2. PICK read : read = [t \in some \union DOMAIN v.read |->
                              IF t \in some THEN Stored[t] ELSE v.read[t]]
    OBVIOUS
  <2>3. w = [v EXCEPT !.todo = @ \ some, !.read = read]
    BY <1>1, <1>3, <1>4, <2>1, <2>2
  <2>4. w.pc = v.pc /\ w.todo = v.todo \ some /\ w.read = read
    BY <1>3, <2>3 DEF ViewFields
  <2>5. Stored["jobs"] = jobs /\ Stored["sessions"] = SessionRows
    BY DEF Stored, JobRows
  <2>6. \A t \in some : t \in DOMAIN read /\ read[t] = Stored[t]
    BY <2>2
  <2>7. \A t \in DOMAIN v.read \ some : t \in DOMAIN read /\ read[t] = v.read[t]
    BY <2>2
  <2>8. JobsKept(jobs)
    BY DEF WatchInv, TablesKept
  <2>9. Opened \subseteq DOMAIN SessionRows /\ DOMAIN SessionRows \subseteq Sessions
    BY OpenedAssumption DEF SelectInv, SessionRows, Restrict
  <2>10. ASSUME v.pc = "dashboard", "jobs" \notin w.todo
         PROVE  "jobs" \in DOMAIN read /\ JobsKept(read["jobs"])
    BY <1>3, <2>4, <2>5, <2>6, <2>7, <2>8, <2>10 DEF TablesRead
  <2>11. ASSUME v.pc = "dashboard", "sessions" \notin w.todo
         PROVE  /\ "sessions" \in DOMAIN read
                /\ Opened \subseteq DOMAIN read["sessions"] /\ DOMAIN read["sessions"] \subseteq Sessions
    BY <1>3, <2>4, <2>5, <2>6, <2>7, <2>9, <2>11 DEF TablesRead
  <2> QED BY <2>4, <2>10, <2>11 DEF TablesRead
<1>7. ASSUME LoadDashboard(c) \/ (\E limit \in Limits : Answer(c, limit)) PROVE TablesRead(w)
  <2>1. w.pc \in {"feed", "idle"}
    BY <1>1, <1>3, <1>4, <1>7 DEF LoadDashboard, Answer, ViewFields
  <2> QED BY <2>1 DEF TablesRead
<1>8. TablesRead(w)
  BY <1>5, <1>6, <1>7 DEF Watch
<1>9. \A d \in Clients : view'[d] = view[d] \/ view'[d] = w
  BY <1>1, <1>2
<1>10. \A s \in Opened : Exists(s)'
  BY <1>1 DEF SelectInv, Exists
<1>11. ASSUME NEW d \in Clients PROVE TablesRead(view[d])'
  BY <1>8, <1>9 DEF SelectInv, TablesRead
<1> QED BY <1>10, <1>11 DEF SelectInv

LEMMA SelectNext == SetupInv /\ WatchInv /\ FeedInv /\ SelectInv /\ [Next]_vars => SelectInv'
<1> SUFFICES ASSUME SetupInv, WatchInv, FeedInv, SelectInv, [Next]_vars PROVE SelectInv'
  OBVIOUS
<1>1. CASE Server
  <2>1. \A s \in Opened : Exists(s)'
    BY <1>1, OpenedAssumption, ServerAddsPhases DEF FeedInv, PhasesForward, SelectInv, Exists
  <2>2. view' = view \/ view' = [c \in Clients |-> Cut(view[c])]
    BY <1>1 DEF Server
  <2>3. ASSUME NEW c \in Clients PROVE TablesRead(view[c])'
    <3>1. DOMAIN view[c] = ViewFields
      BY DEF WatchInv, Polling
    <3>2. Cut(view[c]).pc = "idle"
      BY <3>1 DEF Cut, ViewFields
    <3> QED BY <2>2, <3>2 DEF SelectInv, TablesRead
  <2> QED BY <2>1, <2>3 DEF SelectInv
<1>2. CASE UNCHANGED vars
  BY <1>2 DEF vars, watchVars, setupVars, SelectInv, TablesRead, Exists
<1> QED BY <1>1, <1>2, WatchKeepsSelect DEF Next

\* The tables of a dashboard that has all it reads.
LEMMA TablesAreWhole ==
  ASSUME NEW v, TablesRead(v), v.pc = "dashboard", v.todo = {}
  PROVE  WholeTables(Tables(v.read))
<1>1. PICK read : read = v.read
  OBVIOUS
<1>2. PICK t : t = Tables(read)
  OBVIOUS
<1>3. /\ Shaped(t) /\ t.sessions = read.sessions /\ t.jobs = read.jobs
      /\ t.tasks = Elsewhere.tasks /\ t.pools = Elsewhere.pools
  BY <1>2 DEF Tables, Shaped
<1>4. JobsKept(read.jobs) /\ Opened \subseteq DOMAIN read.sessions /\ DOMAIN read.sessions \subseteq Sessions
  BY <1>1 DEF TablesRead
<1>5. IsFiniteSet(DOMAIN t.sessions)
  BY <1>3, <1>4, ElsewhereAssumption, FS_Subset
<1>6. IsFiniteSet(DOMAIN t.jobs)
  BY <1>3, <1>4, RowsAssumption DEF JobsKept
<1>7. IsFiniteSet(DOMAIN t.tasks) /\ \A k \in DOMAIN t.tasks : t.tasks[k].session \in DOMAIN t.sessions
  BY <1>3, <1>4, ElsewhereAssumption
<1>8. NoKey \notin DOMAIN t.sessions /\ NoKey \notin DOMAIN t.pools
  BY <1>3, <1>4, ElsewhereAssumption
<1> QED BY <1>1, <1>2, <1>3, <1>5, <1>6, <1>7, <1>8 DEF WholeTables

\* What the dashboard shows of a session, a phase or a pool is what it shows of them
\* without a filter, and sessions add up to the whole, whatever the tables hold and
\* whenever each of them was read (_filter_snapshot, which selects, and the builders,
\* which match its rows once more before they count them).
THEOREM FiltersOnlySelect == Spec => []FiltersSelect
<1>1. SelectInv => FiltersSelect
  <2> SUFFICES ASSUME SelectInv, NEW c \in Clients, view[c].pc = "dashboard", view[c].todo = {},
                      NEW t, t = Tables(view[c].read)
               PROVE  Selected(t)
    BY DEF FiltersSelect, Selected, Unfiltered, Total
  <2>1. TablesRead(view[c])
    BY DEF SelectInv
  <2>2. WholeTables(t)
    BY <2>1, TablesAreWhole
  <2> QED BY <2>2, CountsSelected
<1>2. Spec => []FeedInv
  BY FeedStarts, FeedNext, SetupInvariance, WatchInvariance, PTL DEF Spec
<1>3. Spec => []SelectInv
  BY SelectStarts, SelectNext, <1>2, SetupInvariance, WatchInvariance, PTL DEF Spec
<1> QED BY <1>1, <1>3, PTL
=============================================================================
