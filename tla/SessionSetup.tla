----------------------------- MODULE SessionSetup -----------------------------
(***************************************************************************)
(* Sessions made from templates: the channels, phases, rules and the       *)
(* active phase a template gives a session, and the requests that seed the *)
(* same rows on their own (listing or creating channels, listing phases,   *)
(* activating one).  Each seeder lists what there is and inserts what is   *)
(* missing row by row; a row another request inserted meanwhile violates   *)
(* UNIQUE (session_id, key) and ends the request with what it has done.    *)
(*                                                                         *)
(* One step is one repository call and the computation that follows it.    *)
(* h[p] holds the local variables of handler p.  A request that its first  *)
(* checks refuse changes nothing and is left out.                          *)
(***************************************************************************)
EXTENDS Naturals, Sequences, FiniteSets, SequencesExt

CONSTANTS
  Handlers,    \* the requests the server runs at a time
  Sessions,    \* sessions that exist or may be created
  Opened,      \* those POST /sessions has created, with a lead
  Listed,      \* those of them whose phases were listed, so that they are seeded
  Custom,      \* the templates clients may store: a function of their keys
  Requests,    \* what clients ask for: records with a field op
  MaxRequests, \* bound: requests that begin
  MaxCrashes   \* bound: process crashes

VARIABLES
  sessions,  \* the sessions rows
  channels,  \* the session_channels rows of each session
  phases,    \* the phases rows of each session
  rules,     \* the names of the rules of each session
  templates, \* the keys in the session_templates table
  clock,     \* the last time a timestamp was taken
  h,         \* the requests in progress
  requests,  \* how many requests began
  crashes,   \* how often the process crashed
  applied    \* the template of each session whose instantiation was answered

setupVars == <<sessions, channels, phases, rules, templates>>
ghosts == <<requests, crashes, applied>>

None == "none"

ASSUME OpenedAssumption == Opened \subseteq Sessions /\ Listed \subseteq Opened
ASSUME CustomAssumption ==
  \A t \in DOMAIN Custom : /\ DOMAIN Custom[t] = {"channels", "order", "rules", "active"}
                           /\ Custom[t].order \in Seq(STRING)
ASSUME RequestsAssumption ==
  \A r \in Requests :
    /\ r.op = "template" => r.template \in DOMAIN Custom
    /\ r.op \in {"channels", "channel", "phases", "activate", "activate_phase"} => r.session \in Sessions
----------------------------------------------------------------------------
(* The catalog *)

Channel(key, order) == [key |-> key, order |-> order]
DefaultChannels == << Channel("general", 10), Channel("planning", 20),
                      Channel("review", 30), Channel("debug", 40) >>
Presets == <<"planning", "implementation", "review", "revise", "finalize">>

Template(added, order, names, phase) ==
  [channels |-> added, order |-> order, rules |-> names, active |-> phase]
PlanningHeavy ==
  Template(DefaultChannels, Presets, {"Keep general traffic in planning"}, "planning")
ImplementationReview ==
  Template(DefaultChannels, Presets, {"Review checkpoint"}, "implementation")
ResearchReview ==
  Template(Append(DefaultChannels, Channel("research", 25)), Presets,
           {"Send general mentions to research"}, "planning")
HotfixTriage ==
  Template(Append(DefaultChannels, Channel("hotfix", 25)), Presets,
           {"Route general mentions to hotfix"}, "planning")
Builtin == [planning_heavy |-> PlanningHeavy, implementation_review |-> ImplementationReview,
            research_review |-> ResearchReview, hotfix_triage |-> HotfixTriage]

\* A channel without an order is stored with that of its place.
Normalized(specs) ==
  [i \in DOMAIN specs |-> [specs[i] EXCEPT !.order = IF @ > 0 THEN @ ELSE 10 * i]]

Catalog == DOMAIN Builtin \union templates
Definition(t) == IF t \in DOMAIN Builtin THEN Builtin[t]
                 ELSE [Custom[t] EXCEPT !.channels = Normalized(@)]

Keys(rows) == {row.key : row \in rows}

\* A default channel the template names itself is as the template says it last.
ResolveChannels(t) ==
  LET specs == Definition(t).channels
      own == {specs[i] : i \in {i \in DOMAIN specs :
                \A j \in DOMAIN specs : j > i => specs[j].key # specs[i].key}}
  IN  own \union {c \in Range(DefaultChannels) : c.key \notin Keys(own)}

PresetKeys == Range(Presets)
PresetPlaces == [k \in PresetKeys |-> CHOOSE i \in DOMAIN Presets : Presets[i] = k]

\* The presets a template asks for come where it asks for them first, then the others.
Rank(t, k) ==
  LET order == Definition(t).order
      asked == {i \in DOMAIN order : order[i] = k}
  IN  IF asked # {} THEN Min(asked) ELSE Len(order) + PresetPlaces[k]
ResolvePhaseOrder(t) ==
  [k \in PresetKeys |-> Cardinality({l \in PresetKeys : Rank(t, l) <= Rank(t, k)})]
ResolveActive(t) ==
  IF Definition(t).active \in PresetKeys THEN Definition(t).active
  ELSE CHOOSE k \in PresetKeys : \A l \in PresetKeys : Rank(t, k) <= Rank(t, l)
----------------------------------------------------------------------------
(* Rows and requests *)

Session(status) == [status |-> status, active |-> None, template |-> None]
NoSession == Session("absent")
NoRequest == [op |-> "none"]
Idle == [pc |-> "idle", n |-> 0, req |-> NoRequest, session |-> None, now |-> 0,
         todo |-> {}, then |-> "return", row |-> NoSession,
         result |-> None, job |-> 0, held |-> [status |-> None, marker |-> None]]

PresetRows == {[key |-> Presets[i], order |-> 10 * i, at |-> 0] : i \in DOMAIN Presets}
SetupInit ==
  /\ sessions = [s \in Sessions |-> IF s \in Opened THEN Session("active") ELSE NoSession]
  /\ channels = [s \in Sessions |-> {}]
  /\ phases = [s \in Sessions |-> IF s \in Listed THEN PresetRows ELSE {}]
  /\ rules = [s \in Sessions |-> {}]
  /\ templates = {}
  /\ clock = 0
  /\ h = [p \in Handlers |-> Idle]
  /\ requests = 0 /\ crashes = 0
  /\ applied = [s \in Sessions |-> None]

Exists(s) == sessions[s] # NoSession
At(p, pc) == h[p].pc = pc
Become(p, local) == h' = [h EXCEPT ![p] = local]
Return(p) == Become(p, Idle)
Goto(p, pc) == IF pc = "return" THEN Return(p) ELSE Become(p, [h[p] EXCEPT !.pc = pc])
\* The loop of a seeder: the rest of what is missing, or what follows.
Continue(p, loop, todo, then) ==
  IF todo # {} THEN Become(p, [h[p] EXCEPT !.pc = loop, !.todo = todo, !.then = then])
  ELSE IF then = "return" THEN Return(p)
  ELSE Become(p, [h[p] EXCEPT !.pc = then, !.todo = {}])
\* Rows are inserted by their order.
Follows(p, row) == row \in h[p].todo /\ \A other \in h[p].todo : row.order <= other.order
Others(p, row) == h[p].todo \ {row}
Tick == clock' = clock + 1

Begin(p, r, local) ==
  /\ At(p, "idle") /\ requests < MaxRequests /\ r \in Requests
  /\ requests' = requests + 1
  /\ Become(p, [local EXCEPT !.req = r, !.n = requests + 1])
  /\ UNCHANGED <<crashes, applied>>

InsertSession(s, row) == sessions' = [sessions EXCEPT ![s] = row]
UpdateSession(s, row) == sessions' = [sessions EXCEPT ![s] = row]
InsertChannelRow(s, row) == channels' = [channels EXCEPT ![s] = @ \union {row}]
InsertPhaseRow(s, row) == phases' = [phases EXCEPT ![s] = @ \union {row}]
InsertRule(s, name) == rules' = [rules EXCEPT ![s] = @ \union {name}]
InsertTemplate(t) == templates' = templates \union {t}
----------------------------------------------------------------------------
(* Templates *)

CreateTemplate(p, r) ==
  /\ r.op = "template" /\ r.template \notin Catalog
  /\ Begin(p, r, [Idle EXCEPT !.pc = "template"])
  /\ UNCHANGED <<setupVars, clock>>

\* template_key is UNIQUE: the second of two requests for a key fails here.
StoreTemplate(p) ==
  /\ At(p, "template")
  /\ InsertTemplate(h[p].req.template)
  /\ Return(p)
  /\ UNCHANGED <<sessions, channels, phases, rules, clock, ghosts>>

\* The session is listed, and can be asked for, as soon as it is inserted.
Instantiate(p, r, s) ==
  /\ r.op = "instantiate" /\ r.template \in Catalog /\ ~Exists(s)
  /\ LET row == [Session(IF r.lead THEN "active" ELSE "draft") EXCEPT !.template = r.template]
     IN  /\ InsertSession(s, row)
         /\ Tick
         /\ Begin(p, r, [Idle EXCEPT !.pc = "seedChannels", !.session = s,
                                     !.row = row, !.now = clock'])
  /\ UNCHANGED <<channels, phases, rules, templates>>

MissingChannels(p, wanted) == {c \in wanted : c.key \notin Keys(channels[h[p].session])}
MissingPhases(p, places) ==
  {[key |-> k, order |-> 10 * places[k]] : k \in PresetKeys \ Keys(phases[h[p].session])}

SeedChannels(p) ==
  /\ At(p, "seedChannels")
  /\ Continue(p, "channel", MissingChannels(p, ResolveChannels(h[p].req.template)), "seedPhases")
  /\ UNCHANGED <<setupVars, clock, ghosts>>

\* Mutant: a session that has a phase is taken to have them all, as in GET /phases.
SeedPhasesUnlessAny(p) ==
  /\ At(p, "seedPhases")
  /\ Continue(p, "phase", IF phases[h[p].session] # {} THEN {}
                          ELSE MissingPhases(p, ResolvePhaseOrder(h[p].req.template)), "seedRules")
  /\ UNCHANGED <<setupVars, clock, ghosts>>

SeedPhases(p) ==
  /\ At(p, "seedPhases")
  /\ Continue(p, "phase", MissingPhases(p, ResolvePhaseOrder(h[p].req.template)), "seedRules")
  /\ UNCHANGED <<setupVars, clock, ghosts>>

\* Rules have no key: names are compared in what was listed once.
SeedRules(p) ==
  /\ At(p, "seedRules")
  /\ Continue(p, "rule", Definition(h[p].req.template).rules \ rules[h[p].session], "finish")
  /\ UNCHANGED <<setupVars, clock, ghosts>>

SeedRule(p) ==
  /\ At(p, "rule")
  /\ \E name \in h[p].todo :
       /\ InsertRule(h[p].session, name)
       /\ Continue(p, "rule", Others(p, name), h[p].then)
  /\ UNCHANGED <<sessions, channels, phases, templates, clock, ghosts>>

\* The row is the one the request inserted, whatever has become of it since.
FinishSession(p) ==
  /\ At(p, "finish")
  /\ UpdateSession(h[p].session, [h[p].row EXCEPT !.active = ResolveActive(h[p].req.template)])
  /\ applied' = [applied EXCEPT ![h[p].session] = h[p].req.template]
  /\ Return(p)
  /\ UNCHANGED <<channels, phases, rules, templates, clock, requests, crashes>>
----------------------------------------------------------------------------
(* Channels *)

ListChannels(p, r) ==
  /\ r.op = "channels" /\ Exists(r.session)
  /\ Begin(p, r, [Idle EXCEPT !.pc = "ensureChannels", !.session = r.session])
  /\ UNCHANGED <<setupVars, clock>>

CreateChannel(p, r) ==
  /\ r.op = "channel" /\ Exists(r.session)
  /\ Begin(p, r, [Idle EXCEPT !.pc = "ensureChannels", !.session = r.session, !.then = "exists"])
  /\ UNCHANGED <<setupVars, clock>>

EnsureChannels(p) ==
  /\ At(p, "ensureChannels")
  /\ Continue(p, "channel", MissingChannels(p, Range(DefaultChannels)), h[p].then)
  /\ UNCHANGED <<setupVars, clock, ghosts>>

\* One row of what the seeder found missing: UNIQUE (session_id, channel_key).
SeedChannel(p) ==
  /\ At(p, "channel")
  /\ \E row \in h[p].todo :
       /\ Follows(p, row)
       /\ IF row.key \in Keys(channels[h[p].session])
            THEN Return(p) /\ UNCHANGED channels
            ELSE /\ InsertChannelRow(h[p].session, row)
                 /\ Continue(p, "channel", Others(p, row), h[p].then)
  /\ UNCHANGED <<sessions, phases, rules, templates, clock, ghosts>>

\* A key that is there is refused; the order is one past the last listed.
CheckChannel(p) ==
  /\ At(p, "exists")
  /\ LET there == channels[h[p].session]
         last == CHOOSE o \in {c.order : c \in there} : \A c \in there : c.order <= o
     IN  IF h[p].req.key \in Keys(there)
           THEN Return(p)
           ELSE Become(p, [h[p] EXCEPT !.pc = "channel", !.then = "return",
                                       !.todo = {Channel(h[p].req.key, last + 10)}])
  /\ UNCHANGED <<setupVars, clock, ghosts>>
----------------------------------------------------------------------------
(* Phases *)

ListPhases(p, r) ==
  /\ r.op = "phases" /\ Exists(r.session)
  /\ Begin(p, r, [Idle EXCEPT !.pc = "listPhases", !.session = r.session])
  /\ UNCHANGED <<setupVars, clock>>

\* Presets are seeded only for a session that has no phase at all.
ReadPhases(p) ==
  /\ At(p, "listPhases")
  /\ Goto(p, IF phases[h[p].session] # {} THEN "return" ELSE "ensurePhases")
  /\ UNCHANGED <<setupVars, clock, ghosts>>

EnsurePhases(p) ==
  /\ At(p, "ensurePhases")
  /\ Continue(p, "phase", MissingPhases(p, PresetPlaces), h[p].then)
  /\ UNCHANGED <<setupVars, clock, ghosts>>

\* UNIQUE (session_id, phase_key); an instantiation stamps all rows alike.
SeedPhase(p) ==
  /\ At(p, "phase")
  /\ \E row \in h[p].todo :
       LET at == IF h[p].req.op = "instantiate" THEN h[p].now ELSE clock + 1 IN
       /\ Follows(p, row)
       /\ IF row.key \in Keys(phases[h[p].session])
            THEN Return(p) /\ UNCHANGED <<phases, clock>>
            ELSE /\ InsertPhaseRow(h[p].session, [key |-> row.key, order |-> row.order, at |-> at])
                 /\ clock' = IF at > clock THEN at ELSE clock
                 /\ Continue(p, "phase", Others(p, row), h[p].then)
  /\ UNCHANGED <<sessions, channels, rules, templates, ghosts>>

Activate(p, r) ==
  /\ r.op = "activate" /\ Exists(r.session)
  /\ Begin(p, r, [Idle EXCEPT !.pc = "ensurePhases", !.session = r.session, !.then = "target"])
  /\ UNCHANGED <<setupVars, clock>>

\* The phase and the session are read; an active phase is not written again.
\* What follows is the answer, or on the operator surface the audit.
TargetPhase(p, after) ==
  /\ At(p, "target")
  /\ LET s == h[p].session IN
     IF h[p].req.phase \notin Keys(phases[s]) THEN Return(p) /\ UNCHANGED clock
     ELSE IF sessions[s].active = h[p].req.phase THEN after
     ELSE /\ Become(p, [h[p] EXCEPT !.pc = "activate", !.row = sessions[s]])
          /\ UNCHANGED clock
  /\ UNCHANGED <<setupVars, ghosts>>

WritePhase(p, after) ==
  /\ At(p, "activate")
  /\ UpdateSession(h[p].session, [h[p].row EXCEPT !.active = h[p].req.phase])
  /\ after
  /\ UNCHANGED <<channels, phases, rules, templates, ghosts>>
----------------------------------------------------------------------------
SetupBegins(p) ==
  \E r \in Requests :
    \/ CreateTemplate(p, r) \/ \E s \in Sessions : Instantiate(p, r, s)
    \/ ListChannels(p, r) \/ CreateChannel(p, r) \/ ListPhases(p, r) \/ Activate(p, r)

SetupSteps(p) ==
  \/ StoreTemplate(p) \/ SeedChannels(p) \/ SeedPhases(p) \/ SeedRules(p)
  \/ SeedRule(p) \/ FinishSession(p) \/ EnsureChannels(p) \/ SeedChannel(p)
  \/ CheckChannel(p) \/ ReadPhases(p) \/ EnsurePhases(p) \/ SeedPhase(p)

SetupActivation(p) ==
  /\ h[p].req.op = "activate"
  /\ LET answer == Return(p) /\ UNCHANGED clock IN
     TargetPhase(p, answer) \/ WritePhase(p, answer)

\* What the requests of a session compete for: a session whose instantiation
\* was answered has all its template promises, however other requests seeded
\* the same rows meanwhile (instantiate_session, _seed_channels, _seed_phases).
TemplateApplied ==
  \A s \in Sessions : applied[s] # None =>
    LET t == applied[s] IN
    /\ Keys(ResolveChannels(t)) \subseteq Keys(channels[s])
    /\ Keys(phases[s]) = PresetKeys
    /\ Definition(t).rules \subseteq rules[s]
    /\ sessions[s].active \in Keys(phases[s])
=============================================================================
