--------------------------- MODULE WebhookDelivery ---------------------------
(***************************************************************************)
(* Managed outbound webhooks of one public task, composed with the event   *)
(* log of PublicEvents: a request that has recorded events goes on to      *)
(* enqueue a delivery for each active registration and to dispatch what is *)
(* due, while the supervisor's sweeps dispatch the same table and          *)
(* operators register and disable.                                         *)
(*                                                                         *)
(* A dispatcher works on rows it has read before, and writes them back     *)
(* whole: the delivery first and the registration after it, each in a      *)
(* transaction of its own.  The receiver is another process; what it       *)
(* accepts is kept in `inbox`.                                             *)
(***************************************************************************)
EXTENDS PublicEvents

CONSTANTS
  Hooks,          \* the registrations, ordered as their ids are
  Sweepers,       \* the tasks that run supervisor sweeps
  Operators,      \* the requests that disable a registration
  MaxAttempts,    \* max_attempts
  DispatchLimit,  \* how many deliveries one sweep dispatches
  MaxFailures     \* bound: sweeps that an exception ends

Dispatchers == Publishers \union Sweepers
Tasks == Dispatchers \union Operators

ASSUME HooksAssumption == Hooks \subseteq Nat
ASSUME TasksAssumption ==
  /\ Publishers \intersect Sweepers = {}
  /\ Operators \intersect Dispatchers = {}
ASSUME LimitsAssumption ==
  {MaxAttempts, DispatchLimit} \subseteq Nat \ {0} /\ MaxFailures \in Nat

VARIABLES
  hooks,       \* the rows of outbound_webhook_registrations
  deliveries,  \* the rows of outbound_webhook_deliveries, by (hook, sequence)
  inbox,       \* the sequences each receiver has accepted
  dropped,     \* history: the deliveries ever marked failed
  d,           \* local variables of whoever enqueues, dispatches or disables
  failures     \* how many sweeps an exception ended

hookVars == <<hooks, deliveries, inbox, dropped, d, failures>>
publicVars == vars

----------------------------------------------------------------------------
(* Rows and local variables *)

Keys == Hooks \X Nat

PendingStatuses == {"pending", "retrying"}

HookRow == [status : {"absent", "active", "disabled"}, last : Nat]
DeliveryRow == [status : {"pending", "retrying", "delivered", "failed"},
                attempts : Nat, due : BOOLEAN]

NewDelivery == [status |-> "pending", attempts |-> 0, due |-> TRUE]
NoHook == [status |-> "absent", last |-> 0]

\* todo: the deliveries a dispatcher has selected, as they were when it read
\* them; hook: the registration as it was when it was read; of: its id, for an
\* operator; ok: the receiver answered 2xx.
Free == [pc |-> "free", create |-> {}, todo |-> {}, hook |-> NoHook,
         of |-> 0, ok |-> FALSE]

Is(x, pc) == d[x].pc = pc

HookInit ==
  /\ hooks = [k \in Hooks |-> NoHook]
  /\ deliveries = [s \in {} |-> NewDelivery]
  /\ inbox = [k \in Hooks |-> {}]
  /\ dropped = {}
  /\ d = [x \in Tasks |-> Free]
  /\ failures = 0

\* The task a dispatcher is at: the selected delivery of the first hook.
Current(x) == CHOOSE s \in d[x].todo :
                \A t \in d[x].todo : s.key[1] <= t.key[1]

\* Dispatcher x is done with its current delivery and takes the next, or ends
\* (and with it the request whose dispatch this is).
Advance(x) ==
  LET rest == d[x].todo \ {Current(x)}
  IN /\ d' = [d EXCEPT ![x] = IF rest = {} THEN Free
                              ELSE [Free EXCEPT !.pc = "load", !.todo = rest]]
     /\ IF rest = {} /\ x \in Publishers THEN Return(x) ELSE UNCHANGED pub

\* The delivery at hand is written back: the row that was read, changed.
WriteDelivery(x, status, due) ==
  LET s == Current(x)
      row == [status |-> status, attempts |-> s.row.attempts + 1, due |-> due]
  IN /\ deliveries' = [deliveries EXCEPT ![s.key] = row]
     /\ dropped' = IF status = "failed" THEN dropped \union {s.key}
                                        ELSE dropped

----------------------------------------------------------------------------
(* enqueue_events: a delivery for each active registration and new event *)

\* Mutant: the events are counted from zero.
ListHooksFromZero(p) ==
  /\ p \in Publishers /\ Is(p, "free") /\ Recorded(p) /\ pub[p].saved # {}
  /\ LET active == {k \in Hooks : hooks[k].status = "active"}
     IN d' = [d EXCEPT ![p].pc = IF active = {} THEN "select" ELSE "enqueue",
                       ![p].create = active \X {n - 1 : n \in pub[p].saved}]
  /\ UNCHANGED <<publicVars, hooks, deliveries, inbox, dropped, failures>>

ListHooks(p) ==
  /\ p \in Publishers /\ Is(p, "free") /\ Recorded(p) /\ pub[p].saved # {}
  /\ LET active == {k \in Hooks : hooks[k].status = "active"}
     IN d' = [d EXCEPT ![p].pc = IF active = {} THEN "select" ELSE "enqueue",
                       ![p].create = active \X pub[p].saved]
  /\ UNCHANGED <<publicVars, hooks, deliveries, inbox, dropped, failures>>

ListExisting(p) ==
  /\ Is(p, "enqueue")
  /\ d' = [d EXCEPT ![p].pc = "create",
                    ![p].create = @ \ DOMAIN deliveries]
  /\ UNCHANGED <<publicVars, hooks, deliveries, inbox, dropped, failures>>

\* For each registration, the events in their order.
Create(p) ==
  /\ Is(p, "create") /\ d[p].create # {}
  /\ LET key == CHOOSE s \in d[p].create : \A t \in d[p].create :
                  s[1] < t[1] \/ (s[1] = t[1] /\ s[2] <= t[2])
     IN /\ deliveries' = [s \in DOMAIN deliveries \union {key} |->
                            IF s = key THEN NewDelivery ELSE deliveries[s]]
        /\ d' = [d EXCEPT ![p].create = @ \ {key}]
  /\ UNCHANGED <<publicVars, hooks, inbox, dropped, failures>>

Enqueued(p) ==
  /\ Is(p, "create") /\ d[p].create = {}
  /\ d' = [d EXCEPT ![p].pc = "select"]
  /\ UNCHANGED <<publicVars, hooks, deliveries, inbox, dropped, failures>>
----------------------------------------------------------------------------
(* dispatch: select, read the registration, POST, write both rows *)

\* Mutant: a delivery that waits for a retry is not pending.
PendingNew == {s \in DOMAIN deliveries : deliveries[s].status = "pending"}

Pending == {s \in DOMAIN deliveries : deliveries[s].status \in PendingStatuses}

\* Mutant: the oldest of the deliveries that are due, whatever waits.
DispatchableDue ==
  LET due == {s \in Pending : deliveries[s].due}
  IN {s \in due : \A t \in due : t[1] = s[1] => s[2] <= t[2]}

\* The oldest pending delivery of each registration, if it is due.
Dispatchable ==
  {s \in Pending : /\ deliveries[s].due
                   /\ \A t \in Pending : t[1] = s[1] => s[2] <= t[2]}

\* The first DispatchLimit of them; a request for its task has no limit.
Selected(x) ==
  {s \in Dispatchable :
     x \in Sweepers =>
       Cardinality({t \in Dispatchable : t[1] < s[1]}) < DispatchLimit}

\* A sweep begins, or a request comes to dispatch what it has enqueued.
Select(x) ==
  /\ x \in Dispatchers
  /\ Is(x, IF x \in Sweepers THEN "free" ELSE "select")
  /\ LET todo == {[key |-> s, row |-> deliveries[s]] : s \in Selected(x)}
     IN IF todo = {}
          THEN /\ d' = [d EXCEPT ![x] = Free]
               /\ IF x \in Publishers THEN Return(x) ELSE UNCHANGED pub
          ELSE /\ d' = [d EXCEPT ![x].pc = "load", ![x].todo = todo]
               /\ UNCHANGED pub
  /\ UNCHANGED <<job, task, events, client, crashes,
                 hooks, deliveries, inbox, dropped, failures>>

Load(x) ==
  /\ Is(x, "load")
  /\ LET row == hooks[Current(x).key[1]]
     IN d' = [d EXCEPT ![x].hook = row,
                       ![x].pc = IF row.status = "active" THEN "post"
                                                          ELSE "inactive"]
  /\ UNCHANGED <<publicVars, hooks, deliveries, inbox, dropped, failures>>

MarkInactive(x) ==
  /\ Is(x, "inactive")
  /\ WriteDelivery(x, "failed", TRUE)
  /\ Advance(x)
  /\ UNCHANGED <<job, task, events, client, crashes, hooks, inbox, failures>>

\* The receiver may accept the event and still not be heard: the answer is
\* lost, late or an error.  It never answers 2xx without having accepted.
Post(x) ==
  /\ Is(x, "post")
  /\ \E accepted, ok \in BOOLEAN :
       /\ ok => accepted
       /\ inbox' = IF accepted
                     THEN [inbox EXCEPT ![Current(x).key[1]] =
                             @ \union {Current(x).key[2]}]
                     ELSE inbox
       /\ d' = [d EXCEPT ![x].pc = "answered", ![x].ok = ok]
  /\ UNCHANGED <<publicVars, hooks, deliveries, dropped, failures>>

\* A failure is retried later until the last attempt has failed.
MarkDelivery(x) ==
  /\ Is(x, "answered")
  /\ LET last == Current(x).row.attempts + 1 >= MaxAttempts
     IN IF d[x].ok THEN WriteDelivery(x, "delivered", TRUE)
        ELSE IF last THEN WriteDelivery(x, "failed", TRUE)
        ELSE WriteDelivery(x, "retrying", FALSE)
  /\ d' = [d EXCEPT ![x].pc = "marked"]
  /\ UNCHANGED <<publicVars, hooks, inbox, failures>>

\* Mutant: the sequence is taken for delivered whatever the answer was.
MarkHookAlways(x) ==
  /\ Is(x, "marked")
  /\ LET key == Current(x).key
     IN hooks' = [hooks EXCEPT ![key[1]] =
                    [d[x].hook EXCEPT !.last = Max({@, key[2]})]]
  /\ Advance(x)
  /\ UNCHANGED <<job, task, events, client, crashes,
                 deliveries, inbox, dropped, failures>>

\* The registration as it was before the POST, with the outcome.
MarkHook(x) ==
  /\ Is(x, "marked")
  /\ LET key == Current(x).key
         last == IF d[x].ok THEN Max({d[x].hook.last, key[2]}) ELSE d[x].hook.last
     IN hooks' = [hooks EXCEPT ![key[1]] = [d[x].hook EXCEPT !.last = last]]
  /\ Advance(x)
  /\ UNCHANGED <<job, task, events, client, crashes,
                 deliveries, inbox, dropped, failures>>

\* An exception ends a sweep; the supervisor logs it and goes on.
SweepFails(w) ==
  /\ w \in Sweepers /\ ~Is(w, "free") /\ failures < MaxFailures
  /\ failures' = failures + 1
  /\ d' = [d EXCEPT ![w] = Free]
  /\ UNCHANGED <<publicVars, hooks, deliveries, inbox, dropped>>

----------------------------------------------------------------------------
(* Operators and time *)

Register(k) ==
  /\ hooks[k].status = "absent" /\ task # NoTask
  /\ hooks' = [hooks EXCEPT ![k].status = "active"]
  /\ UNCHANGED <<publicVars, deliveries, inbox, dropped, d, failures>>

ReadToDisable(o, k) ==
  /\ o \in Operators /\ Is(o, "free") /\ hooks[k].status = "active"
  /\ d' = [d EXCEPT ![o] = [Free EXCEPT !.pc = "disable", !.hook = hooks[k],
                                        !.of = k]]
  /\ UNCHANGED <<publicVars, hooks, deliveries, inbox, dropped, failures>>

Disable(o) ==
  /\ Is(o, "disable")
  /\ hooks' = [hooks EXCEPT ![d[o].of] = [d[o].hook EXCEPT !.status = "disabled"]]
  /\ d' = [d EXCEPT ![o] = Free]
  /\ UNCHANGED <<publicVars, deliveries, inbox, dropped, failures>>

\* The time until the next attempt has passed.
BackoffEnds(s) ==
  /\ s \in Pending /\ ~deliveries[s].due
  /\ deliveries' = [deliveries EXCEPT ![s].due = TRUE]
  /\ UNCHANGED <<publicVars, hooks, inbox, dropped, d, failures>>

----------------------------------------------------------------------------
(* The system: PublicEvents, whose requests go on here once recorded.  The  *)
(* readers of the log, which only read, are left to PublicEvents.          *)

\* Only an exception can end a request that is enqueueing or dispatching.
Record(p) ==
  /\ Publish(p)
  /\ d' = [d EXCEPT ![p] = Free]
  /\ UNCHANGED <<hooks, deliveries, inbox, dropped, failures>>

NothingRecorded(p) ==
  /\ Answer(p) /\ pub[p].saved = {}
  /\ UNCHANGED hookVars

Restart ==
  /\ Crash
  /\ d' = [x \in Tasks |-> Free]
  /\ UNCHANGED <<hooks, deliveries, inbox, dropped, failures>>

Enqueue(p) == ListHooks(p) \/ ListExisting(p) \/ Create(p) \/ Enqueued(p)

Dispatch(x) ==
  \/ Select(x) \/ Load(x) \/ MarkInactive(x) \/ Post(x) \/ MarkDelivery(x)
  \/ MarkHook(x)

TimePasses == \E s \in DOMAIN deliveries : BackoffEnds(s)

HookNext ==
  \/ \E p \in Publishers : Record(p) \/ NothingRecorded(p) \/ Enqueue(p)
  \/ \E x \in Dispatchers : Dispatch(x)
  \/ \E w \in Sweepers : SweepFails(w)
  \/ \E k \in Hooks : Register(k) \/ \E o \in Operators : ReadToDisable(o, k)
  \/ \E o \in Operators : Disable(o)
  \/ TimePasses
  \/ JobMoves /\ UNCHANGED hookVars
  \/ Restart

hookSystem == <<publicVars, hookVars>>

HookSpec == Init /\ HookInit /\ [][HookNext]_hookSystem

\* The supervisor wakes up again and again and a sweep it has begun runs on;
\* time passes.  Nothing is assumed of requests: each may stop where it is.
HookFairness ==
  /\ \A w \in Sweepers : WF_hookSystem(Dispatch(w))
  /\ WF_hookSystem(TimePasses)

FairHookSpec == HookSpec /\ HookFairness

----------------------------------------------------------------------------
(* Properties *)

TaskPCs == {"free", "enqueue", "create", "select", "load", "inactive", "post",
            "answered", "marked", "disable"}
Locals == [pc : TaskPCs, create : SUBSET Keys,
           todo : SUBSET [key : Keys, row : DeliveryRow], hook : HookRow,
           of : Nat, ok : BOOLEAN]

\* Rows and local variables are well formed, and a delivery is kept for
\* recorded events only.
HookTypeOK ==
  /\ hooks \in [Hooks -> HookRow]
  /\ DOMAIN deliveries \subseteq Hooks \X Numbers
  /\ deliveries \in [DOMAIN deliveries -> DeliveryRow]
  /\ inbox \in [Hooks -> SUBSET Numbers]
  /\ dropped \subseteq DOMAIN deliveries
  /\ d \in [Tasks -> Locals]
  /\ failures \in Nat

\* What the tables say was delivered the receiver has accepted, however the
\* rows were overwritten by dispatchers that had read them before, and
\* whatever crashed: the delivery row and the last_delivered_sequence.
MarksAreTrue ==
  /\ \A s \in DOMAIN deliveries :
       deliveries[s].status = "delivered" => s[2] \in inbox[s[1]]
  /\ \A k \in Hooks : hooks[k].last # 0 => hooks[k].last \in inbox[k]

\* Ordering is preserved per registration by event_sequence: no receiver has
\* accepted an event while an earlier one that is enqueued for it has neither
\* been accepted nor ever given up.
OrderPreserved ==
  \A s \in DOMAIN deliveries : \A n \in inbox[s[1]] :
    n > s[2] => s[2] \in inbox[s[1]] \/ s \in dropped

\* Every delivery is delivered or given up in the end, and stays so, although
\* a late writer can put a settled delivery back among the retrying ones.
EveryDeliverySettles ==
  <>[](\A s \in DOMAIN deliveries :
         deliveries[s].status \in {"delivered", "failed"})

\* What the documentation says of a disabled registration: that it stops
\* enqueueing, so that it does not become active again by itself.
DisabledStaysDisabled ==
  [][\A k \in Hooks : hooks[k].status = "disabled"
                        => hooks'[k].status = "disabled"]_hookSystem
==============================================================================
