----------------------------- MODULE CodexBridge -----------------------------
(***************************************************************************)
(* A lazily started Codex bridge: the client's table of pending requests,  *)
(* the task that reads the child's answers, and the child process, which   *)
(* answers late, in any order or not at all, and may die at any moment.    *)
(*                                                                         *)
(* One task at a time uses a bridge: the request it was created for        *)
(* (get_codex_bridge_client) or the supervisor's loop (main.py).  `pc` is  *)
(* where that task is; the reader task, the child and the shutdown of the  *)
(* owner run between its awaits.  Telemetry and the thread that drains     *)
(* stderr are left out.                                                    *)
(***************************************************************************)
EXTENDS Integers, Sequences

CONSTANTS
  MaxCalls,    \* bound: calls of the owner
  MaxStarts,   \* bound: child processes; a further start finds no command
  MaxNoise     \* bound: notifications and malformed lines the child emits

ASSUME BoundsAssumption == MaxCalls \in Nat /\ MaxStarts \in Nat /\ MaxNoise \in Nat

VARIABLES
  lazy,      \* LazyCodexBridgeClient: has it a client, was it initialized
  manager,   \* CodexProcessManager holds a process
  client,    \* JsonRpcClient: its futures, the pending ids, its reader
  child,     \* the child process and its pipes
  pc,        \* where the owner's task is
  stopping,  \* the owner is shutting down
  calls,     \* history: how each call of the owner ended
  answered,  \* history: what the child answered to each call
  starts,    \* how many processes were started
  noise,     \* how many lines were not answers
  orphans    \* processes nothing can stop any more

vars == <<lazy, manager, client, child, pc, stopping, calls, answered, starts, noise, orphans>>

\* A future is the request's identifier; `call` is the call it serves, 0 for
\* `initialize`.
Future(call) == [call |-> call, state |-> "waiting", ok |-> FALSE, for |-> 0]
NewClient == [futures |-> <<>>, pending |-> {}, reader |-> "none", notifications |-> 0]
NoChild == [alive |-> FALSE, stdin |-> <<>>, working |-> {}, stdout |-> <<>>]

JsonRpcRequest(id, call) == [id |-> id, call |-> call]
JsonRpcResponse(request, ok) ==
  [kind |-> "response", id |-> request.id, call |-> request.call, ok |-> ok]
JsonRpcNotification == [kind |-> "notification", id |-> 0, call |-> 0, ok |-> TRUE]
Malformed == [kind |-> "malformed", id |-> 0, call |-> 0, ok |-> TRUE]

Init ==
  /\ lazy = [client |-> FALSE, initialized |-> FALSE]
  /\ manager = FALSE /\ client = NewClient /\ child = NoChild
  /\ pc = "idle" /\ stopping = FALSE
  /\ calls = <<>> /\ answered = <<>>
  /\ starts = 0 /\ noise = 0 /\ orphans = 0

Current == Len(client.futures)
Initializing == client.futures[Current].call = 0
Ended(outcome) == calls' = [calls EXCEPT ![Len(calls)] = IF @ = "open" THEN outcome ELSE @]
----------------------------------------------------------------------------
(* LazyCodexBridgeClient *)

Call ==
  /\ pc = "idle" /\ ~stopping /\ Len(calls) < MaxCalls
  /\ calls' = Append(calls, "open") /\ answered' = Append(answered, "none")
  /\ pc' = IF lazy.initialized THEN "call" ELSE "ensure_client"
  /\ UNCHANGED <<lazy, manager, client, child, stopping, starts, noise, orphans>>

IsRunning == manager /\ child.alive

EnsureClient ==
  /\ pc = "ensure_client"
  /\ IF lazy.client THEN pc' = "initialize" /\ UNCHANGED <<lazy, client>>
     ELSE IF IsRunning
            THEN /\ lazy' = [lazy EXCEPT !.client = TRUE] /\ client' = NewClient
                 /\ pc' = "initialize"
            ELSE pc' = "start" /\ UNCHANGED <<lazy, client>>
  /\ UNCHANGED <<manager, child, stopping, calls, answered, starts, noise, orphans>>

\* _start_sync, in a worker thread.
Start ==
  /\ pc = "start" /\ starts < MaxStarts
  /\ child' = [NoChild EXCEPT !.alive = TRUE] /\ manager' = TRUE
  /\ lazy' = [lazy EXCEPT !.client = TRUE] /\ client' = NewClient
  /\ starts' = starts + 1 /\ pc' = "initialize"
  /\ UNCHANGED <<stopping, calls, answered, noise, orphans>>

CommandNotFound ==
  /\ pc = "start" /\ Ended("failed") /\ pc' = "idle"
  /\ UNCHANGED <<lazy, manager, client, child, stopping, answered, starts, noise, orphans>>

\* _raise_for_error: an initialize that was refused closes the bridge again.
\* Mutant: the refusal is remembered as the answer.
InitializedAnyway(ok) ==
  /\ lazy' = [lazy EXCEPT !.initialized = TRUE] /\ pc' = "call" /\ UNCHANGED calls
Initialized(ok) ==
  IF ok THEN lazy' = [lazy EXCEPT !.initialized = TRUE] /\ pc' = "call" /\ UNCHANGED calls
        ELSE Ended("failed") /\ pc' = "close" /\ UNCHANGED lazy

\* aclose: forget the client, stop the process, cancel the reader.
\* Mutant: nothing to do once the client is gone.
CloseClientOnly ==
  /\ pc = "close"
  /\ lazy' = [client |-> FALSE, initialized |-> FALSE]
  /\ pc' = IF lazy.client THEN "stop" ELSE IF stopping THEN "closed" ELSE "idle"
  /\ UNCHANGED <<manager, client, child, stopping, calls, answered, starts, noise, orphans>>
Close ==
  /\ pc = "close"
  /\ lazy' = [client |-> FALSE, initialized |-> FALSE]
  /\ pc' = IF lazy.client THEN "stop" ELSE "stop_only"
  /\ UNCHANGED <<manager, client, child, stopping, calls, answered, starts, noise, orphans>>

\* CodexProcessManager.stop: terminate, and kill what does not end in time.
StopProcess ==
  /\ pc \in {"stop", "stop_only"}
  /\ child' = [child EXCEPT !.alive = @ /\ ~manager] /\ manager' = FALSE
  /\ pc' = IF pc = "stop" THEN "cancel_reader" ELSE IF stopping THEN "closed" ELSE "idle"
  /\ UNCHANGED <<lazy, client, stopping, calls, answered, starts, noise, orphans>>

CancelReader ==
  /\ pc = "cancel_reader"
  /\ client' = [client EXCEPT !.reader = "none"]
  /\ pc' = IF stopping THEN "closed" ELSE "idle"
  /\ UNCHANGED <<lazy, manager, child, stopping, calls, answered, starts, noise, orphans>>

\* The owner shuts down: its task is cancelled at the await it has reached, and
\* the bridge is closed.  A start that was cancelled goes on in its thread, and
\* nobody holds the process it makes.
Shutdown ==
  /\ ~stopping /\ pc \in {"idle", "start", "write", "notify", "await", "stop", "stop_only", "cancel_reader"}
  /\ stopping' = TRUE /\ pc' = "close"
  /\ IF calls # <<>> THEN Ended("canceled") ELSE UNCHANGED calls
  /\ orphans' = orphans + IF pc = "start" /\ starts < MaxStarts THEN 1 ELSE 0
  /\ client' = IF pc \in {"write", "notify", "await"} /\ client.futures[Current].state = "waiting"
                 THEN [client EXCEPT !.futures[Current].state = "cancelled"] ELSE client
  /\ UNCHANGED <<lazy, manager, child, answered, starts, noise>>
----------------------------------------------------------------------------
(* JsonRpcClient: initialize and call *)

\* _ensure_reader_task and the registration of the future.
Register(call) ==
  client' = [client EXCEPT
    !.futures = Append(@, Future(call)), !.pending = @ \union {Current + 1},
    !.reader = IF @ = "none" THEN "reading" ELSE @]

Initialize ==
  /\ pc = "initialize" /\ Register(0) /\ pc' = "write"
  /\ UNCHANGED <<lazy, manager, child, stopping, calls, answered, starts, noise, orphans>>

SendCall ==
  /\ pc = "call" /\ Register(Len(calls)) /\ pc' = "write"
  /\ UNCHANGED <<lazy, manager, child, stopping, calls, answered, starts, noise, orphans>>

\* The pending entry is removed and the exception goes up; a failed initialize
\* closes the bridge on its way.
Raise(outcome) ==
  /\ client' = [client EXCEPT !.pending = @ \ {Current}, !.futures[Current].state = "cancelled"]
  /\ Ended(outcome) /\ pc' = IF Initializing THEN "close" ELSE "idle"

\* _write_message: a pipe nobody reads any more raises.
WriteRequest ==
  /\ pc = "write"
  /\ IF child.alive
       THEN /\ child' = [child EXCEPT !.stdin = Append(@,
                 JsonRpcRequest(Current, client.futures[Current].call))]
            /\ pc' = IF Initializing THEN "notify" ELSE "await"
            /\ UNCHANGED <<client, calls>>
       ELSE Raise("failed") /\ UNCHANGED child
  /\ UNCHANGED <<lazy, manager, stopping, answered, starts, noise, orphans>>

\* The `initialized` notification is not awaited by anyone.
NotifyInitialized ==
  /\ pc = "notify"
  /\ IF child.alive THEN pc' = "await" /\ UNCHANGED <<client, calls>> ELSE Raise("failed")
  /\ UNCHANGED <<lazy, manager, child, stopping, answered, starts, noise, orphans>>

Answer(ok) == IF ok THEN "result" ELSE "error"

ReturnResponse ==
  /\ pc = "await" /\ client.futures[Current].state = "done"
  /\ LET f == client.futures[Current] IN
     IF f.call = 0 THEN Initialized(f.ok)
     ELSE Ended(Answer(f.ok)) /\ pc' = "idle" /\ UNCHANGED lazy
  /\ UNCHANGED <<manager, client, child, stopping, answered, starts, noise, orphans>>

ConnectionLost ==
  /\ pc = "await" /\ client.futures[Current].state = "failed" /\ Raise("failed")
  /\ UNCHANGED <<lazy, manager, child, stopping, answered, starts, noise, orphans>>

\* wait_for cancels the future first; the exception is handled a turn of the
\* event loop later, in which the reader may still take the answer.
\* Mutant: the reader watches the clock.
TimeoutOfReader ==
  /\ pc = "await" /\ client.futures[Current].state = "waiting" /\ client.reader = "reading"
  /\ client' = [client EXCEPT !.futures[Current].state = "cancelled"]
  /\ UNCHANGED <<lazy, manager, child, pc, stopping, calls, answered, starts, noise, orphans>>
Timeout ==
  /\ pc = "await" /\ client.futures[Current].state = "waiting"
  /\ client' = [client EXCEPT !.futures[Current].state = "cancelled"]
  /\ UNCHANGED <<lazy, manager, child, pc, stopping, calls, answered, starts, noise, orphans>>

TimedOut ==
  /\ pc = "await" /\ client.futures[Current].state = "cancelled" /\ Raise("timeout")
  /\ UNCHANGED <<lazy, manager, child, stopping, answered, starts, noise, orphans>>
----------------------------------------------------------------------------
(* JsonRpcClient: the reader task *)

\* _resolve_response.  An answer nobody waits for becomes a notification, one
\* whose future is done already is dropped.
\* Mutant: the answer is given to whoever is waiting.
ResolveNewest(c, r) ==
  IF c.pending = {} THEN [c EXCEPT !.notifications = @ + 1]
  ELSE LET id == CHOOSE i \in c.pending : \A k \in c.pending : k <= i
       IN [c EXCEPT !.pending = @ \ {id},
             !.futures[id] = IF @.state # "waiting" THEN @
                             ELSE [@ EXCEPT !.state = "done", !.ok = r.ok, !.for = r.call]]
Resolve(c, r) ==
  IF r.id \notin c.pending THEN [c EXCEPT !.notifications = @ + 1]
  ELSE [c EXCEPT !.pending = @ \ {r.id},
          !.futures[r.id] = IF @.state # "waiting" THEN @
                            ELSE [@ EXCEPT !.state = "done", !.ok = r.ok, !.for = r.call]]

FailPending(c, reader) ==
  [c EXCEPT !.pending = {}, !.reader = reader,
     !.futures = [i \in DOMAIN c.futures |->
       IF i \in c.pending /\ c.futures[i].state = "waiting"
         THEN [c.futures[i] EXCEPT !.state = "failed"] ELSE c.futures[i]]]

ReadLine ==
  /\ client.reader = "reading" /\ child.stdout # <<>>
  /\ LET line == Head(child.stdout) IN
     client' = CASE line.kind = "response" -> Resolve(client, line)
                 [] line.kind = "notification" -> [client EXCEPT !.notifications = @ + 1]
                 [] OTHER -> FailPending(client, "crashed")
  /\ child' = [child EXCEPT !.stdout = Tail(@)]
  /\ UNCHANGED <<lazy, manager, pc, stopping, calls, answered, starts, noise, orphans>>

ReadEof ==
  /\ client.reader = "reading" /\ child.stdout = <<>> /\ ~child.alive
  /\ client' = FailPending(client, "ended")
  /\ UNCHANGED <<lazy, manager, child, pc, stopping, calls, answered, starts, noise, orphans>>
----------------------------------------------------------------------------
(* The child: Codex, as far as the client depends on it *)

Accept ==
  /\ child.alive /\ child.stdin # <<>>
  /\ child' = [child EXCEPT !.stdin = Tail(@), !.working = @ \union {Head(child.stdin)}]
  /\ UNCHANGED <<lazy, manager, client, pc, stopping, calls, answered, starts, noise, orphans>>

Respond(request, ok) ==
  /\ child.alive /\ request \in child.working
  /\ child' = [child EXCEPT !.working = @ \ {request},
                            !.stdout = Append(@, JsonRpcResponse(request, ok))]
  /\ answered' = IF request.call = 0 THEN answered
                 ELSE [answered EXCEPT ![request.call] = Answer(ok)]
  /\ UNCHANGED <<lazy, manager, client, pc, stopping, calls, starts, noise, orphans>>

Emit(line) ==
  /\ child.alive /\ noise < MaxNoise
  /\ child' = [child EXCEPT !.stdout = Append(@, line)] /\ noise' = noise + 1
  /\ UNCHANGED <<lazy, manager, client, pc, stopping, calls, answered, starts, orphans>>

Die ==
  /\ child.alive
  /\ child' = [child EXCEPT !.alive = FALSE, !.stdin = <<>>, !.working = {}]
  /\ UNCHANGED <<lazy, manager, client, pc, stopping, calls, answered, starts, noise, orphans>>
----------------------------------------------------------------------------
Owner ==
  \/ EnsureClient \/ Start \/ CommandNotFound \/ Close \/ StopProcess \/ CancelReader
  \/ Initialize \/ SendCall \/ WriteRequest \/ NotifyInitialized
  \/ ReturnResponse \/ ConnectionLost \/ TimedOut
Reader == ReadLine \/ ReadEof
Codex ==
  \/ Accept \/ Die \/ Emit(JsonRpcNotification) \/ Emit(Malformed)
  \/ \E r \in child.working, ok \in BOOLEAN : Respond(r, ok)

Next == Call \/ Shutdown \/ Owner \/ Timeout \/ Reader \/ Codex

\* The event loop runs the owner's task and the reader, and its timer fires;
\* Codex need not answer.
Spec == Init /\ [][Next]_vars /\ WF_vars(Owner) /\ WF_vars(Timeout) /\ WF_vars(Reader)
----------------------------------------------------------------------------
(* Properties *)

ClientState == [futures : Seq([call : 0..MaxCalls, state : {"waiting", "done", "failed", "cancelled"},
                               ok : BOOLEAN, for : 0..MaxCalls]),
                pending : SUBSET Nat, reader : {"none", "reading", "ended", "crashed"},
                notifications : Nat]
Outcomes == {"open", "result", "error", "failed", "timeout", "canceled"}

\* The rows and tables keep their types; the pending table holds identifiers
\* that were issued, and no future that has its answer.
TypeOK ==
  /\ lazy \in [client : BOOLEAN, initialized : BOOLEAN] /\ manager \in BOOLEAN
  /\ client \in ClientState
  /\ \A id \in client.pending : id \in 1..Current /\ client.futures[id].state # "done"
  /\ calls \in Seq(Outcomes) /\ answered \in Seq({"none", "result", "error"})
  /\ starts \in 0..MaxStarts /\ orphans \in 0..1

\* A future is resolved by the answer to its own request, whatever arrives late
\* from calls that have timed out.
OwnAnswer == \A id \in DOMAIN client.futures :
  client.futures[id].state = "done" => client.futures[id].for = client.futures[id].call

\* Codex is asked nothing before it accepted `initialize` on this process.
InitializedFirst ==
  \A r \in child.working \union {child.stdin[i] : i \in DOMAIN child.stdin} :
    r.call # 0 => client.futures[1].call = 0 /\ client.futures[1].ok

\* A bridge that was closed leaves no process behind, except the one whose
\* start was cancelled.
ClosedStopsChild == pc = "closed" => ~child.alive /\ ~manager

\* The calls of the owner keep the contract of RpcContract.
Rpc == INSTANCE RpcContract WITH
  Answers <- {"result", "error"}, Failures <- {"failed", "timeout", "canceled"},
  calls <- calls, answered <- answered
KeepsContract == Rpc!Spec

\* Every call ends, although Codex may stay silent or die at any moment.
EveryCallEnds ==
  \A k \in 1..MaxCalls :
    (k \in DOMAIN calls /\ calls[k] = "open") ~> (k \in DOMAIN calls /\ calls[k] # "open")
=============================================================================
