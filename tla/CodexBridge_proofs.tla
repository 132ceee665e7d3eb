-------------------------- MODULE CodexBridge_proofs --------------------------
(***************************************************************************)
(* Proofs about CodexBridge: a future is resolved by the answer to its own *)
(* request, Codex is asked nothing before it accepted `initialize`, a      *)
(* closed bridge leaves no child, and the calls of the owner implement     *)
(* RpcContract.                                                            *)
(***************************************************************************)
EXTENDS CodexBridge, TLAPS

(* Sequences as queues *)

Elems(s) == {s[i] : i \in DOMAIN s}
Distinct(s) == \A i, j \in DOMAIN s : s[i] = s[j] => i = j

LEMMA AppendElems ==
  ASSUME NEW S, NEW s \in Seq(S), NEW x
  PROVE  Elems(Append(s, x)) = Elems(s) \union {x}
<1>1. DOMAIN Append(s, x) = 1..(Len(s) + 1)
  BY SMT
<1>2. \A i \in 1..Len(s) : Append(s, x)[i] = s[i]
  BY SMT
<1>3. Append(s, x)[Len(s) + 1] = x
  BY SMT
<1>4. DOMAIN s = 1..Len(s) /\ Len(s) \in Nat
  BY SMT
<1>5. Elems(Append(s, x)) \subseteq Elems(s) \union {x}
  <2> SUFFICES ASSUME NEW i \in 1..(Len(s) + 1)
               PROVE  Append(s, x)[i] \in Elems(s) \union {x}
    BY <1>1 DEF Elems
  <2>1. CASE i \in 1..Len(s)
    BY <2>1, <1>2, <1>4 DEF Elems
  <2>2. CASE i = Len(s) + 1
    BY <2>2, <1>3
  <2> QED BY <2>1, <2>2, <1>4
<1>6. Elems(s) \union {x} \subseteq Elems(Append(s, x))
  <2>1. x \in Elems(Append(s, x))
    BY <1>1, <1>3, <1>4 DEF Elems
  <2>2. ASSUME NEW i \in 1..Len(s)
        PROVE  s[i] \in Elems(Append(s, x))
    <3>1. i \in 1..(Len(s) + 1)
      BY <1>4
    <3> QED BY <3>1, <1>1, <1>2 DEF Elems
  <2> QED BY <2>1, <2>2, <1>4 DEF Elems
<1> QED BY <1>5, <1>6

LEMMA AppendDistinct ==
  ASSUME NEW S, NEW s \in Seq(S), NEW x, Distinct(s), x \notin Elems(s)
  PROVE  Distinct(Append(s, x))
<1>1. DOMAIN Append(s, x) = 1..(Len(s) + 1)
  BY SMT
<1>2. \A i \in 1..Len(s) : Append(s, x)[i] = s[i] /\ s[i] # x
  BY SMT DEF Elems
<1>3. Append(s, x)[Len(s) + 1] = x
  BY SMT
<1>4. DOMAIN s = 1..Len(s) /\ Len(s) \in Nat
  BY SMT
<1> SUFFICES ASSUME NEW i \in 1..(Len(s) + 1), NEW j \in 1..(Len(s) + 1),
                    Append(s, x)[i] = Append(s, x)[j]
             PROVE  i = j
  BY <1>1 DEF Distinct
<1>5. CASE i \in 1..Len(s) /\ j \in 1..Len(s)
  BY <1>5, <1>2, <1>4 DEF Distinct
<1>6. CASE i = Len(s) + 1 \/ j = Len(s) + 1
  BY <1>6, <1>2, <1>3, <1>4
<1> QED BY <1>5, <1>6, <1>4

LEMMA TailElems ==
  ASSUME NEW S, NEW s \in Seq(S), s # <<>>
  PROVE  /\ Head(s) \in Elems(s) /\ Elems(Tail(s)) \subseteq Elems(s)
         /\ Distinct(s) => Head(s) \notin Elems(Tail(s)) /\ Distinct(Tail(s))
<1>1. DOMAIN s = 1..Len(s) /\ Len(s) \in Nat /\ Len(s) > 0 /\ Head(s) = s[1]
  BY SMT
<1>2. DOMAIN Tail(s) = 1..(Len(s) - 1)
  BY <1>1, SMT
<1>3. \A i \in 1..(Len(s) - 1) : Tail(s)[i] = s[i + 1] /\ i + 1 \in 1..Len(s)
  BY <1>1, SMT
<1>4. Head(s) \in Elems(s)
  BY <1>1 DEF Elems
<1>5. Elems(Tail(s)) \subseteq Elems(s)
  BY <1>1, <1>2, <1>3 DEF Elems
<1>6. ASSUME Distinct(s) PROVE Head(s) \notin Elems(Tail(s))
  BY <1>1, <1>2, <1>3, <1>6 DEF Elems, Distinct
<1>7. ASSUME Distinct(s) PROVE Distinct(Tail(s))
  <2> SUFFICES ASSUME NEW i \in 1..(Len(s) - 1), NEW j \in 1..(Len(s) - 1), s[i + 1] = s[j + 1]
               PROVE  i = j
    BY <1>2, <1>3 DEF Distinct
  <2>1. i + 1 = j + 1
    BY <1>1, <1>3, <1>7 DEF Distinct
  <2> QED BY <2>1
<1> QED BY <1>4, <1>5, <1>6, <1>7
----------------------------------------------------------------------------
(* The inductive invariant *)

FutureRow == [call : Nat, state : {"waiting", "done", "failed", "cancelled"},
              ok : BOOLEAN, for : Nat]
RequestRow == [id : Nat, call : Nat]
LineRow == [kind : {"response", "notification", "malformed"}, id : Nat, call : Nat, ok : BOOLEAN]
ClientRow == [futures : Seq(FutureRow), pending : SUBSET Nat,
              reader : {"none", "reading", "ended", "crashed"}, notifications : Nat]
ChildRow == [alive : BOOLEAN, stdin : Seq(RequestRow), working : SUBSET RequestRow,
             stdout : Seq(LineRow)]

Waiting == {"write", "notify", "await"}
Active == {"ensure_client", "start", "initialize", "call"} \union Waiting
Closing == {"close", "stop", "stop_only", "cancel_reader", "closed"}

Typed ==
  /\ lazy \in [client : BOOLEAN, initialized : BOOLEAN] /\ manager \in BOOLEAN
  /\ client \in ClientRow /\ child \in ChildRow
  /\ pc \in {"idle"} \union Active \union Closing /\ stopping \in BOOLEAN
  /\ calls \in Seq(Outcomes) /\ answered \in Seq({"none", "result", "error"})
  /\ client.pending \subseteq DOMAIN client.futures

\* The only open call is the last one, while the owner works on it.
CallsInv ==
  /\ Len(answered) = Len(calls)
  /\ \A k \in DOMAIN calls : calls[k] = "open" => k = Len(calls) /\ pc \in Active
  /\ pc \in Active => Len(calls) > 0 /\ calls[Len(calls)] = "open"

\* What the lazy client and the manager hold, by where the owner is.
OwnerInv ==
  /\ ~manager => ~child.alive
  /\ ~lazy.client => ~manager \/ pc \in {"close", "stop", "stop_only"}
  /\ pc \in {"cancel_reader", "closed"} => ~manager
  /\ pc \in {"ensure_client", "start", "stop", "stop_only", "cancel_reader"} =>
       ~lazy.client /\ ~lazy.initialized
  /\ pc \in {"initialize", "call"} \union Waiting => lazy.client
  /\ pc = "idle" => lazy.client = lazy.initialized
  /\ stopping => pc \in Closing

\* A future is of `initialize`, the first, or of one call that came after it.
Ready == client.futures[1].call = 0 /\ client.futures[1].ok /\ client.futures[1].state # "waiting"
CurrentInv ==
  /\ pc = "initialize" => client.futures = <<>>
  /\ pc \in Waiting =>
       /\ Current > 0 /\ client.futures[Current].call \in {0, Len(calls)}
       /\ client.futures[Current].call = 0 => Current = 1
       /\ client.futures[Current].call # 0 => lazy.initialized
  /\ pc = "notify" => client.futures[Current].call = 0
  /\ pc = "call" => lazy.initialized
  /\ lazy.initialized => Current > 0 /\ Ready
  /\ \A i \in DOMAIN client.futures : client.futures[i].call # 0 => Ready

\* The last call has not been registered yet.
Unsent == \/ pc \in {"ensure_client", "start", "initialize", "call"}
          \/ pc \in Waiting /\ client.futures[Current].call = 0
FuturesInv ==
  /\ \A i \in DOMAIN client.futures : client.futures[i].call \in 0..Len(calls)
  /\ \A i, j \in DOMAIN client.futures :
       client.futures[i].call = client.futures[j].call /\ client.futures[i].call # 0 => i = j
  /\ \A i \in DOMAIN client.futures : client.futures[i].state = "done" =>
       /\ client.futures[i].for = client.futures[i].call
       /\ client.futures[i].call # 0 =>
            answered[client.futures[i].call] = Answer(client.futures[i].ok)
  /\ Unsent =>
       /\ \A i \in DOMAIN client.futures : client.futures[i].call # Len(calls)
       /\ answered[Len(calls)] = "none"

\* Every message on its way belongs to a future; a request was not answered, and
\* is there once; an answer is what the child answered.
Sent == child.working \union Elems(child.stdin)
Responses == {l \in Elems(child.stdout) : l.kind = "response"}
MessagesInv ==
  /\ \A r \in Sent : /\ r.id \in DOMAIN client.futures /\ client.futures[r.id].call = r.call
                     /\ r.call # 0 => answered[r.call] = "none"
  /\ Distinct(child.stdin) /\ child.working \intersect Elems(child.stdin) = {}
  /\ \A l \in Responses : /\ l.id \in DOMAIN client.futures /\ client.futures[l.id].call = l.call
                          /\ l.call # 0 => answered[l.call] = Answer(l.ok)
  /\ pc = "write" =>
       /\ \A r \in Sent : r.id # Current
       /\ client.futures[Current].call # 0 => answered[client.futures[Current].call] = "none"

IInv == Typed /\ CallsInv /\ OwnerInv /\ CurrentInv /\ FuturesInv /\ MessagesInv
----------------------------------------------------------------------------
(* The client's table *)

LEMMA AppendFacts ==
  ASSUME NEW S, NEW s \in Seq(S), NEW x \in S, NEW n \in Nat, Len(s) = n
  PROVE  /\ Append(s, x) \in Seq(S) /\ Len(Append(s, x)) = n + 1
         /\ Append(s, x)[n + 1] = x /\ \A i \in 1..n : Append(s, x)[i] = s[i]
BY SMT

LEMMA FunctionIsSequence ==
  ASSUME NEW S, NEW n \in Nat, NEW F \in [1..n -> S]
  PROVE  F \in Seq(S) /\ Len(F) = n
BY SMT

\* What a step does to the futures when none is registered and none resolved.
Quiet ==
  /\ client'.futures \in Seq(FutureRow) /\ client'.pending \subseteq client.pending
  /\ DOMAIN client'.futures = DOMAIN client.futures
  /\ \A i \in DOMAIN client.futures :
       /\ client'.futures[i].call = client.futures[i].call
       /\ client'.futures[i].ok = client.futures[i].ok
       /\ client'.futures[i].for = client.futures[i].for
       /\ client'.futures[i].state = "done" => client.futures[i].state = "done"
       /\ client'.futures[i].state = "waiting" => client.futures[i].state = "waiting"

LEMMA Futures ==
  ASSUME client \in ClientRow
  PROVE  /\ client.futures \in Seq(FutureRow) /\ client.pending \subseteq Nat
         /\ Current \in Nat /\ DOMAIN client.futures = 1..Current
         /\ \A i \in DOMAIN client.futures : client.futures[i] \in FutureRow
<1>1. client.futures \in Seq(FutureRow) /\ client.pending \subseteq Nat
  BY DEF ClientRow
<1> QED BY <1>1 DEF Current

LEMMA QuietUnchanged ==
  ASSUME client \in ClientRow, UNCHANGED client
  PROVE  Quiet /\ client' \in ClientRow
BY Futures DEF Quiet

\* One future changes its state, whatever leaves the table at the same time.
LEMMA QuietUpdate ==
  ASSUME client \in ClientRow, NEW i \in DOMAIN client.futures,
         NEW pending \in SUBSET client.pending, NEW state \in {"failed", "cancelled"},
         client' = [client EXCEPT !.pending = pending, !.futures[i].state = state]
  PROVE  Quiet /\ client' \in ClientRow
<1> DEFINE F == [client.futures EXCEPT ![i].state = state]
<1>1. /\ client.futures \in Seq(FutureRow) /\ DOMAIN client.futures = 1..Len(client.futures)
      /\ \A k \in DOMAIN client.futures : client.futures[k] \in FutureRow
      /\ pending \in SUBSET Nat
  BY Futures DEF Current
<1>2. client' = [[client EXCEPT !.pending = pending] EXCEPT !.futures = F]
  BY DEF ClientRow
<1>3. [client.futures[i] EXCEPT !.state = state] \in FutureRow
  BY <1>1 DEF FutureRow
<1>4. F = [client.futures EXCEPT ![i] = [client.futures[i] EXCEPT !.state = state]]
  BY <1>1
<1>5. F \in Seq(FutureRow) /\ DOMAIN F = DOMAIN client.futures
  BY <1>1, <1>3, <1>4
<1>6. \A k \in DOMAIN client.futures :
        F[k] = IF k = i THEN [client.futures[i] EXCEPT !.state = state] ELSE client.futures[k]
  BY <1>1, <1>4
<1> HIDE DEF F
<1>7. [client EXCEPT !.pending = pending] \in ClientRow
  BY <1>1 DEF ClientRow
<1>8. client' \in ClientRow
  BY <1>2, <1>5, <1>7 DEF ClientRow
<1>9. client'.futures = F /\ client'.pending = pending
  BY <1>2, <1>7 DEF ClientRow
<1>10. \A k \in DOMAIN client.futures :
         /\ F[k].call = client.futures[k].call /\ F[k].ok = client.futures[k].ok
         /\ F[k].for = client.futures[k].for
         /\ F[k].state = "done" => client.futures[k].state = "done"
         /\ F[k].state = "waiting" => client.futures[k].state = "waiting"
  <2> SUFFICES ASSUME NEW k \in DOMAIN client.futures
               PROVE  /\ F[k].call = client.futures[k].call /\ F[k].ok = client.futures[k].ok
                      /\ F[k].for = client.futures[k].for
                      /\ F[k].state = "done" => client.futures[k].state = "done"
                      /\ F[k].state = "waiting" => client.futures[k].state = "waiting"
    OBVIOUS
  <2>1. CASE k = i
    <3>1. F[k] = [client.futures[i] EXCEPT !.state = state]
      BY <1>6, <2>1
    <3>2. client.futures[i] \in FutureRow
      BY <1>1
    <3> QED BY <2>1, <3>1, <3>2 DEF FutureRow
  <2>2. CASE k # i
    BY <1>6, <2>2
  <2> QED BY <2>1, <2>2
<1> QED BY <1>5, <1>8, <1>9, <1>10 DEF Quiet

\* The reader ends: what was pending has failed.
LEMMA QuietFailPending ==
  ASSUME client \in ClientRow, NEW reader \in {"ended", "crashed"},
         client' = FailPending(client, reader)
  PROVE  Quiet /\ client' \in ClientRow
<1> DEFINE F == [i \in DOMAIN client.futures |->
                  IF i \in client.pending /\ client.futures[i].state = "waiting"
                    THEN [client.futures[i] EXCEPT !.state = "failed"] ELSE client.futures[i]]
<1>1. /\ client.futures \in Seq(FutureRow) /\ DOMAIN client.futures = 1..Len(client.futures)
      /\ Len(client.futures) \in Nat
      /\ \A k \in DOMAIN client.futures : client.futures[k] \in FutureRow
  BY Futures DEF Current
<1>2. client' = [[[client EXCEPT !.pending = {}] EXCEPT !.reader = reader] EXCEPT !.futures = F]
  BY DEF FailPending, ClientRow
<1>3. \A k \in DOMAIN client.futures : F[k] \in FutureRow
  BY <1>1 DEF FutureRow
<1>4. F \in Seq(FutureRow) /\ DOMAIN F = DOMAIN client.futures
  <2>1. F \in [1..Len(client.futures) -> FutureRow]
    BY <1>1, <1>3
  <2> HIDE DEF F
  <2> QED BY <1>1, <2>1, FunctionIsSequence
<1>5. \A k \in DOMAIN client.futures :
         /\ F[k].call = client.futures[k].call /\ F[k].ok = client.futures[k].ok
         /\ F[k].for = client.futures[k].for
         /\ F[k].state = "done" => client.futures[k].state = "done"
         /\ F[k].state = "waiting" => client.futures[k].state = "waiting"
  BY <1>1 DEF FutureRow
<1> HIDE DEF F
<1>6. [client EXCEPT !.pending = {}] \in ClientRow
  BY DEF ClientRow
<1>7. [[client EXCEPT !.pending = {}] EXCEPT !.reader = reader] \in ClientRow
  BY <1>6 DEF ClientRow
<1>8. client' \in ClientRow /\ client'.futures = F /\ client'.pending = {}
  BY <1>2, <1>4, <1>6, <1>7 DEF ClientRow
<1> QED BY <1>4, <1>5, <1>8 DEF Quiet

\* A request is registered under the next identifier.
LEMMA Registered ==
  ASSUME client \in ClientRow, NEW call \in Nat, Register(call)
  PROVE  /\ client' \in ClientRow /\ client'.pending = client.pending \union {Current + 1}
         /\ client'.futures = Append(client.futures, Future(call))
         /\ client'.futures[Current + 1] = Future(call) /\ Current' = Current + 1
         /\ \A i \in 1..Current : client'.futures[i] = client.futures[i]
<1> DEFINE F == Append(client.futures, Future(call))
           pending == client.pending \union {Current + 1}
           reader == IF client.reader = "none" THEN "reading" ELSE client.reader
<1>1. /\ client.futures \in Seq(FutureRow) /\ client.pending \subseteq Nat /\ Current \in Nat
  BY Futures
<1>2. Future(call) \in FutureRow
  BY DEF Future, FutureRow
<1>3. /\ F \in Seq(FutureRow) /\ Len(F) = Current + 1 /\ F[Current + 1] = Future(call)
      /\ \A i \in 1..Current : F[i] = client.futures[i]
  <2>1. Len(client.futures) = Current
    BY DEF Current
  <2> HIDE DEF Current
  <2> QED BY <1>1, <1>2, <2>1, AppendFacts
<1>4. pending \subseteq Nat /\ reader \in {"none", "reading", "ended", "crashed"}
  BY <1>1 DEF ClientRow
<1>5. client' = [[[client EXCEPT !.pending = pending] EXCEPT !.reader = reader] EXCEPT !.futures = F]
  BY DEF Register, ClientRow
<1> HIDE DEF F, pending, reader
<1>6. [client EXCEPT !.pending = pending] \in ClientRow
  BY <1>4 DEF ClientRow
<1>7. [[client EXCEPT !.pending = pending] EXCEPT !.reader = reader] \in ClientRow
  BY <1>4, <1>6 DEF ClientRow
<1>8. client' \in ClientRow /\ client'.futures = F /\ client'.pending = pending
  BY <1>3, <1>5, <1>6, <1>7 DEF ClientRow
<1>9. Current' = Current + 1
  BY <1>3, <1>8 DEF Current
<1> QED BY <1>3, <1>8, <1>9 DEF F, pending

LEMMA SettledRow ==
  ASSUME NEW f \in FutureRow, NEW ok \in BOOLEAN, NEW for \in Nat
  PROVE  [[[f EXCEPT !.state = "done"] EXCEPT !.ok = ok] EXCEPT !.for = for]
           = [call |-> f.call, state |-> "done", ok |-> ok, for |-> for]
<1> DEFINE f1 == [f EXCEPT !.state = "done"]
           f2 == [f1 EXCEPT !.ok = ok]
           f3 == [f2 EXCEPT !.for = for]
           g == [call |-> f.call, state |-> "done", ok |-> ok, for |-> for]
<1>1. f1 \in FutureRow /\ f1.call = f.call /\ f1.state = "done"
  BY DEF FutureRow
<1> HIDE DEF f1
<1>2. f2 \in FutureRow /\ f2.call = f.call /\ f2.state = "done" /\ f2.ok = ok
  BY <1>1 DEF FutureRow
<1> HIDE DEF f2
<1>3. f3 \in FutureRow /\ f3.call = f.call /\ f3.state = "done" /\ f3.ok = ok /\ f3.for = for
  BY <1>2 DEF FutureRow
<1> HIDE DEF f3
<1>4. f3 = [call |-> f3.call, state |-> f3.state, ok |-> f3.ok, for |-> f3.for]
  BY <1>3 DEF FutureRow
<1>5. f3 = g
  BY <1>3, <1>4
<1> QED BY <1>5 DEF f1, f2, f3

\* A response takes one identifier from the table, and settles its future only.
LEMMA Resolved ==
  ASSUME client \in ClientRow, client.pending \subseteq DOMAIN client.futures,
         NEW line \in LineRow, client' = Resolve(client, line)
  PROVE  /\ client' \in ClientRow /\ client'.pending \subseteq client.pending
         /\ DOMAIN client'.futures = DOMAIN client.futures
         /\ \A i \in DOMAIN client.futures :
              \/ client'.futures[i] = client.futures[i]
              \/ /\ i = line.id /\ client.futures[i].state = "waiting"
                 /\ client'.futures[i].call = client.futures[i].call
                 /\ client'.futures[i].state = "done" /\ client'.futures[i].ok = line.ok
                 /\ client'.futures[i].for = line.call
<1>1. /\ client.futures \in Seq(FutureRow) /\ DOMAIN client.futures = 1..Len(client.futures)
      /\ client.pending \subseteq Nat
      /\ \A k \in DOMAIN client.futures : client.futures[k] \in FutureRow
  BY Futures DEF Current
<1>2. CASE line.id \notin client.pending
  <2>1. client' = [client EXCEPT !.notifications = @ + 1]
    BY <1>2 DEF Resolve
  <2>2. client' \in ClientRow /\ client'.futures = client.futures /\ client'.pending = client.pending
    BY <2>1 DEF ClientRow
  <2> QED BY <2>2
<1>3. CASE line.id \in client.pending
  <2> DEFINE f == client.futures[line.id]
             settled == [call |-> f.call, state |-> "done", ok |-> line.ok, for |-> line.call]
             g == IF f.state # "waiting" THEN f ELSE settled
             F == [client.futures EXCEPT ![line.id] = g]
             pending == client.pending \ {line.id}
  <2>1. line.id \in DOMAIN client.futures /\ f \in FutureRow
    BY <1>1, <1>3
  <2>2. [[[f EXCEPT !.state = "done"] EXCEPT !.ok = line.ok] EXCEPT !.for = line.call] = settled
    BY <2>1, SettledRow DEF LineRow
  <2>3. client' = [[client EXCEPT !.pending = pending] EXCEPT !.futures = F]
    <3>1. client' = [[client EXCEPT !.pending = client.pending \ {line.id}] EXCEPT !.futures =
             [client.futures EXCEPT ![line.id] = IF @.state # "waiting" THEN @
                ELSE [[[@ EXCEPT !.state = "done"] EXCEPT !.ok = line.ok] EXCEPT !.for = line.call]]]
      BY <1>3 DEF Resolve, ClientRow
    <3>2. F = [client.futures EXCEPT ![line.id] = IF @.state # "waiting" THEN @
                ELSE [[[@ EXCEPT !.state = "done"] EXCEPT !.ok = line.ok] EXCEPT !.for = line.call]]
      BY <1>1, <2>1, <2>2
    <3> QED BY <3>1, <3>2
  <2>4. settled \in FutureRow
    BY <2>1 DEF FutureRow, LineRow
  <2>5. F \in Seq(FutureRow) /\ DOMAIN F = DOMAIN client.futures
        /\ \A i \in DOMAIN client.futures : F[i] = IF i = line.id THEN g ELSE client.futures[i]
    BY <1>1, <2>1, <2>4
  <2>6. pending \subseteq client.pending
    OBVIOUS
  <2>7. \A i \in DOMAIN client.futures :
              \/ F[i] = client.futures[i]
              \/ /\ i = line.id /\ client.futures[i].state = "waiting"
                 /\ F[i].call = client.futures[i].call
                 /\ F[i].state = "done" /\ F[i].ok = line.ok /\ F[i].for = line.call
    BY <2>5
  <2> HIDE DEF F, pending, g
  <2>8. [client EXCEPT !.pending = pending] \in ClientRow
    BY <1>1, <2>6 DEF ClientRow
  <2>9. client' \in ClientRow /\ client'.futures = F /\ client'.pending = pending
    BY <2>3, <2>5, <2>8 DEF ClientRow
  <2> QED BY <2>5, <2>6, <2>7, <2>9
<1> QED BY <1>2, <1>3
----------------------------------------------------------------------------
(* The child's pipes *)

LEMMA Pipes ==
  ASSUME child \in ChildRow
  PROVE  /\ child.stdin \in Seq(RequestRow) /\ child.stdout \in Seq(LineRow)
         /\ child.working \subseteq RequestRow /\ child.alive \in BOOLEAN
BY DEF ChildRow

LEMMA QueueTypes ==
  ASSUME NEW S, NEW s \in Seq(S)
  PROVE  /\ Elems(s) \subseteq S /\ \A x \in S : Append(s, x) \in Seq(S)
         /\ s # <<>> => Head(s) \in S /\ Tail(s) \in Seq(S)
BY SMT DEF Elems

LEMMA AcceptChild ==
  ASSUME child \in ChildRow, Accept
  PROVE  /\ child' \in ChildRow /\ child.stdin # <<>> /\ child'.alive = child.alive
         /\ child'.stdin = Tail(child.stdin) /\ child'.stdout = child.stdout
         /\ child'.working = child.working \union {Head(child.stdin)}
<1>1. child' = [[child EXCEPT !.stdin = Tail(child.stdin)]
                  EXCEPT !.working = child.working \union {Head(child.stdin)}]
  BY DEF Accept, ChildRow
<1>2. child.stdin # <<>> /\ Head(child.stdin) \in RequestRow /\ Tail(child.stdin) \in Seq(RequestRow)
  BY Pipes, QueueTypes DEF Accept
<1>3. [child EXCEPT !.stdin = Tail(child.stdin)] \in ChildRow
  BY <1>2 DEF ChildRow
<1>4. child.working \union {Head(child.stdin)} \subseteq RequestRow
  BY <1>2, Pipes
<1> QED BY <1>1, <1>2, <1>3, <1>4 DEF ChildRow

LEMMA RespondChild ==
  ASSUME child \in ChildRow, NEW request \in child.working, NEW ok \in BOOLEAN, Respond(request, ok)
  PROVE  /\ child' \in ChildRow /\ child'.alive = child.alive /\ child'.stdin = child.stdin
         /\ child'.working = child.working \ {request}
         /\ child'.stdout = Append(child.stdout, JsonRpcResponse(request, ok))
<1> DEFINE line == JsonRpcResponse(request, ok)
<1>1. child' = [[child EXCEPT !.working = child.working \ {request}]
                  EXCEPT !.stdout = Append(child.stdout, line)]
  BY DEF Respond, ChildRow
<1>2. request \in RequestRow
  BY Pipes
<1>3. line \in LineRow
  BY <1>2 DEF JsonRpcResponse, LineRow, RequestRow
<1> HIDE DEF line
<1>4. Append(child.stdout, line) \in Seq(LineRow)
  BY <1>3, Pipes, QueueTypes
<1>5. [child EXCEPT !.working = child.working \ {request}] \in ChildRow
  BY Pipes DEF ChildRow
<1>6. /\ child' \in ChildRow /\ child'.alive = child.alive /\ child'.stdin = child.stdin
      /\ child'.working = child.working \ {request} /\ child'.stdout = Append(child.stdout, line)
  BY <1>1, <1>4, <1>5 DEF ChildRow
<1> QED BY <1>6 DEF line

LEMMA EmitChild ==
  ASSUME child \in ChildRow, NEW line \in LineRow, Emit(line)
  PROVE  /\ child' \in ChildRow /\ child'.alive = child.alive /\ child'.stdin = child.stdin
         /\ child'.working = child.working /\ child'.stdout = Append(child.stdout, line)
<1>1. Append(child.stdout, line) \in Seq(LineRow)
  BY Pipes, QueueTypes
<1> QED BY <1>1 DEF Emit, ChildRow

LEMMA DieChild ==
  ASSUME child \in ChildRow, Die
  PROVE  /\ child' \in ChildRow /\ ~child'.alive /\ child'.stdin = <<>>
         /\ child'.working = {} /\ child'.stdout = child.stdout
<1>1. child' = [[[child EXCEPT !.alive = FALSE] EXCEPT !.stdin = <<>>] EXCEPT !.working = {}]
  BY DEF Die, ChildRow
<1>2. [child EXCEPT !.alive = FALSE] \in ChildRow
  BY DEF ChildRow
<1>3. <<>> \in Seq(RequestRow)
  BY SMT
<1>4. [[child EXCEPT !.alive = FALSE] EXCEPT !.stdin = <<>>] \in ChildRow
  BY <1>2, <1>3 DEF ChildRow
<1> QED BY <1>1, <1>2, <1>4 DEF ChildRow

LEMMA StopChild ==
  ASSUME child \in ChildRow, manager \in BOOLEAN, StopProcess
  PROVE  /\ child' \in ChildRow /\ child'.alive = (child.alive /\ ~manager)
         /\ child'.stdin = child.stdin /\ child'.working = child.working
         /\ child'.stdout = child.stdout
BY DEF StopProcess, ChildRow

LEMMA StartChild ==
  ASSUME Start
  PROVE  /\ child' \in ChildRow /\ child'.stdin = <<>> /\ child'.working = {}
         /\ child'.stdout = <<>> /\ client' = NewClient /\ client' \in ClientRow
         /\ client'.futures = <<>> /\ client'.pending = {} /\ Current' = 0
<1>1. child' = [alive |-> TRUE, stdin |-> <<>>, working |-> {}, stdout |-> <<>>]
  BY DEF Start, NoChild
<1>2. <<>> \in Seq(RequestRow) /\ <<>> \in Seq(LineRow) /\ <<>> \in Seq(FutureRow)
  BY SMT
<1>3. client' = NewClient
  BY DEF Start
<1>4. /\ child' \in ChildRow /\ child'.stdin = <<>> /\ child'.working = {}
      /\ child'.stdout = <<>>
  BY <1>1, <1>2 DEF ChildRow
<1>5. client' \in ClientRow /\ client'.futures = <<>> /\ client'.pending = {}
  BY <1>2, <1>3 DEF ClientRow, NewClient
<1>6. Current' = 0
  BY <1>5, SMT DEF Current
<1> QED BY <1>3, <1>4, <1>5, <1>6

\* _write_message into a pipe that is read.
LEMMA WriteChild ==
  ASSUME child \in ChildRow, NEW request \in RequestRow,
         child' = [child EXCEPT !.stdin = Append(@, request)]
  PROVE  /\ child' \in ChildRow /\ child'.alive = child.alive
         /\ child'.stdin = Append(child.stdin, request)
         /\ child'.working = child.working /\ child'.stdout = child.stdout
<1>1. Append(child.stdin, request) \in Seq(RequestRow)
  BY Pipes, QueueTypes
<1> QED BY <1>1 DEF ChildRow

LEMMA ReadChild ==
  ASSUME child \in ChildRow, ReadLine
  PROVE  /\ child' \in ChildRow /\ child.stdout # <<>> /\ child'.alive = child.alive
         /\ child'.stdin = child.stdin /\ child'.working = child.working
         /\ child'.stdout = Tail(child.stdout) /\ Head(child.stdout) \in LineRow
<1>1. /\ child.stdout # <<>> /\ Tail(child.stdout) \in Seq(LineRow)
      /\ Head(child.stdout) \in LineRow
  BY Pipes, QueueTypes DEF ReadLine
<1>2. child' = [child EXCEPT !.stdout = Tail(child.stdout)]
  BY DEF ReadLine, ChildRow
<1> QED BY <1>1, <1>2 DEF ChildRow
----------------------------------------------------------------------------
(* What the steps do to the two tables *)

\* The steps that register no request and settle none.
QuietStep ==
  \/ Call \/ Shutdown \/ EnsureClient \/ CommandNotFound \/ Close \/ StopProcess \/ CancelReader
  \/ WriteRequest \/ NotifyInitialized \/ ReturnResponse \/ ConnectionLost \/ TimedOut \/ Timeout
  \/ ReadEof \/ Codex \/ UNCHANGED vars

LEMMA EndedCalls ==
  ASSUME calls \in Seq(Outcomes), calls # <<>>, NEW outcome \in Outcomes, Ended(outcome)
  PROVE  /\ calls' \in Seq(Outcomes) /\ Len(calls') = Len(calls) /\ Len(calls) > 0
         /\ DOMAIN calls' = DOMAIN calls
         /\ \A k \in DOMAIN calls : k # Len(calls) => calls'[k] = calls[k]
         /\ calls'[Len(calls)] = IF calls[Len(calls)] = "open" THEN outcome ELSE calls[Len(calls)]
<1> DEFINE n == Len(calls)
           last == IF calls[n] = "open" THEN outcome ELSE calls[n]
<1>1. n \in Nat /\ n > 0 /\ DOMAIN calls = 1..n /\ \A k \in 1..n : calls[k] \in Outcomes
  BY SMT
<1>2. calls' = [calls EXCEPT ![n] = last]
  BY DEF Ended
<1>3. last \in Outcomes
  BY <1>1
<1> HIDE DEF last
<1>4. /\ calls' \in Seq(Outcomes) /\ Len(calls') = n /\ DOMAIN calls' = DOMAIN calls
      /\ \A k \in DOMAIN calls : calls'[k] = IF k = n THEN last ELSE calls[k]
  BY <1>1, <1>2, <1>3, SMT
<1> QED BY <1>1, <1>4 DEF last

LEMMA RaiseQuiet ==
  ASSUME client \in ClientRow, Current > 0, NEW outcome, Raise(outcome)
  PROVE  Quiet /\ client' \in ClientRow
<1>1. Current \in DOMAIN client.futures
  BY Futures
<1>2. client.pending \ {Current} \in SUBSET client.pending
  OBVIOUS
<1> QED BY <1>1, <1>2, QuietUpdate DEF Raise

LEMMA QuietSteps ==
  ASSUME IInv, QuietStep
  PROVE  Quiet /\ client' \in ClientRow
<1> USE DEF IInv
<1>1. client \in ClientRow
  BY DEF Typed
<1>2. pc \in Waiting => Current > 0 /\ Current \in DOMAIN client.futures
  BY <1>1, Futures DEF CurrentInv
<1>3. CASE UNCHANGED client
  BY <1>1, <1>3, QuietUnchanged
<1>4. CASE \/ Call \/ CommandNotFound \/ Close \/ StopProcess \/ ReturnResponse \/ Codex
           \/ UNCHANGED vars
  <2>1. UNCHANGED client
    BY <1>4 DEF Call, CommandNotFound, Close, StopProcess, ReturnResponse, Codex, Accept, Die,
                Emit, Respond, vars
  <2> QED BY <2>1, <1>3
<1>5. CASE Shutdown
  <2>1. CASE pc \in Waiting /\ client.futures[Current].state = "waiting"
    <3>1. client' = [client EXCEPT !.futures[Current].state = "cancelled"]
      BY <1>5, <2>1 DEF Shutdown, Waiting
    <3>2. client' = [client EXCEPT !.pending = client.pending, !.futures[Current].state = "cancelled"]
      BY <1>1, <3>1 DEF ClientRow
    <3> QED BY <1>1, <1>2, <2>1, <3>2, QuietUpdate
  <2>2. CASE ~(pc \in Waiting /\ client.futures[Current].state = "waiting")
    BY <1>3, <1>5, <2>2 DEF Shutdown, Waiting
  <2> QED BY <2>1, <2>2
<1>6. CASE EnsureClient
  <2>1. ~IsRunning
    BY <1>6 DEF EnsureClient, OwnerInv, IsRunning
  <2> QED BY <1>3, <1>6, <2>1 DEF EnsureClient
<1>7. CASE CancelReader
  <2>1. client' = [client EXCEPT !.reader = "none"]
    BY <1>7 DEF CancelReader
  <2>2. client' \in ClientRow /\ client'.futures = client.futures /\ client'.pending = client.pending
    BY <1>1, <2>1 DEF ClientRow
  <2> QED BY <1>1, <2>2, Futures DEF Quiet
<1>8. CASE WriteRequest \/ NotifyInitialized \/ ConnectionLost \/ TimedOut
  <2>1. pc \in Waiting /\ (UNCHANGED client \/ \E o \in {"failed", "timeout"} : Raise(o))
    BY <1>8 DEF WriteRequest, NotifyInitialized, ConnectionLost, TimedOut, Waiting
  <2> QED BY <1>1, <1>2, <1>3, <2>1, RaiseQuiet
<1>9. CASE Timeout
  <2>1. client' = [client EXCEPT !.futures[Current].state = "cancelled"] /\ pc \in Waiting
    BY <1>9 DEF Timeout, Waiting
  <2>2. client' = [client EXCEPT !.pending = client.pending, !.futures[Current].state = "cancelled"]
    BY <1>1, <2>1 DEF ClientRow
  <2> QED BY <1>1, <1>2, <2>1, <2>2, QuietUpdate
<1>10. CASE ReadEof
  BY <1>1, <1>10, QuietFailPending DEF ReadEof
<1> QED BY <1>4, <1>5, <1>6, <1>7, <1>8, <1>9, <1>10 DEF QuietStep

\* A line that is no response is quiet too.
LEMMA ReadLineCases ==
  ASSUME IInv, ReadLine
  PROVE  \/ Head(child.stdout).kind = "response" /\ client' = Resolve(client, Head(child.stdout))
         \/ Head(child.stdout).kind # "response" /\ Quiet /\ client' \in ClientRow
<1>1. client \in ClientRow
  BY DEF IInv, Typed
<1> DEFINE line == Head(child.stdout)
<1>2. CASE line.kind = "response"
  BY <1>2 DEF ReadLine
<1>3. CASE line.kind = "notification"
  <2>1. client' = [client EXCEPT !.notifications = @ + 1]
    BY <1>3 DEF ReadLine
  <2>2. client' \in ClientRow /\ client'.futures = client.futures /\ client'.pending = client.pending
    BY <1>1, <2>1 DEF ClientRow
  <2> QED BY <1>1, <1>3, <2>2, Futures DEF Quiet
<1>4. CASE line.kind \notin {"response", "notification"}
  <2>1. client' = FailPending(client, "crashed")
    BY <1>4 DEF ReadLine
  <2> QED BY <1>1, <1>4, <2>1, QuietFailPending
<1> QED BY <1>2, <1>3, <1>4

LEMMA StepCases ==
  ASSUME Next
  PROVE  QuietStep \/ Start \/ Initialize \/ SendCall \/ ReadLine
BY DEF Next, Owner, Reader, QuietStep
----------------------------------------------------------------------------
(* The history of the calls *)

\* A step leaves the calls alone and the owner where it works on them; or ends
\* the last one, with a failure or with the answer of its future; or adds one.
Untouched == UNCHANGED calls /\ (pc' \in Active <=> pc \in Active)
Failing == /\ pc' \notin Active /\ UNCHANGED answered /\ calls # <<>>
           /\ \E outcome \in {"failed", "timeout", "canceled"} : Ended(outcome)
Returning ==
  /\ pc = "await" /\ pc' \notin Active /\ UNCHANGED answered /\ calls # <<>>
  /\ client.futures[Current].state = "done" /\ client.futures[Current].call # 0
  /\ Ended(Answer(client.futures[Current].ok))

LEMMA CallsCases ==
  ASSUME IInv, Next
  PROVE  Call \/ Untouched \/ Failing \/ Returning
<1>1. pc \in Active => calls # <<>>
  BY SMT DEF IInv, CallsInv
<1>2. CASE CommandNotFound
  BY <1>1, <1>2 DEF CommandNotFound, Failing, Active, Waiting
<1>3. CASE Shutdown
  <2>1. CASE calls = <<>>
    <3>1. pc \notin Active
      BY <1>1, <2>1
    <3> QED BY <1>3, <2>1, <3>1 DEF Shutdown, Untouched, Active, Waiting
  <2>2. CASE calls # <<>>
    BY <1>3, <2>2 DEF Shutdown, Failing, Active, Waiting
  <2> QED BY <2>1, <2>2
<1>4. CASE WriteRequest \/ NotifyInitialized \/ ConnectionLost \/ TimedOut
  <2>1. CASE \E o \in {"failed", "timeout"} : Raise(o)
    BY <1>1, <1>4, <2>1 DEF WriteRequest, NotifyInitialized, ConnectionLost, TimedOut, Raise, Failing,
                           Active, Waiting
  <2>2. CASE ~\E o \in {"failed", "timeout"} : Raise(o)
    BY <1>4, <2>2 DEF WriteRequest, NotifyInitialized, ConnectionLost, TimedOut, Untouched,
                      Active, Waiting
  <2> QED BY <2>1, <2>2
<1>5. CASE ReturnResponse
  <2>1. CASE client.futures[Current].call = 0
    BY <1>1, <1>5, <2>1 DEF ReturnResponse, Initialized, Failing, Untouched, Active, Waiting
  <2>2. CASE client.futures[Current].call # 0
    BY <1>1, <1>5, <2>2 DEF ReturnResponse, Returning, Active, Waiting
  <2> QED BY <2>1, <2>2
<1>6. CASE Initialize \/ SendCall \/ Start \/ Close \/ StopProcess \/ CancelReader
  BY <1>6 DEF Initialize, SendCall, Start, Close, StopProcess, CancelReader, Untouched, Active, Waiting
<1>7. CASE EnsureClient
  BY <1>7 DEF EnsureClient, Untouched, Active, Waiting
<1>8. CASE Timeout \/ Reader \/ Codex
  BY <1>8 DEF Timeout, Reader, ReadLine, ReadEof, Codex, Accept, Die, Emit, Respond, Untouched
<1> QED BY <1>2, <1>3, <1>4, <1>5, <1>6, <1>7, <1>8 DEF Next, Owner

\* Only a call and a response of the child touch what was answered.
LEMMA AnsweredCases ==
  ASSUME IInv, Next
  PROVE  \/ UNCHANGED answered \/ Call
         \/ \E r \in child.working, ok \in BOOLEAN : Respond(r, ok)
BY DEF Next, Shutdown, Owner, EnsureClient, Start, CommandNotFound, Close, StopProcess, CancelReader,
       Initialize, SendCall, WriteRequest, NotifyInitialized, ReturnResponse, ConnectionLost, TimedOut,
       Timeout, Reader, ReadLine, ReadEof, Codex, Accept, Die, Emit

LEMMA CallAppends ==
  ASSUME IInv, Call
  PROVE  /\ calls' \in Seq(Outcomes) /\ Len(calls') = Len(calls) + 1
         /\ calls'[Len(calls) + 1] = "open" /\ \A k \in 1..Len(calls) : calls'[k] = calls[k]
         /\ answered' \in Seq({"none", "result", "error"}) /\ Len(answered') = Len(answered) + 1
         /\ answered'[Len(calls) + 1] = "none"
         /\ \A k \in 1..Len(calls) : answered'[k] = answered[k]
<1>1. /\ calls \in Seq(Outcomes) /\ answered \in Seq({"none", "result", "error"})
      /\ Len(answered) = Len(calls) /\ Len(calls) \in Nat
  BY DEF IInv, Typed, CallsInv
<1>2. "open" \in Outcomes
  BY DEF Outcomes
<1> QED BY <1>1, <1>2, AppendFacts DEF Call

\* The child answers a call that exists.
LEMMA RespondAnswers ==
  ASSUME IInv, NEW r \in child.working, NEW ok \in BOOLEAN, Respond(r, ok)
  PROVE  /\ r \in RequestRow /\ r.id \in DOMAIN client.futures /\ client.futures[r.id].call = r.call
         /\ r.call = 0 => answered' = answered
         /\ r.call # 0 =>
              /\ r.call \in 1..Len(answered) /\ answered[r.call] = "none"
              /\ answered' = [answered EXCEPT ![r.call] = Answer(ok)]
         /\ answered' \in Seq({"none", "result", "error"}) /\ Len(answered') = Len(answered)
         /\ \A k \in 1..Len(answered) :
              answered'[k] = IF k = r.call THEN Answer(ok) ELSE answered[k]
<1>1. r \in RequestRow
  BY Pipes DEF IInv, Typed
<1>2. /\ r.id \in DOMAIN client.futures /\ client.futures[r.id].call = r.call
      /\ r.call # 0 => answered[r.call] = "none"
  BY DEF IInv, MessagesInv, Sent
<1>3. /\ answered \in Seq({"none", "result", "error"}) /\ Len(answered) = Len(calls)
      /\ Len(calls) \in Nat
  BY DEF IInv, Typed, CallsInv
<1>4. r.call \in 0..Len(calls)
  BY <1>2 DEF IInv, FuturesInv
<1>5. CASE r.call = 0
  <2>1. answered' = answered
    BY <1>5 DEF Respond
  <2>2. \A k \in 1..Len(answered) : k # r.call
    BY <1>3, <1>5
  <2> QED BY <1>1, <1>2, <1>3, <1>5, <2>1, <2>2
<1>6. CASE r.call # 0
  <2>1. answered' = [answered EXCEPT ![r.call] = Answer(ok)]
    BY <1>6 DEF Respond
  <2>2. r.call \in 1..Len(answered) /\ DOMAIN answered = 1..Len(answered)
    BY <1>3, <1>4, <1>6, SMT
  <2>3. Answer(ok) \in {"none", "result", "error"}
    BY DEF Answer
  <2>4. answered' \in Seq({"none", "result", "error"}) /\ Len(answered') = Len(answered)
    BY <1>3, <2>1, <2>2, <2>3, SMT
  <2>5. \A k \in 1..Len(answered) :
          answered'[k] = IF k = r.call THEN Answer(ok) ELSE answered[k]
    BY <2>1, <2>2
  <2> QED BY <1>1, <1>2, <1>6, <2>1, <2>2, <2>4, <2>5
<1> QED BY <1>5, <1>6

LEMMA HistoryTyped ==
  ASSUME IInv, Next
  PROVE  /\ calls' \in Seq(Outcomes) /\ answered' \in Seq({"none", "result", "error"})
         /\ Len(answered') = Len(calls') /\ (Call \/ Len(calls') = Len(calls))
<1>1. /\ calls \in Seq(Outcomes) /\ answered \in Seq({"none", "result", "error"})
      /\ Len(answered) = Len(calls) /\ Len(calls) \in Nat
  BY DEF IInv, Typed, CallsInv
<1>2. CASE Call
  BY <1>1, <1>2, CallAppends
<1>3. CASE ~Call
  <2>1. calls' \in Seq(Outcomes) /\ Len(calls') = Len(calls)
    <3>1. CASE Untouched
      BY <1>1, <3>1 DEF Untouched
    <3>2. CASE Failing
      <4>1. {"failed", "timeout", "canceled"} \subseteq Outcomes
        BY DEF Outcomes
      <4> QED BY <1>1, <3>2, <4>1, EndedCalls DEF Failing
    <3>3. CASE Returning
      <4>1. \A ok : Answer(ok) \in Outcomes
        BY DEF Outcomes, Answer
      <4> QED BY <1>1, <3>3, <4>1, EndedCalls DEF Returning
    <3> QED BY <1>3, <3>1, <3>2, <3>3, CallsCases
  <2>2. answered' \in Seq({"none", "result", "error"}) /\ Len(answered') = Len(answered)
    BY <1>1, <1>3, AnsweredCases, RespondAnswers
  <2> QED BY <1>1, <2>1, <2>2
<1> QED BY <1>2, <1>3

LEMMA CallsStep ==
  ASSUME IInv, Next
  PROVE  CallsInv'
<1>1. /\ calls \in Seq(Outcomes) /\ Len(calls) \in Nat /\ DOMAIN calls = 1..Len(calls)
      /\ calls' \in Seq(Outcomes) /\ DOMAIN calls' = 1..Len(calls')
      /\ Len(answered') = Len(calls')
  BY HistoryTyped DEF IInv, Typed
<1>2. CASE Call
  <2>1. pc' \in Active
    BY <1>2 DEF Call, Active
  <2>2. \A k \in DOMAIN calls : calls[k] # "open"
    BY <1>2 DEF Call, IInv, CallsInv, Active, Waiting
  <2> QED BY <1>1, <1>2, <2>1, <2>2, CallAppends DEF CallsInv
<1>3. CASE Untouched
  BY <1>1, <1>3 DEF Untouched, IInv, CallsInv
<1>4. CASE Failing \/ Returning
  <2>1. /\ pc' \notin Active /\ calls # <<>>
        /\ \E outcome \in Outcomes \ {"open"} : Ended(outcome)
    BY <1>4 DEF Failing, Returning, Outcomes, Answer
  <2>2. \A k \in DOMAIN calls' : calls'[k] # "open"
    BY <1>1, <2>1, EndedCalls DEF IInv, CallsInv
  <2> QED BY <1>1, <2>1, <2>2 DEF CallsInv
<1> QED BY <1>2, <1>3, <1>4, CallsCases
----------------------------------------------------------------------------
(* Where the owner is, and what it holds *)

LEMMA OwnerTyped ==
  ASSUME IInv, Next
  PROVE  /\ lazy' \in [client : BOOLEAN, initialized : BOOLEAN] /\ manager' \in BOOLEAN
         /\ pc' \in {"idle"} \union Active \union Closing /\ stopping' \in BOOLEAN
<1>1. /\ lazy \in [client : BOOLEAN, initialized : BOOLEAN] /\ manager \in BOOLEAN
      /\ pc \in {"idle"} \union Active \union Closing /\ stopping \in BOOLEAN
  BY DEF IInv, Typed
<1>2. CASE Call \/ Shutdown \/ Timeout \/ Reader \/ Codex
  BY <1>1, <1>2 DEF Call, Shutdown, Timeout, Reader, ReadLine, ReadEof, Codex, Accept, Die, Emit,
                    Respond, Active, Closing, Waiting
<1>3. CASE EnsureClient \/ Start \/ CommandNotFound \/ Close \/ StopProcess \/ CancelReader
  <2>1. CASE EnsureClient \/ Start
    BY <1>1, <2>1 DEF EnsureClient, Start, Active, Closing, Waiting
  <2>2. CASE CommandNotFound \/ CancelReader
    BY <1>1, <2>2 DEF CommandNotFound, CancelReader, Active, Closing, Waiting
  <2>3. CASE Close
    BY <1>1, <2>3 DEF Close, Active, Closing, Waiting
  <2>4. CASE StopProcess
    BY <1>1, <2>4 DEF StopProcess, Active, Closing, Waiting
  <2> QED BY <1>3, <2>1, <2>2, <2>3, <2>4
<1>4. CASE Initialize \/ SendCall \/ WriteRequest \/ NotifyInitialized \/ ConnectionLost \/ TimedOut
  BY <1>1, <1>4 DEF Initialize, SendCall, WriteRequest, NotifyInitialized, ConnectionLost, TimedOut,
                    Raise, Active, Closing, Waiting
<1>5. CASE ReturnResponse
  BY <1>1, <1>5 DEF ReturnResponse, Initialized, Active, Closing, Waiting
<1> QED BY <1>2, <1>3, <1>4, <1>5 DEF Next, Owner

LEMMA ChildTyped ==
  ASSUME IInv, Next
  PROVE  child' \in ChildRow
<1>1. child \in ChildRow /\ manager \in BOOLEAN /\ client \in ClientRow
  BY DEF IInv, Typed
<1>2. CASE WriteRequest
  <2>1. CASE UNCHANGED child
    BY <1>1, <2>1
  <2>2. CASE ~UNCHANGED child
    <3>1. Current \in DOMAIN client.futures
      BY <1>1, <1>2, Futures DEF WriteRequest, IInv, CurrentInv, Waiting
    <3>2. JsonRpcRequest(Current, client.futures[Current].call) \in RequestRow
      BY <1>1, <3>1, Futures DEF JsonRpcRequest, RequestRow, FutureRow
    <3>3. child' = [child EXCEPT !.stdin =
                      Append(@, JsonRpcRequest(Current, client.futures[Current].call))]
      BY <1>2, <2>2 DEF WriteRequest
    <3> QED BY <1>1, <3>2, <3>3, WriteChild
  <2> QED BY <2>1, <2>2
<1>3. JsonRpcNotification \in LineRow /\ Malformed \in LineRow
  BY DEF JsonRpcNotification, Malformed, LineRow
<1>4. CASE Start \/ StopProcess \/ ReadLine \/ Codex
  BY <1>1, <1>3, <1>4, StartChild, StopChild, ReadChild, AcceptChild, DieChild, EmitChild,
     RespondChild DEF Codex
<1>5. CASE UNCHANGED child
  BY <1>1, <1>5
<1> QED BY <1>2, <1>4, <1>5
     DEF Next, Owner, Reader, Call, Shutdown, EnsureClient, CommandNotFound, Close, CancelReader,
         Initialize, SendCall, NotifyInitialized, ReturnResponse, ConnectionLost, TimedOut, Timeout,
         ReadEof

LEMMA TypedStep ==
  ASSUME IInv, Next
  PROVE  Typed'
<1>1. client \in ClientRow /\ client.pending \subseteq DOMAIN client.futures
  BY DEF IInv, Typed
<1>2. client' \in ClientRow /\ client'.pending \subseteq DOMAIN client'.futures
  <2>1. CASE QuietStep
    BY <1>1, <2>1, QuietSteps DEF Quiet
  <2>2. CASE Start
    BY <2>2, StartChild
  <2>3. CASE Initialize \/ SendCall
    <3>1. PICK call \in Nat : Register(call)
      <4>1. Len(calls) \in Nat
        BY DEF IInv, Typed
      <4> QED BY <2>3, <4>1 DEF Initialize, SendCall
    <3>2. client' \in ClientRow
      BY <1>1, <3>1, Registered
    <3>3. DOMAIN client'.futures = 1..(Current + 1) /\ DOMAIN client.futures = 1..Current
          /\ Current \in Nat
      <4>1. Current' = Current + 1
        BY <1>1, <3>1, Registered
      <4>2. Len(client'.futures) = Current + 1
        BY <4>1 DEF Current
      <4>3. client'.futures \in Seq(FutureRow)
        BY <3>2 DEF ClientRow
      <4>4. DOMAIN client'.futures = 1..(Current + 1)
        BY <4>2, <4>3, SMT
      <4> QED BY <1>1, <4>4, Futures
    <3> QED BY <1>1, <3>1, <3>2, <3>3, Registered
  <2>4. CASE ReadLine
    <3>1. Head(child.stdout) \in LineRow
      BY <2>4, ReadChild DEF IInv, Typed
    <3> QED BY <1>1, <2>4, <3>1, ReadLineCases, Resolved DEF Quiet
  <2> QED BY <2>1, <2>2, <2>3, <2>4, StepCases
<1> QED BY <1>2, OwnerTyped, ChildTyped, HistoryTyped DEF Typed

LEMMA OwnerStep ==
  ASSUME IInv, Next
  PROVE  OwnerInv'
<1>1. /\ lazy \in [client : BOOLEAN, initialized : BOOLEAN] /\ manager \in BOOLEAN
      /\ child \in ChildRow /\ OwnerInv /\ child' \in ChildRow
  BY ChildTyped DEF IInv, Typed
<1>2. CASE Call \/ CommandNotFound \/ Close \/ CancelReader
  BY <1>1, <1>2 DEF Call, CommandNotFound, Close, CancelReader, OwnerInv, Waiting, Closing
<1>3. CASE Shutdown
  BY <1>1, <1>3 DEF Shutdown, OwnerInv, Waiting, Closing
<1>4. CASE EnsureClient
  BY <1>1, <1>4 DEF EnsureClient, IsRunning, OwnerInv, Waiting, Closing
<1>5. CASE Start
  BY <1>1, <1>5 DEF Start, OwnerInv, Waiting, Closing
<1>6. CASE StopProcess
  BY <1>1, <1>6, StopChild DEF StopProcess, OwnerInv, Waiting, Closing
<1>7. CASE Initialize \/ SendCall \/ Timeout
  BY <1>1, <1>7 DEF Initialize, SendCall, Timeout, OwnerInv, Waiting, Closing
<1>8. CASE WriteRequest
  <2>1. child'.alive = child.alive
    BY <1>1, <1>8 DEF WriteRequest, ChildRow
  <2>2. /\ UNCHANGED <<lazy, manager, stopping>> /\ pc = "write"
        /\ pc' \in {"notify", "await", "close", "idle"}
        /\ pc' = "idle" => ~Initializing
    BY <1>8 DEF WriteRequest, Raise
  <2>3. pc' = "idle" => lazy.initialized
    BY <2>2 DEF IInv, CurrentInv, Waiting, Initializing
  <2> QED BY <1>1, <2>1, <2>2, <2>3 DEF OwnerInv, Waiting, Closing
<1>9. CASE NotifyInitialized \/ ConnectionLost \/ TimedOut
  <2>1. UNCHANGED <<lazy, manager, child, stopping>> /\ pc \in Waiting
        /\ pc' \in {"await", "close", "idle"} /\ (pc' = "idle" => ~Initializing)
    BY <1>9 DEF NotifyInitialized, ConnectionLost, TimedOut, Raise, Waiting
  <2>2. pc' = "idle" => lazy.initialized
    BY <2>1 DEF IInv, CurrentInv, Initializing
  <2> QED BY <1>1, <2>1, <2>2 DEF OwnerInv, Waiting, Closing
<1>10. CASE ReturnResponse
  <2>1. client.futures[Current].call # 0 => lazy.initialized
    BY <1>10 DEF ReturnResponse, IInv, CurrentInv, Waiting
  <2> QED BY <1>1, <1>10, <2>1 DEF ReturnResponse, Initialized, OwnerInv, Waiting, Closing
<1>11. CASE Reader
  <2>1. child'.alive = child.alive
    BY <1>1, <1>11, ReadChild DEF Reader, ReadEof
  <2> QED BY <1>1, <1>11, <2>1 DEF Reader, ReadLine, ReadEof, OwnerInv, Waiting, Closing
<1>12. CASE Codex
  <2>1. UNCHANGED <<lazy, manager, pc, stopping>>
    BY <1>12 DEF Codex, Accept, Die, Emit, Respond
  <2>2. child'.alive => child.alive
    BY <1>1, <1>12 DEF Codex, Accept, Die, Emit, Respond, ChildRow
  <2> QED BY <1>1, <2>1, <2>2 DEF OwnerInv
<1> QED BY <1>2, <1>3, <1>4, <1>5, <1>6, <1>7, <1>8, <1>9, <1>10, <1>11, <1>12 DEF Next, Owner
----------------------------------------------------------------------------
(* `initialize` comes first *)

\* The future of `initialize`, once it has its answer, keeps it.
LEMMA ReadyKept ==
  ASSUME IInv, client' \in ClientRow, DOMAIN client.futures \subseteq DOMAIN client'.futures,
         \A i \in DOMAIN client.futures :
           /\ client'.futures[i].call = client.futures[i].call
           /\ client.futures[i].state # "waiting" =>
                client'.futures[i].ok = client.futures[i].ok /\ client'.futures[i].state # "waiting",
         Current > 0, Ready
  PROVE  Current' > 0 /\ Ready'
<1>1. 1 \in DOMAIN client.futures
  BY Futures DEF IInv, Typed
<1>2. 1 \in DOMAIN client'.futures
  BY <1>1
<1>3. Current' > 0
  <2>1. client'.futures \in Seq(FutureRow)
    BY DEF ClientRow
  <2> QED BY <1>2, <2>1, SMT DEF Current
<1> QED BY <1>1, <1>3 DEF Ready

\* A step that adds no future, changes no call, and sends the owner nowhere new.
LEMMA CurrentKept ==
  ASSUME IInv, client' \in ClientRow, DOMAIN client'.futures = DOMAIN client.futures,
         \A i \in DOMAIN client.futures :
           /\ client'.futures[i].call = client.futures[i].call
           /\ client.futures[i].state # "waiting" =>
                client'.futures[i].ok = client.futures[i].ok /\ client'.futures[i].state # "waiting",
         pc' = "initialize" => pc = "initialize",
         pc' \in Waiting => pc \in Waiting /\ Len(calls') = Len(calls),
         pc' = "notify" => client.futures[Current].call = 0,
         pc' = "call" => lazy'.initialized,
         lazy.initialized /\ pc' \in Waiting => lazy'.initialized,
         lazy'.initialized => Current > 0 /\ Ready
  PROVE  CurrentInv'
<1>1. /\ client.futures \in Seq(FutureRow) /\ client'.futures \in Seq(FutureRow)
      /\ DOMAIN client.futures = 1..Current /\ Current \in Nat
  BY Futures DEF IInv, Typed, ClientRow
<1>2. Current' = Current
  <2>1. Len(client'.futures) = Len(client.futures)
    BY <1>1, SMT
  <2> QED BY <2>1 DEF Current
<1>3. \A i \in DOMAIN client.futures : client.futures[i].call # 0 => Current > 0 /\ Ready
  BY <1>1 DEF IInv, CurrentInv
<1>4. \A i \in DOMAIN client'.futures : client'.futures[i].call # 0 => Ready'
  <2> SUFFICES ASSUME NEW i \in DOMAIN client.futures, client'.futures[i].call # 0
               PROVE  Ready'
    OBVIOUS
  <2>1. Current > 0 /\ Ready
    BY <1>3
  <2> QED BY <2>1, ReadyKept
<1>5. lazy'.initialized => Current' > 0 /\ Ready'
  BY ReadyKept
<1>6. pc' = "initialize" => client'.futures = <<>>
  <2> SUFFICES ASSUME pc = "initialize"
               PROVE  client'.futures = <<>>
    OBVIOUS
  <2>1. client.futures = <<>>
    BY DEF IInv, CurrentInv
  <2>2. Len(client'.futures) = 0
    <3>1. Current = 0
      BY <2>1, SMT DEF Current
    <3> QED BY <3>1, <1>2 DEF Current
  <2> QED BY <1>1, <2>2, SMT
<1>7. pc' \in Waiting =>
       /\ Current' > 0 /\ client'.futures[Current'].call \in {0, Len(calls')}
       /\ client'.futures[Current'].call = 0 => Current' = 1
       /\ client'.futures[Current'].call # 0 => lazy'.initialized
  <2> SUFFICES ASSUME pc' \in Waiting
               PROVE  /\ Current' > 0 /\ client'.futures[Current'].call \in {0, Len(calls')}
                      /\ client'.futures[Current'].call = 0 => Current' = 1
                      /\ client'.futures[Current'].call # 0 => lazy'.initialized
    OBVIOUS
  <2>1. /\ Current > 0 /\ client.futures[Current].call \in {0, Len(calls)}
        /\ client.futures[Current].call = 0 => Current = 1
        /\ client.futures[Current].call # 0 => lazy.initialized
    BY DEF IInv, CurrentInv
  <2>2. Current \in DOMAIN client.futures
    BY <1>1, <2>1
  <2> QED BY <1>2, <2>1, <2>2
<1>8. pc' = "notify" => client'.futures[Current'].call = 0
  <2> SUFFICES ASSUME pc' = "notify"
               PROVE  client'.futures[Current'].call = 0
    OBVIOUS
  <2>1. Current \in DOMAIN client.futures
    BY <1>1 DEF IInv, CurrentInv, Waiting
  <2> QED BY <1>2, <2>1
<1> QED BY <1>4, <1>5, <1>6, <1>7, <1>8 DEF CurrentInv

LEMMA CurrentStep ==
  ASSUME IInv, Next
  PROVE  CurrentInv'
<1>1. /\ client \in ClientRow /\ client' \in ClientRow /\ child \in ChildRow
      /\ lazy \in [client : BOOLEAN, initialized : BOOLEAN]
      /\ client.pending \subseteq DOMAIN client.futures
  BY TypedStep DEF IInv, Typed
<1>2. /\ client.futures \in Seq(FutureRow) /\ DOMAIN client.futures = 1..Current /\ Current \in Nat
      /\ \A i \in DOMAIN client.futures : client.futures[i] \in FutureRow
  BY <1>1, Futures
<1>3. lazy.initialized => Current > 0 /\ Ready
  BY DEF IInv, CurrentInv
<1>4. CASE QuietStep
  <2>1. /\ DOMAIN client'.futures = DOMAIN client.futures
        /\ \A i \in DOMAIN client.futures :
             /\ client'.futures[i].call = client.futures[i].call
             /\ client.futures[i].state # "waiting" =>
                  client'.futures[i].ok = client.futures[i].ok /\ client'.futures[i].state # "waiting"
    BY <1>4, QuietSteps DEF Quiet
  <2>2. /\ pc' = "initialize" => pc = "initialize"
        /\ pc' \in Waiting => pc \in Waiting /\ ~Call
        /\ pc' = "notify" => client.futures[Current].call = 0
    <3>1. CASE Call \/ Shutdown \/ EnsureClient \/ CommandNotFound \/ Close \/ StopProcess \/ CancelReader
      BY <3>1 DEF Call, Shutdown, EnsureClient, CommandNotFound, Close, StopProcess, CancelReader,
                  IsRunning, IInv, OwnerInv, Waiting
    <3>2. CASE WriteRequest \/ NotifyInitialized \/ ReturnResponse \/ ConnectionLost \/ TimedOut \/ Timeout
      BY <3>2 DEF WriteRequest, NotifyInitialized, ReturnResponse, ConnectionLost, TimedOut, Timeout,
                  Raise, Initialized, Initializing, Call, Waiting
    <3>3. CASE ReadEof \/ Codex \/ UNCHANGED vars
      BY <3>3 DEF ReadEof, Codex, Accept, Die, Emit, Respond, vars, Call, Waiting, IInv, CurrentInv
    <3> QED BY <1>4, <3>1, <3>2, <3>3 DEF QuietStep
  <2>3. /\ pc' = "call" => lazy'.initialized
        /\ lazy.initialized /\ pc' \in Waiting => lazy'.initialized
        /\ lazy'.initialized => lazy.initialized \/ (Current > 0 /\ Ready)
    <3>1. CASE Call \/ Shutdown \/ EnsureClient \/ CommandNotFound \/ StopProcess \/ CancelReader
      BY <1>1, <3>1 DEF Call, Shutdown, EnsureClient, CommandNotFound, StopProcess, CancelReader,
                  IsRunning, IInv, OwnerInv, Waiting
    <3>2. CASE Close
      BY <3>2 DEF Close, Waiting
    <3>3. CASE WriteRequest \/ NotifyInitialized \/ ConnectionLost \/ TimedOut \/ Timeout
      BY <3>3 DEF WriteRequest, NotifyInitialized, ConnectionLost, TimedOut, Timeout, Raise
    <3>4. CASE ReturnResponse
      <4>1. /\ pc = "await" /\ client.futures[Current].state = "done"
            /\ IF client.futures[Current].call = 0 THEN Initialized(client.futures[Current].ok)
               ELSE pc' = "idle" /\ UNCHANGED lazy
        BY <3>4 DEF ReturnResponse
      <4>2. /\ Current > 0 /\ (client.futures[Current].call = 0 => Current = 1)
            /\ Current \in DOMAIN client.futures
        BY <1>2, <4>1 DEF IInv, CurrentInv, Waiting
      <4>3. CASE client.futures[Current].call = 0 /\ client.futures[Current].ok
        <5>1. Ready
          BY <4>1, <4>2, <4>3 DEF Ready
        <5>2. lazy' = [lazy EXCEPT !.initialized = TRUE] /\ pc' = "call"
          BY <4>1, <4>3 DEF Initialized
        <5> QED BY <1>1, <4>2, <5>1, <5>2 DEF Waiting
      <4>4. CASE ~(client.futures[Current].call = 0 /\ client.futures[Current].ok)
        BY <4>1, <4>4 DEF Initialized, Waiting
      <4> QED BY <4>3, <4>4
    <3>5. CASE ReadEof \/ Codex \/ UNCHANGED vars
      BY <3>5 DEF ReadEof, Codex, Accept, Die, Emit, Respond, vars, IInv, CurrentInv
    <3> QED BY <1>4, <3>1, <3>2, <3>3, <3>4, <3>5 DEF QuietStep
  <2>4. pc' \in Waiting => Len(calls') = Len(calls)
    BY <2>2, HistoryTyped
  <2> QED BY <1>1, <1>3, <2>1, <2>2, <2>3, <2>4, CurrentKept
<1>5. CASE Start
  <2>1. client'.futures = <<>> /\ pc' = "initialize" /\ ~lazy'.initialized
    BY <1>1, <1>5, StartChild DEF Start, IInv, OwnerInv
  <2>2. DOMAIN client'.futures = {}
    BY <2>1, SMT
  <2> QED BY <2>1, <2>2 DEF CurrentInv, Waiting
<1>6. CASE Initialize
  <2>1. client.futures = <<>> /\ ~lazy.initialized
    <3>1. client.futures = <<>>
      BY <1>6 DEF Initialize, IInv, CurrentInv
    <3>2. Current = 0
      BY <3>1, SMT DEF Current
    <3> QED BY <1>3, <3>1, <3>2
  <2>2. Current = 0 /\ Current' = 1 /\ client'.futures[1] = Future(0)
    <3>1. Current = 0
      BY <2>1, SMT DEF Current
    <3>2. Register(0)
      BY <1>6 DEF Initialize
    <3>3. Current' = Current + 1 /\ client'.futures[Current + 1] = Future(0)
      BY <1>1, <3>2, Registered
    <3> QED BY <3>1, <3>3
  <2>3. DOMAIN client'.futures = {1}
    BY <1>1, <2>2, SMT DEF Current, ClientRow
  <2>4. client'.futures[1].call = 0
    BY <2>2 DEF Future
  <2>5. pc' = "write" /\ ~lazy'.initialized
    BY <1>6, <2>1 DEF Initialize
  <2> QED BY <2>2, <2>3, <2>4, <2>5 DEF CurrentInv, Waiting
<1>7. CASE SendCall
  <2>1. /\ lazy.initialized /\ lazy'.initialized /\ pc' = "write" /\ calls' = calls
        /\ Register(Len(calls))
    BY <1>7 DEF SendCall, IInv, CurrentInv
  <2>2. Len(calls) \in Nat /\ Len(calls) > 0
    BY <1>7 DEF SendCall, IInv, Typed, CallsInv, Active
  <2>3. /\ Current' = Current + 1 /\ client'.futures[Current + 1] = Future(Len(calls))
        /\ \A i \in 1..Current : client'.futures[i] = client.futures[i]
    BY <1>1, <2>1, <2>2, Registered
  <2>4. DOMAIN client'.futures = 1..(Current + 1)
    BY <1>1, <2>3, SMT DEF Current, ClientRow
  <2>5. Current > 0 /\ Ready /\ client'.futures[1] = client.futures[1]
    BY <1>2, <1>3, <2>1, <2>3
  <2>6. Ready'
    BY <2>5 DEF Ready
  <2>7. client'.futures[Current'].call = Len(calls)
    BY <2>3 DEF Future
  <2> QED BY <1>2, <2>1, <2>2, <2>3, <2>5, <2>6, <2>7 DEF CurrentInv
<1>8. CASE ReadLine
  <2> DEFINE line == Head(child.stdout)
  <2>1. line \in LineRow
    BY <1>1, <1>8, ReadChild
  <2>2. /\ DOMAIN client'.futures = DOMAIN client.futures
        /\ \A i \in DOMAIN client.futures :
             /\ client'.futures[i].call = client.futures[i].call
             /\ client.futures[i].state # "waiting" =>
                  client'.futures[i].ok = client.futures[i].ok /\ client'.futures[i].state # "waiting"
    <3>1. CASE Quiet
      BY <3>1 DEF Quiet
    <3>2. CASE client' = Resolve(client, line)
      BY <1>1, <2>1, <3>2, Resolved
    <3> QED BY <1>8, <3>1, <3>2, ReadLineCases
  <2>3. UNCHANGED <<pc, calls, lazy>>
    BY <1>8 DEF ReadLine
  <2>4. pc = "notify" => client.futures[Current].call = 0
    BY DEF IInv, CurrentInv
  <2>5. pc = "call" => lazy.initialized
    BY DEF IInv, CurrentInv
  <2> QED BY <1>1, <1>3, <2>2, <2>3, <2>4, <2>5, CurrentKept
<1> QED BY <1>4, <1>5, <1>6, <1>7, <1>8, StepCases
----------------------------------------------------------------------------
(* The futures *)

\* A step that registers no request, settles none and answers none.
LEMMA FuturesKept ==
  ASSUME IInv, Quiet, UNCHANGED answered, Len(calls') = Len(calls), Unsent' => Unsent
  PROVE  FuturesInv'
<1>1. FuturesInv
  BY DEF IInv
<1>2. \A i \in DOMAIN client'.futures : client'.futures[i].call \in 0..Len(calls')
  BY <1>1 DEF Quiet, FuturesInv
<1>3. \A i, j \in DOMAIN client'.futures :
        client'.futures[i].call = client'.futures[j].call /\ client'.futures[i].call # 0 => i = j
  BY <1>1 DEF Quiet, FuturesInv
<1>4. \A i \in DOMAIN client'.futures : client'.futures[i].state = "done" =>
        /\ client'.futures[i].for = client'.futures[i].call
        /\ client'.futures[i].call # 0 =>
             answered'[client'.futures[i].call] = Answer(client'.futures[i].ok)
  BY <1>1 DEF Quiet, FuturesInv
<1>5. Unsent' =>
        /\ \A i \in DOMAIN client'.futures : client'.futures[i].call # Len(calls')
        /\ answered'[Len(calls')] = "none"
  BY <1>1 DEF Quiet, FuturesInv
<1> QED BY <1>2, <1>3, <1>4, <1>5 DEF FuturesInv

\* The last call stays unregistered while the owner works towards it.
LEMMA UnsentKept ==
  ASSUME IInv, QuietStep \/ ReadLine, ~Call
  PROVE  Unsent' => Unsent
<1>1. Next \/ UNCHANGED vars
  BY DEF QuietStep, Next, Owner, Reader
<1>2. /\ client \in ClientRow /\ client.pending \subseteq DOMAIN client.futures
      /\ child \in ChildRow /\ client' \in ClientRow
  BY <1>1, TypedStep DEF IInv, Typed, vars
<1>3. /\ DOMAIN client'.futures = DOMAIN client.futures
      /\ \A i \in DOMAIN client.futures : client'.futures[i].call = client.futures[i].call
  <2>1. CASE QuietStep
    BY <2>1, QuietSteps DEF Quiet
  <2>2. CASE ReadLine
    <3>1. Head(child.stdout) \in LineRow
      BY <1>2, <2>2, ReadChild
    <3> QED BY <1>2, <2>2, <3>1, ReadLineCases, Resolved DEF Quiet
  <2> QED BY <2>1, <2>2
<1>4. Current' = Current /\ DOMAIN client.futures = 1..Current /\ Current \in Nat
  <2>1. client.futures \in Seq(FutureRow) /\ client'.futures \in Seq(FutureRow)
    BY <1>2 DEF ClientRow
  <2>2. Len(client'.futures) = Len(client.futures)
    BY <1>3, <2>1, SMT
  <2> QED BY <1>2, <2>2, Futures DEF Current
<1>5. pc \in Waiting => client'.futures[Current'].call = client.futures[Current].call
  <2>1. pc \in Waiting => Current \in DOMAIN client.futures
    BY <1>4 DEF IInv, CurrentInv
  <2> QED BY <1>3, <1>4, <2>1
<1>6. /\ pc' \in Waiting => pc \in Waiting
      /\ pc' \in {"ensure_client", "start", "initialize", "call"} => Unsent
  <2>1. CASE Shutdown \/ EnsureClient \/ CommandNotFound \/ Close \/ StopProcess \/ CancelReader
    BY <2>1 DEF Shutdown, EnsureClient, CommandNotFound, Close, StopProcess, CancelReader,
                Unsent, Waiting
  <2>2. CASE WriteRequest \/ NotifyInitialized \/ ConnectionLost \/ TimedOut \/ Timeout
    BY <2>2 DEF WriteRequest, NotifyInitialized, ConnectionLost, TimedOut, Timeout, Raise, Unsent, Waiting
  <2>3. CASE ReturnResponse
    BY <2>3 DEF ReturnResponse, Initialized, Unsent, Waiting
  <2>4. CASE ReadLine \/ ReadEof \/ Codex \/ UNCHANGED vars
    BY <2>4 DEF ReadLine, ReadEof, Codex, Accept, Die, Emit, Respond, vars, Unsent, Waiting
  <2> QED BY <2>1, <2>2, <2>3, <2>4 DEF QuietStep
<1> QED BY <1>5, <1>6 DEF Unsent

LEMMA FuturesStep ==
  ASSUME IInv, Next
  PROVE  FuturesInv'
<1>1. /\ client \in ClientRow /\ client.pending \subseteq DOMAIN client.futures /\ child \in ChildRow
      /\ Len(calls) \in Nat /\ Len(answered) = Len(calls) /\ FuturesInv
  BY DEF IInv, Typed, CallsInv
<1>2. /\ client.futures \in Seq(FutureRow) /\ DOMAIN client.futures = 1..Current /\ Current \in Nat
      /\ \A i \in DOMAIN client.futures : client.futures[i] \in FutureRow
  BY <1>1, Futures
<1>3. CASE Call
  <2>1. Len(calls') = Len(calls) + 1 /\ UNCHANGED client
    BY <1>3, CallAppends DEF Call
  <2>2. \A k \in 1..Len(calls) : answered'[k] = answered[k]
    BY <1>3, CallAppends
  <2>3. \A i \in DOMAIN client.futures :
          client.futures[i].call # 0 => client.futures[i].call \in 1..Len(calls)
    BY <1>1 DEF FuturesInv
  <2>4. \A i \in DOMAIN client'.futures : /\ client'.futures[i].call \in 0..Len(calls')
                                           /\ client'.futures[i].call # Len(calls')
    BY <1>1, <2>1 DEF FuturesInv
  <2>5. \A i \in DOMAIN client'.futures : client'.futures[i].state = "done" =>
          /\ client'.futures[i].for = client'.futures[i].call
          /\ client'.futures[i].call # 0 =>
               answered'[client'.futures[i].call] = Answer(client'.futures[i].ok)
    BY <1>1, <2>1, <2>2, <2>3 DEF FuturesInv
  <2>6. answered'[Len(calls')] = "none"
    BY <1>3, <2>1, CallAppends
  <2> QED BY <1>1, <2>1, <2>4, <2>5, <2>6 DEF FuturesInv
<1>4. ASSUME NEW r \in child.working, NEW ok \in BOOLEAN, Respond(r, ok)
      PROVE  FuturesInv'
  <2>1. UNCHANGED <<client, calls, pc>>
    BY <1>4 DEF Respond
  <2>2. /\ r.id \in DOMAIN client.futures /\ client.futures[r.id].call = r.call
        /\ r.call # 0 => answered[r.call] = "none"
        /\ \A k \in 1..Len(answered) : answered'[k] = IF k = r.call THEN Answer(ok) ELSE answered[k]
    BY <1>4, RespondAnswers
  <2>3. ASSUME NEW i \in DOMAIN client.futures, client.futures[i].state = "done",
               client.futures[i].call # 0
        PROVE  answered'[client.futures[i].call] = Answer(client.futures[i].ok)
    <3>1. answered[client.futures[i].call] = Answer(client.futures[i].ok)
          /\ client.futures[i].call \in 1..Len(answered)
      BY <1>1, <2>3 DEF FuturesInv
    <3>2. client.futures[i].call # r.call
      BY <2>2, <2>3, <3>1 DEF Answer
    <3> QED BY <2>2, <3>1, <3>2
  <2>4. Unsent => answered'[Len(calls)] = "none"
    <3>1. Unsent => /\ answered[Len(calls)] = "none" /\ r.call # Len(calls)
      BY <1>1, <2>2 DEF FuturesInv
    <3>2. Unsent => Len(calls) > 0
      BY DEF IInv, CallsInv, Unsent, Active
    <3> QED BY <1>1, <2>2, <3>1, <3>2
  <2>5. Unsent' => Unsent
    BY <2>1 DEF Unsent, Current
  <2> QED BY <1>1, <2>1, <2>3, <2>4, <2>5 DEF FuturesInv
<1>5. CASE QuietStep /\ ~Call /\ ~\E r \in child.working, ok \in BOOLEAN : Respond(r, ok)
  <2>1. UNCHANGED answered /\ Len(calls') = Len(calls)
    BY <1>5, AnsweredCases, HistoryTyped
  <2> QED BY <1>5, <2>1, QuietSteps, UnsentKept, FuturesKept
<1>6. CASE Start
  <2>1. client'.futures = <<>> /\ UNCHANGED <<calls, answered>> /\ Unsent
    BY <1>6, StartChild DEF Start, Unsent
  <2>2. DOMAIN client'.futures = {}
    BY <2>1, SMT
  <2> QED BY <1>1, <2>1, <2>2 DEF FuturesInv
<1>7. CASE Initialize \/ SendCall
  <2>1. PICK call \in {0, Len(calls)} : Register(call) /\ (call = 0 => Initialize)
    <3>1. Len(calls) > 0
      BY <1>7 DEF Initialize, SendCall, IInv, CallsInv, Active
    <3> QED BY <1>7, <3>1 DEF Initialize, SendCall
  <2>2. /\ Current' = Current + 1 /\ client'.futures[Current + 1] = Future(call)
        /\ \A i \in 1..Current : client'.futures[i] = client.futures[i]
        /\ client' \in ClientRow
    BY <1>1, <2>1, Registered
  <2>3. DOMAIN client'.futures = 1..(Current + 1)
    BY <2>2, SMT DEF Current, ClientRow
  <2>4. UNCHANGED <<calls, answered>> /\ Unsent /\ Len(calls) > 0 /\ pc' = "write"
    BY <1>7 DEF Initialize, SendCall, Unsent, IInv, CallsInv, Active
  <2>5. \A i \in 1..Current : client.futures[i].call # Len(calls)
    BY <1>1, <1>2, <2>4 DEF FuturesInv
  <2>6. call = 0 => Current = 0
    <3>1. call = 0 => client.futures = <<>>
      BY <2>1 DEF Initialize, IInv, CurrentInv
    <3> QED BY <3>1, SMT DEF Current
  <2>7. \A i \in 1..(Current + 1) :
          \/ i \in 1..Current /\ client'.futures[i] = client.futures[i]
          \/ i = Current + 1 /\ client'.futures[i] = Future(call)
    BY <1>2, <2>2
  <2>8. Future(call).call = call /\ Future(call).state = "waiting"
    BY DEF Future
  <2>9. \A i \in DOMAIN client'.futures : client'.futures[i].call \in 0..Len(calls')
    BY <1>1, <1>2, <2>3, <2>4, <2>7, <2>8 DEF FuturesInv
  <2>10. \A i, j \in DOMAIN client'.futures :
           client'.futures[i].call = client'.futures[j].call /\ client'.futures[i].call # 0 => i = j
    <3> SUFFICES ASSUME NEW i \in 1..(Current + 1), NEW j \in 1..(Current + 1),
                        client'.futures[i].call = client'.futures[j].call,
                        client'.futures[i].call # 0
                 PROVE  i = j
      BY <2>3
    <3>1. CASE i \in 1..Current /\ j \in 1..Current
      BY <1>1, <1>2, <2>2, <3>1 DEF FuturesInv
    <3>2. CASE i = Current + 1 /\ j \in 1..Current
      <4>1. call = Len(calls) /\ client.futures[j].call = call
        BY <2>2, <2>8, <3>2
      <4> QED BY <2>5, <3>2, <4>1
    <3>3. CASE j = Current + 1 /\ i \in 1..Current
      <4>1. call = Len(calls) /\ client.futures[i].call = call
        BY <2>2, <2>8, <3>3
      <4> QED BY <2>5, <3>3, <4>1
    <3> QED BY <1>2, <3>1, <3>2, <3>3
  <2>11. \A i \in DOMAIN client'.futures : client'.futures[i].state = "done" =>
           /\ client'.futures[i].for = client'.futures[i].call
           /\ client'.futures[i].call # 0 =>
                answered'[client'.futures[i].call] = Answer(client'.futures[i].ok)
    BY <1>1, <1>2, <2>3, <2>4, <2>7, <2>8 DEF FuturesInv
  <2>12. client'.futures[Current'].call = call
    BY <2>2, <2>8
  <2>13. Unsent' =>
           /\ \A i \in DOMAIN client'.futures : client'.futures[i].call # Len(calls')
           /\ answered'[Len(calls')] = "none"
    <3> SUFFICES ASSUME Unsent'
                 PROVE  /\ \A i \in DOMAIN client'.futures : client'.futures[i].call # Len(calls')
                        /\ answered'[Len(calls')] = "none"
      OBVIOUS
    <3>1. call = 0
      BY <2>4, <2>12 DEF Unsent
    <3>2. \A i \in DOMAIN client'.futures : client'.futures[i].call = 0
      BY <2>3, <2>6, <2>7, <2>8, <3>1
    <3> QED BY <1>1, <2>4, <3>2 DEF FuturesInv
  <2> QED BY <2>9, <2>10, <2>11, <2>13 DEF FuturesInv
<1>8. CASE ReadLine
  <2> DEFINE line == Head(child.stdout)
  <2>1. UNCHANGED <<calls, answered>>
    BY <1>8 DEF ReadLine
  <2>2. Unsent' => Unsent
    BY <1>8, UnsentKept DEF Call, ReadLine
  <2>3. CASE Quiet
    BY <2>1, <2>2, <2>3, FuturesKept
  <2>4. CASE line.kind = "response" /\ client' = Resolve(client, line)
    <3>1. line \in LineRow /\ child.stdout # <<>>
      BY <1>1, <1>8, ReadChild
    <3>2. line \in Elems(child.stdout)
      BY <1>1, <3>1, TailElems, Pipes
    <3>3. /\ client.futures[line.id].call = line.call
          /\ line.call # 0 => answered[line.call] = Answer(line.ok)
      BY <2>4, <3>2 DEF IInv, MessagesInv, Responses
    <3>4. /\ DOMAIN client'.futures = DOMAIN client.futures
          /\ \A i \in DOMAIN client.futures :
              \/ client'.futures[i] = client.futures[i]
              \/ /\ i = line.id /\ client.futures[i].state = "waiting"
                 /\ client'.futures[i].call = client.futures[i].call
                 /\ client'.futures[i].state = "done" /\ client'.futures[i].ok = line.ok
                 /\ client'.futures[i].for = line.call
      BY <1>1, <2>4, <3>1, Resolved
    <3>5. \A i \in DOMAIN client.futures : client'.futures[i].call = client.futures[i].call
      BY <3>4
    <3>6. \A i \in DOMAIN client'.futures : client'.futures[i].state = "done" =>
           /\ client'.futures[i].for = client'.futures[i].call
           /\ client'.futures[i].call # 0 =>
                answered'[client'.futures[i].call] = Answer(client'.futures[i].ok)
      <4> SUFFICES ASSUME NEW i \in DOMAIN client.futures, client'.futures[i].state = "done"
                   PROVE  /\ client'.futures[i].for = client'.futures[i].call
                          /\ client'.futures[i].call # 0 =>
                               answered'[client'.futures[i].call] = Answer(client'.futures[i].ok)
        BY <3>4
      <4>1. CASE client'.futures[i] = client.futures[i]
        BY <1>1, <2>1, <4>1 DEF FuturesInv
      <4>2. CASE client'.futures[i] # client.futures[i]
        BY <2>1, <3>3, <3>4, <4>2
      <4> QED BY <4>1, <4>2
    <3> QED BY <1>1, <2>1, <2>2, <3>4, <3>5, <3>6 DEF FuturesInv
  <2> QED BY <1>8, <2>3, <2>4, ReadLineCases
<1> QED BY <1>3, <1>4, <1>5, <1>6, <1>7, <1>8, StepCases
----------------------------------------------------------------------------
(* The messages on their way *)

\* A step that sends nothing, answers nothing and keeps the rows of the futures.
LEMMA MessagesKept ==
  ASSUME IInv, DOMAIN client.futures \subseteq DOMAIN client'.futures,
         \A i \in DOMAIN client.futures : client'.futures[i].call = client.futures[i].call,
         UNCHANGED answered, Sent' \subseteq Sent, Responses' \subseteq Responses,
         Distinct(child'.stdin), child'.working \intersect Elems(child'.stdin) = {},
         pc' = "write" =>
           /\ \A r \in Sent : r.id # Current'
           /\ client'.futures[Current'].call # 0 =>
                answered[client'.futures[Current'].call] = "none"
  PROVE  MessagesInv'
<1>1. MessagesInv
  BY DEF IInv
<1>2. ASSUME NEW r \in Sent'
      PROVE  /\ r.id \in DOMAIN client'.futures /\ client'.futures[r.id].call = r.call
             /\ r.call # 0 => answered'[r.call] = "none"
  BY <1>1 DEF MessagesInv
<1>3. ASSUME NEW l \in Responses'
      PROVE  /\ l.id \in DOMAIN client'.futures /\ client'.futures[l.id].call = l.call
             /\ l.call # 0 => answered'[l.call] = Answer(l.ok)
  BY <1>1 DEF MessagesInv
<1>4. pc' = "write" =>
        /\ \A r \in Sent' : r.id # Current'
        /\ client'.futures[Current'].call # 0 => answered'[client'.futures[Current'].call] = "none"
  OBVIOUS
<1>5. Distinct(child'.stdin) /\ child'.working \intersect Elems(child'.stdin) = {}
  OBVIOUS
<1> QED BY <1>2, <1>3, <1>4, <1>5 DEF MessagesInv

LEMMA EmptyPipes ==
  Elems(<<>>) = {} /\ Distinct(<<>>)
BY SMT DEF Elems, Distinct

LEMMA RespondMessages ==
  ASSUME IInv, NEW r \in child.working, NEW ok \in BOOLEAN, Respond(r, ok)
  PROVE  MessagesInv'
<1>1. /\ child \in ChildRow /\ MessagesInv /\ FuturesInv
      /\ client.pending \subseteq DOMAIN client.futures /\ Len(answered) = Len(calls)
      /\ client \in ClientRow /\ CurrentInv
  BY DEF IInv, Typed, CallsInv
<1>2. /\ child'.stdin = child.stdin /\ child'.working = child.working \ {r}
      /\ child'.stdout = Append(child.stdout, JsonRpcResponse(r, ok))
      /\ UNCHANGED <<client, calls, pc>>
  BY <1>1, RespondChild DEF Respond
<1>3. /\ r \in RequestRow /\ r.id \in DOMAIN client.futures /\ client.futures[r.id].call = r.call
      /\ r.call # 0 => r.call \in 1..Len(answered) /\ answered[r.call] = "none"
      /\ \A k \in 1..Len(answered) : answered'[k] = IF k = r.call THEN Answer(ok) ELSE answered[k]
  BY RespondAnswers
<1>4. child.working \intersect Elems(child.stdin) = {} /\ Distinct(child.stdin)
  BY <1>1 DEF MessagesInv
<1>5. Sent' = Sent \ {r} /\ r \in Sent /\ Sent \subseteq RequestRow
  BY <1>1, <1>2, <1>4, Pipes, QueueTypes DEF Sent
<1>6. \A i \in DOMAIN client.futures :
        client.futures[i].call # 0 => client.futures[i].call \in 1..Len(answered)
  <2>1. Len(calls) \in Nat
    BY DEF IInv, Typed
  <2> QED BY <1>1, <2>1 DEF FuturesInv
<1>7. \A i \in DOMAIN client.futures :
        client.futures[i].call = r.call /\ client.futures[i].call # 0 => i = r.id
  BY <1>1, <1>3 DEF FuturesInv
<1>8. ASSUME NEW q \in Sent'
      PROVE  /\ q.id \in DOMAIN client'.futures /\ client'.futures[q.id].call = q.call
             /\ q.call # 0 => answered'[q.call] = "none"
  <2>1. /\ q \in Sent /\ q # r /\ q \in RequestRow
        /\ q.id \in DOMAIN client.futures /\ client.futures[q.id].call = q.call
        /\ q.call # 0 => answered[q.call] = "none"
    BY <1>1, <1>5 DEF MessagesInv
  <2>2. q.call = r.call /\ q.call # 0 => q.id = r.id
    BY <1>7, <2>1
  <2>3. q.call = r.call /\ q.id = r.id => q = r
    BY <1>3, <2>1 DEF RequestRow
  <2> QED BY <1>2, <1>3, <1>6, <2>1, <2>2, <2>3
<1>9. ASSUME NEW l \in Responses'
      PROVE  /\ l.id \in DOMAIN client'.futures /\ client'.futures[l.id].call = l.call
             /\ l.call # 0 => answered'[l.call] = Answer(l.ok)
  <2>1. l \in Responses \/ l = JsonRpcResponse(r, ok)
    BY <1>1, <1>2, Pipes, AppendElems DEF Responses
  <2>2. CASE l \in Responses
    <3>1. /\ l.id \in DOMAIN client.futures /\ client.futures[l.id].call = l.call
          /\ l.call # 0 => answered[l.call] = Answer(l.ok)
      BY <1>1, <2>2 DEF MessagesInv
    <3>2. l.call # 0 => l.call # r.call
      BY <1>3, <3>1 DEF Answer
    <3> QED BY <1>2, <1>3, <1>6, <3>1, <3>2
  <2>3. CASE l = JsonRpcResponse(r, ok)
    BY <1>2, <1>3, <2>3 DEF JsonRpcResponse
  <2> QED BY <2>1, <2>2, <2>3
<1>10. pc' = "write" =>
         /\ \A q \in Sent' : q.id # Current'
         /\ client'.futures[Current'].call # 0 => answered'[client'.futures[Current'].call] = "none"
  <2> SUFFICES ASSUME pc = "write"
               PROVE  /\ \A q \in Sent : q.id # Current
                      /\ client.futures[Current].call # 0 =>
                           answered'[client.futures[Current].call] = "none"
    BY <1>2, <1>5 DEF Current
  <2>1. /\ \A q \in Sent : q.id # Current
        /\ client.futures[Current].call # 0 => answered[client.futures[Current].call] = "none"
    BY <1>1 DEF MessagesInv
  <2>2. Current \in DOMAIN client.futures
    BY <1>1, Futures DEF CurrentInv, Waiting
  <2>3. client.futures[Current].call # 0 => client.futures[Current].call # r.call
    BY <1>5, <1>7, <2>1, <2>2
  <2> QED BY <1>3, <1>6, <2>1, <2>2, <2>3
<1>11. Distinct(child'.stdin) /\ child'.working \intersect Elems(child'.stdin) = {}
  BY <1>2, <1>4
<1> QED BY <1>8, <1>9, <1>10, <1>11 DEF MessagesInv

\* What the other steps do to the pipes.
LEMMA PipesStep ==
  ASSUME IInv, Next, ~\E r \in child.working, ok \in BOOLEAN : Respond(r, ok),
         WriteRequest => UNCHANGED child
  PROVE  /\ Sent' \subseteq Sent /\ Responses' \subseteq Responses
         /\ Distinct(child'.stdin) /\ child'.working \intersect Elems(child'.stdin) = {}
<1>1. /\ child \in ChildRow /\ Distinct(child.stdin) /\ manager \in BOOLEAN
      /\ child.working \intersect Elems(child.stdin) = {}
  BY DEF IInv, Typed, MessagesInv
<1>2. CASE \/ /\ child'.stdin = child.stdin /\ child'.working = child.working
              /\ child'.stdout = child.stdout
  BY <1>1, <1>2 DEF Sent, Responses
<1>3. CASE Start \/ Die
  <2>1. child'.stdin = <<>> /\ child'.working = {} /\ child'.stdout \in {<<>>, child.stdout}
    BY <1>1, <1>3, StartChild, DieChild
  <2>2. Elems(child'.stdout) \subseteq Elems(child.stdout)
    BY <2>1, EmptyPipes
  <2> QED BY <2>1, <2>2, EmptyPipes DEF Sent, Responses
<1>4. CASE Accept
  <2>1. /\ child.stdin # <<>> /\ child'.stdin = Tail(child.stdin) /\ child'.stdout = child.stdout
        /\ child'.working = child.working \union {Head(child.stdin)}
    BY <1>1, <1>4, AcceptChild
  <2>2. /\ Head(child.stdin) \in Elems(child.stdin) /\ Elems(Tail(child.stdin)) \subseteq Elems(child.stdin)
        /\ Head(child.stdin) \notin Elems(Tail(child.stdin)) /\ Distinct(Tail(child.stdin))
    BY <1>1, <2>1, Pipes, TailElems
  <2> QED BY <1>1, <2>1, <2>2 DEF Sent, Responses
<1>5. ASSUME NEW line \in {JsonRpcNotification, Malformed}, Emit(line)
      PROVE  /\ Sent' \subseteq Sent /\ Responses' \subseteq Responses
             /\ Distinct(child'.stdin) /\ child'.working \intersect Elems(child'.stdin) = {}
  <2>1. line \in LineRow /\ line.kind # "response"
    <3>1. CASE line = JsonRpcNotification
      BY <3>1 DEF JsonRpcNotification, LineRow
    <3>2. CASE line = Malformed
      BY <3>2 DEF Malformed, LineRow
    <3> QED BY <3>1, <3>2
  <2>2. /\ child'.stdin = child.stdin /\ child'.working = child.working
        /\ child'.stdout = Append(child.stdout, line)
    BY <1>1, <1>5, <2>1, EmitChild
  <2>3. Elems(child'.stdout) = Elems(child.stdout) \union {line}
    BY <1>1, <2>2, Pipes, AppendElems
  <2> QED BY <1>1, <2>1, <2>2, <2>3 DEF Sent, Responses
<1>6. CASE ReadLine
  <2>1. /\ child.stdout # <<>> /\ child'.stdin = child.stdin /\ child'.working = child.working
        /\ child'.stdout = Tail(child.stdout)
    BY <1>1, <1>6, ReadChild
  <2>2. Elems(child'.stdout) \subseteq Elems(child.stdout)
    BY <1>1, <2>1, Pipes, TailElems
  <2> QED BY <1>1, <2>1, <2>2 DEF Sent, Responses
<1>7. CASE StopProcess
  BY <1>1, <1>2, <1>7, StopChild
<1>8. CASE UNCHANGED child
  BY <1>2, <1>8
<1> QED BY <1>3, <1>4, <1>5, <1>6, <1>7, <1>8
     DEF Next, Owner, Reader, Codex, Call, Shutdown, EnsureClient, CommandNotFound, Close, CancelReader,
         Initialize, SendCall, WriteRequest, NotifyInitialized, ReturnResponse, ConnectionLost,
         TimedOut, Timeout, ReadEof

\* A call and a registration: the pipes stay as they are.
LEMMA OwnerMessages ==
  ASSUME IInv, Call \/ Initialize \/ SendCall
  PROVE  MessagesInv'
<1>1. /\ client \in ClientRow /\ MessagesInv /\ FuturesInv /\ Len(calls) \in Nat
      /\ Len(answered) = Len(calls)
  BY DEF IInv, Typed, CallsInv
<1>2. /\ DOMAIN client.futures = 1..Current /\ Current \in Nat
  BY <1>1, Futures
<1>3. UNCHANGED child /\ Sent' = Sent /\ Responses' = Responses
  BY DEF Call, Initialize, SendCall, Sent, Responses
<1>4. Distinct(child'.stdin) /\ child'.working \intersect Elems(child'.stdin) = {}
  BY <1>1, <1>3 DEF MessagesInv
<1>5. CASE Call
  <2>1. UNCHANGED client /\ pc' # "write" /\ \A k \in 1..Len(calls) : answered'[k] = answered[k]
    BY <1>5, CallAppends DEF Call
  <2>2. \A i \in DOMAIN client.futures :
          client.futures[i].call # 0 => client.futures[i].call \in 1..Len(calls)
    BY <1>1 DEF FuturesInv
  <2>3. ASSUME NEW r \in Sent'
        PROVE  /\ r.id \in DOMAIN client'.futures /\ client'.futures[r.id].call = r.call
               /\ r.call # 0 => answered'[r.call] = "none"
    BY <1>1, <1>3, <2>1, <2>2 DEF MessagesInv
  <2>4. ASSUME NEW l \in Responses'
        PROVE  /\ l.id \in DOMAIN client'.futures /\ client'.futures[l.id].call = l.call
               /\ l.call # 0 => answered'[l.call] = Answer(l.ok)
    BY <1>1, <1>3, <2>1, <2>2 DEF MessagesInv
  <2> QED BY <1>4, <2>1, <2>3, <2>4 DEF MessagesInv
<1>6. CASE Initialize \/ SendCall
  <2>1. PICK call \in {0, Len(calls)} : Register(call)
    BY <1>6 DEF Initialize, SendCall
  <2>2. /\ Current' = Current + 1 /\ client'.futures[Current + 1] = Future(call)
        /\ \A i \in 1..Current : client'.futures[i] = client.futures[i]
        /\ client' \in ClientRow
    BY <1>1, <2>1, Registered
  <2>3. DOMAIN client'.futures = 1..(Current + 1)
    BY <2>2, SMT DEF Current, ClientRow
  <2>4. UNCHANGED <<calls, answered>> /\ Unsent
    BY <1>6 DEF Initialize, SendCall, Unsent
  <2>5. \A r \in Sent : r.id # Current'
    BY <1>1, <1>2, <2>2 DEF MessagesInv
  <2>6. client'.futures[Current'].call # 0 => answered[client'.futures[Current'].call] = "none"
    BY <1>1, <2>2, <2>4 DEF Future, FuturesInv
  <2>7. /\ DOMAIN client.futures \subseteq DOMAIN client'.futures
        /\ \A i \in DOMAIN client.futures : client'.futures[i].call = client.futures[i].call
    BY <1>2, <2>2, <2>3
  <2> QED BY <1>3, <1>4, <2>4, <2>5, <2>6, <2>7, MessagesKept
<1> QED BY <1>5, <1>6

LEMMA WriteMessages ==
  ASSUME IInv, WriteRequest, ~UNCHANGED child
  PROVE  MessagesInv'
<1> DEFINE request == JsonRpcRequest(Current, client.futures[Current].call)
<1>1. /\ client \in ClientRow /\ child \in ChildRow /\ MessagesInv
  BY DEF IInv, Typed
<1>2. Current \in DOMAIN client.futures
  BY <1>1, Futures DEF WriteRequest, IInv, CurrentInv, Waiting
<1>3. request \in RequestRow /\ request.id = Current /\ request.call = client.futures[Current].call
  BY <1>1, <1>2, Futures DEF JsonRpcRequest, RequestRow, FutureRow
<1>4. /\ child' = [child EXCEPT !.stdin = Append(@, request)] /\ UNCHANGED <<client, answered>>
      /\ pc = "write" /\ pc' # "write"
  BY DEF WriteRequest
<1> HIDE DEF request
<1>5. /\ child'.stdin = Append(child.stdin, request) /\ child'.working = child.working
      /\ child'.stdout = child.stdout
  BY <1>1, <1>3, <1>4, WriteChild
<1>6. request \notin Sent /\ (request.call # 0 => answered[request.call] = "none")
  BY <1>1, <1>3, <1>4 DEF MessagesInv
<1>7. Elems(child'.stdin) = Elems(child.stdin) \union {request} /\ Distinct(child'.stdin)
  BY <1>1, <1>5, <1>6, Pipes, AppendElems, AppendDistinct DEF MessagesInv, Sent
<1>8. Sent' = Sent \union {request} /\ child'.working \intersect Elems(child'.stdin) = {}
  BY <1>1, <1>5, <1>6, <1>7 DEF MessagesInv, Sent
<1>9. ASSUME NEW r \in Sent'
      PROVE  /\ r.id \in DOMAIN client'.futures /\ client'.futures[r.id].call = r.call
             /\ r.call # 0 => answered'[r.call] = "none"
  <2>1. CASE r = request
    BY <1>2, <1>3, <1>4, <1>6, <2>1
  <2>2. CASE r \in Sent
    BY <1>1, <1>4, <2>2 DEF MessagesInv
  <2> QED BY <1>8, <2>1, <2>2
<1>10. ASSUME NEW l \in Responses'
      PROVE  /\ l.id \in DOMAIN client'.futures /\ client'.futures[l.id].call = l.call
             /\ l.call # 0 => answered'[l.call] = Answer(l.ok)
  <2>1. l \in Responses
    BY <1>5 DEF Responses
  <2> QED BY <1>1, <1>4, <2>1 DEF MessagesInv
<1> QED BY <1>4, <1>7, <1>8, <1>9, <1>10 DEF MessagesInv

LEMMA MessagesStep ==
  ASSUME IInv, Next
  PROVE  MessagesInv'
<1>1. CASE Call \/ Initialize \/ SendCall
  BY <1>1, OwnerMessages
<1>2. CASE WriteRequest /\ ~UNCHANGED child
  BY <1>2, WriteMessages
<1>3. CASE \E r \in child.working, ok \in BOOLEAN : Respond(r, ok)
  BY <1>3, RespondMessages
<1>4. CASE Start
  <2>1. /\ child'.stdin = <<>> /\ child'.working = {} /\ child'.stdout = <<>> /\ pc' # "write"
    BY <1>4, StartChild DEF Start
  <2>2. Sent' = {} /\ Responses' = {}
    BY <2>1, EmptyPipes DEF Sent, Responses
  <2> QED BY <2>1, <2>2, EmptyPipes DEF MessagesInv
<1>5. CASE /\ ~(Call \/ Initialize \/ SendCall \/ Start) /\ (WriteRequest => UNCHANGED child)
           /\ ~\E r \in child.working, ok \in BOOLEAN : Respond(r, ok)
  <2>1. QuietStep \/ ReadLine
    BY <1>5, StepCases
  <2>2. UNCHANGED answered
    BY <1>5, AnsweredCases
  <2>3. /\ client \in ClientRow /\ client.pending \subseteq DOMAIN client.futures
        /\ child \in ChildRow /\ client' \in ClientRow
    BY TypedStep DEF IInv, Typed
  <2>4. /\ DOMAIN client'.futures = DOMAIN client.futures
        /\ \A i \in DOMAIN client.futures : client'.futures[i].call = client.futures[i].call
    <3>1. CASE QuietStep
      BY <3>1, QuietSteps DEF Quiet
    <3>2. CASE ReadLine
      <4>1. Head(child.stdout) \in LineRow
        BY <2>3, <3>2, ReadChild
      <4> QED BY <2>3, <3>2, <4>1, ReadLineCases, Resolved DEF Quiet
    <3> QED BY <2>1, <3>1, <3>2
  <2>5. Current' = Current /\ (pc = "write" => Current \in DOMAIN client.futures)
    <3>1. client.futures \in Seq(FutureRow) /\ client'.futures \in Seq(FutureRow)
      BY <2>3 DEF ClientRow
    <3>2. Len(client'.futures) = Len(client.futures)
      BY <2>4, <3>1, SMT
    <3> QED BY <2>3, <3>2, Futures DEF Current, IInv, CurrentInv, Waiting
  <2>6. pc' = "write" => pc = "write"
    <3>1. CASE Shutdown \/ EnsureClient \/ CommandNotFound \/ Close \/ StopProcess \/ CancelReader
      BY <3>1 DEF Shutdown, EnsureClient, CommandNotFound, Close, StopProcess, CancelReader
    <3>2. CASE WriteRequest \/ NotifyInitialized \/ ConnectionLost \/ TimedOut \/ Timeout
      BY <3>2 DEF WriteRequest, NotifyInitialized, ConnectionLost, TimedOut, Timeout, Raise
    <3>3. CASE ReturnResponse
      BY <3>3 DEF ReturnResponse, Initialized
    <3>4. CASE ReadLine \/ ReadEof \/ Codex \/ UNCHANGED vars
      BY <3>4 DEF ReadLine, ReadEof, Codex, Accept, Die, Emit, Respond, vars
    <3> QED BY <1>5, <2>1, <3>1, <3>2, <3>3, <3>4 DEF QuietStep
  <2>7. pc' = "write" =>
          /\ \A r \in Sent : r.id # Current'
          /\ client'.futures[Current'].call # 0 =>
               answered[client'.futures[Current'].call] = "none"
    BY <2>4, <2>5, <2>6 DEF IInv, MessagesInv
  <2> QED BY <1>5, <2>2, <2>4, <2>7, PipesStep, MessagesKept
<1> QED BY <1>1, <1>2, <1>3, <1>4, <1>5
----------------------------------------------------------------------------
(* The invariant *)

LEMMA InvariantInit ==
  ASSUME Init
  PROVE  IInv
<1>1. /\ client.futures = <<>> /\ client.pending = {} /\ child.stdin = <<>> /\ child.stdout = <<>>
      /\ child.working = {} /\ ~child.alive
  BY DEF Init, NewClient, NoChild
<1>2. DOMAIN client.futures = {} /\ Len(calls) = 0 /\ DOMAIN calls = {} /\ Len(answered) = 0
  BY <1>1, SMT DEF Init
<1>3. Typed
  <2>1. /\ <<>> \in Seq(FutureRow) /\ <<>> \in Seq(RequestRow) /\ <<>> \in Seq(LineRow)
        /\ calls \in Seq(Outcomes) /\ answered \in Seq({"none", "result", "error"})
    BY SMT DEF Init
  <2>2. client \in ClientRow /\ child \in ChildRow
    BY <2>1 DEF Init, NewClient, NoChild, ClientRow, ChildRow
  <2> QED BY <1>1, <2>1, <2>2 DEF Init, Typed
<1>4. CallsInv /\ OwnerInv
  BY <1>1, <1>2 DEF Init, CallsInv, OwnerInv, Active, Waiting, Closing
<1>5. CurrentInv /\ FuturesInv
  BY <1>1, <1>2 DEF Init, CurrentInv, FuturesInv, Unsent, Waiting
<1>6. Sent = {} /\ Responses = {}
  BY <1>1, EmptyPipes DEF Sent, Responses
<1>7. MessagesInv
  BY <1>1, <1>6, EmptyPipes DEF Init, MessagesInv
<1> QED BY <1>3, <1>4, <1>5, <1>7 DEF IInv

LEMMA InvariantStep ==
  ASSUME IInv, [Next]_vars
  PROVE  IInv'
<1>1. CASE Next
  BY <1>1, TypedStep, CallsStep, OwnerStep, CurrentStep, FuturesStep, MessagesStep DEF IInv
<1>2. CASE UNCHANGED vars
  BY <1>2 DEF vars, IInv, Typed, CallsInv, OwnerInv, CurrentInv, Ready, FuturesInv, Unsent, MessagesInv,
             Sent, Responses, Current
<1> QED BY <1>1, <1>2

LEMMA Invariance == Spec => []IInv
BY InvariantInit, InvariantStep, PTL DEF Spec
----------------------------------------------------------------------------
(* Theorems *)

\* JsonRpcClient._resolve_response and its timeouts: whatever arrives late, a
\* request is resolved by the answer to itself.
THEOREM OwnAnswers == Spec => []OwnAnswer
<1>1. IInv => OwnAnswer
  BY DEF IInv, FuturesInv, OwnAnswer
<1> QED BY <1>1, Invariance, PTL

\* LazyCodexBridgeClient._ensure_client: Codex is asked nothing before it has
\* accepted `initialize` on the process that is running.
THEOREM InitializeComesFirst == Spec => []InitializedFirst
<1>1. IInv => InitializedFirst
  <2> SUFFICES ASSUME IInv, NEW r \in child.working \union {child.stdin[i] : i \in DOMAIN child.stdin},
                      r.call # 0
               PROVE  client.futures[1].call = 0 /\ client.futures[1].ok
    BY DEF InitializedFirst
  <2>1. r \in Sent
    BY DEF Sent, Elems
  <2>2. r.id \in DOMAIN client.futures /\ client.futures[r.id].call # 0
    BY <2>1 DEF IInv, MessagesInv
  <2> QED BY <2>2 DEF IInv, CurrentInv, Ready
<1> QED BY <1>1, Invariance, PTL

\* LazyCodexBridgeClient.aclose and CodexProcessManager.stop: nothing runs on
\* under a bridge that was closed.
THEOREM CloseStopsChild == Spec => []ClosedStopsChild
<1>1. IInv => ClosedStopsChild
  BY DEF IInv, OwnerInv, ClosedStopsChild
<1> QED BY <1>1, Invariance, PTL
----------------------------------------------------------------------------
(* The refinement of RpcContract *)

LEMMA ContractStep ==
  ASSUME IInv, [Next]_vars
  PROVE  [Rpc!Next]_(Rpc!vars)
<1>1. /\ calls \in Seq(Outcomes) /\ Len(calls) \in Nat /\ DOMAIN calls = 1..Len(calls)
      /\ Len(answered) = Len(calls) /\ client \in ClientRow
  BY DEF IInv, Typed, CallsInv
<1> DEFINE n == Len(calls)
<1>2. CASE UNCHANGED <<calls, answered>>
  BY <1>2 DEF Rpc!vars
<1>3. CASE Call
  BY <1>3 DEF Call, Rpc!Call, Rpc!Next
<1>4. ASSUME NEW r \in child.working, NEW ok \in BOOLEAN, Respond(r, ok)
      PROVE  Rpc!Next \/ UNCHANGED Rpc!vars
  <2>1. UNCHANGED calls
    BY <1>4 DEF Respond
  <2>2. CASE r.call = 0
    BY <1>4, <2>1, <2>2, RespondAnswers DEF Rpc!vars
  <2>3. CASE r.call # 0
    <3>1. /\ r.call \in DOMAIN calls /\ answered[r.call] = "none"
          /\ answered' = [answered EXCEPT ![r.call] = Answer(ok)]
      BY <1>1, <1>4, <2>3, RespondAnswers
    <3>2. Answer(ok) \in {"result", "error"}
      BY DEF Answer
    <3>3. Rpc!Execute(r.call)
      BY <2>1, <3>1, <3>2 DEF Rpc!Execute
    <3> QED BY <3>1, <3>3 DEF Rpc!Next
  <2> QED BY <2>2, <2>3
\* What ended already keeps its outcome.
<1>5. ASSUME NEW outcome, Ended(outcome), calls[n] # "open"
      PROVE  UNCHANGED calls
  <2>1. calls' = [calls EXCEPT ![n] = calls[n]]
    BY <1>5 DEF Ended
  <2> QED BY <1>1, <2>1
<1>6. CASE Failing
  <2>1. PICK outcome \in {"failed", "timeout", "canceled"} : Ended(outcome)
    BY <1>6 DEF Failing
  <2>2. n \in DOMAIN calls /\ UNCHANGED answered
    BY <1>1, <1>6, SMT DEF Failing
  <2>3. CASE calls[n] = "open"
    <3>1. calls' = [calls EXCEPT ![n] = outcome]
      BY <2>1, <2>3 DEF Ended
    <3>2. Rpc!Fail(n)
      BY <2>2, <2>3, <3>1 DEF Rpc!Fail
    <3> QED BY <2>2, <3>2 DEF Rpc!Next
  <2>4. CASE calls[n] # "open"
    BY <1>5, <2>1, <2>2, <2>4 DEF Rpc!vars
  <2> QED BY <2>3, <2>4
<1>7. CASE Returning
  <2> DEFINE f == client.futures[Current]
  <2>1. /\ pc = "await" /\ UNCHANGED answered /\ calls # <<>> /\ f.state = "done" /\ f.call # 0
        /\ Ended(Answer(f.ok))
    BY <1>7 DEF Returning
  <2>2. n \in DOMAIN calls
    BY <1>1, <2>1, SMT
  <2>3. Current > 0 /\ f.call \in {0, n}
    BY <2>1 DEF IInv, CurrentInv, Waiting
  <2>4. Current \in DOMAIN client.futures
    BY <1>1, <2>3, Futures
  <2>5. answered[n] = Answer(f.ok)
    BY <2>1, <2>3, <2>4 DEF IInv, FuturesInv
  <2>6. calls[n] = "open"
    BY <2>1 DEF IInv, CallsInv, Active, Waiting
  <2>7. calls' = [calls EXCEPT ![n] = answered[n]] /\ answered[n] # "none"
    BY <2>1, <2>5, <2>6 DEF Ended, Answer
  <2>8. Rpc!Return(n)
    BY <2>1, <2>6, <2>7 DEF Rpc!Return
  <2> QED BY <2>2, <2>8 DEF Rpc!Next
<1>8. CASE UNCHANGED vars
  BY <1>2, <1>8 DEF vars
<1>9. CASE Untouched /\ UNCHANGED answered
  BY <1>2, <1>9 DEF Untouched
<1>10. CASE Next
  BY <1>3, <1>4, <1>6, <1>7, <1>9, <1>10, CallsCases, AnsweredCases DEF Failing, Returning
<1> QED BY <1>8, <1>10, <1>2 DEF vars

\* The bridge implements the contract the relay engine relies on: a call ends
\* once, Codex executes it at most once, and an answer is the answer to that
\* call, through timeouts, late answers, dead children and restarts.
THEOREM ContractKept == Spec => KeepsContract
<1>1. Init => Rpc!Init
  BY DEF Init, Rpc!Init
<1>2. IInv /\ [Next]_vars => [Rpc!Next]_(Rpc!vars)
  BY ContractStep
<1> QED BY <1>1, <1>2, Invariance, PTL DEF Spec, KeepsContract, Rpc!Spec
----------------------------------------------------------------------------
(* Types and bounds *)

Bounded ==
  /\ Len(calls) <= MaxCalls /\ starts \in 0..MaxStarts
  /\ orphans \in 0..1 /\ (~stopping => orphans = 0)
Tabled ==
  /\ \A i \in DOMAIN client.futures : client.futures[i].for \in 0..Len(calls)
  /\ \A id \in client.pending : client.futures[id].state # "done"

LEMMA BoundedStep ==
  ASSUME IInv, Bounded, [Next]_vars
  PROVE  Bounded'
<1>1. /\ MaxCalls \in Nat /\ MaxStarts \in Nat /\ Len(calls) \in Nat /\ stopping \in BOOLEAN
  BY BoundsAssumption DEF IInv, Typed
<1>2. Len(calls') <= MaxCalls
  <2>1. CASE Call
    BY <1>1, <2>1, CallAppends DEF Call, Bounded
  <2>2. CASE UNCHANGED vars
    BY <2>2 DEF vars, Bounded
  <2>3. CASE Next /\ ~Call
    <3>1. Len(calls') = Len(calls)
      BY <2>3, HistoryTyped
    <3> QED BY <3>1 DEF Bounded
  <2> QED BY <2>1, <2>2, <2>3
<1>3. CASE Shutdown
  BY <1>1, <1>2, <1>3 DEF Shutdown, Bounded
<1>4. CASE Start
  BY <1>1, <1>2, <1>4 DEF Start, Bounded
<1>5. CASE UNCHANGED <<stopping, starts, orphans>>
  BY <1>2, <1>5 DEF Bounded
<1> QED BY <1>3, <1>4, <1>5
     DEF Next, vars, Call, Owner, Timeout, Reader, Codex, EnsureClient, CommandNotFound, Close,
         StopProcess, CancelReader, Initialize, SendCall, WriteRequest, NotifyInitialized,
         ReturnResponse, ConnectionLost, TimedOut, ReadLine, ReadEof, Accept, Respond, Emit, Die

LEMMA TabledStep ==
  ASSUME IInv, Tabled, [Next]_vars
  PROVE  Tabled'
<1>1. /\ client \in ClientRow /\ client.pending \subseteq DOMAIN client.futures /\ child \in ChildRow
      /\ Len(calls) \in Nat
  BY DEF IInv, Typed
<1>2. /\ DOMAIN client.futures = 1..Current /\ Current \in Nat
      /\ \A i \in DOMAIN client.futures : client.futures[i] \in FutureRow
  BY <1>1, Futures
<1>3. Next => Len(calls') \in {Len(calls), Len(calls) + 1}
  BY HistoryTyped, CallAppends
<1>4. ASSUME Next, Quiet
      PROVE  Tabled'
  <2>1. \A i \in DOMAIN client'.futures : client'.futures[i].for \in 0..Len(calls')
    BY <1>1, <1>3, <1>4 DEF Quiet, Tabled
  <2>2. \A id \in client'.pending : client'.futures[id].state # "done"
    BY <1>1, <1>4 DEF Quiet, Tabled
  <2> QED BY <2>1, <2>2 DEF Tabled
<1>5. CASE UNCHANGED vars
  BY <1>5 DEF vars, Tabled
<1>6. CASE Start
  <2>1. client'.futures = <<>> /\ client'.pending = {}
    BY <1>6, StartChild
  <2>2. DOMAIN client'.futures = {}
    BY <2>1, SMT
  <2> QED BY <2>1, <2>2 DEF Tabled
<1>7. CASE Initialize \/ SendCall
  <2>1. PICK call \in Nat : Register(call)
    BY <1>1, <1>7 DEF Initialize, SendCall
  <2>2. /\ Current' = Current + 1 /\ client'.futures[Current + 1] = Future(call)
        /\ \A i \in 1..Current : client'.futures[i] = client.futures[i]
        /\ client' \in ClientRow /\ client'.pending = client.pending \union {Current + 1}
    BY <1>1, <2>1, Registered
  <2>3. DOMAIN client'.futures = 1..(Current + 1)
    BY <2>2, SMT DEF Current, ClientRow
  <2>4. UNCHANGED calls
    BY <1>7 DEF Initialize, SendCall
  <2>5. Future(call).for = 0 /\ Future(call).state = "waiting"
    BY DEF Future
  <2>6. \A i \in 1..(Current + 1) : client'.futures[i].for \in 0..Len(calls)
    BY <1>1, <1>2, <2>2, <2>5 DEF Tabled
  <2>7. \A id \in client'.pending : client'.futures[id].state # "done"
    BY <1>1, <1>2, <2>2, <2>5 DEF Tabled
  <2> QED BY <2>3, <2>4, <2>6, <2>7 DEF Tabled
<1>8. CASE ReadLine
  <2> DEFINE line == Head(child.stdout)
  <2>1. CASE Quiet
    BY <1>4, <1>8, <2>1 DEF Next, Reader
  <2>2. CASE line.kind = "response" /\ client' = Resolve(client, line)
    <3>1. line \in LineRow /\ child.stdout # <<>>
      BY <1>1, <1>8, ReadChild
    <3>2. line \in Elems(child.stdout)
      BY <1>1, <3>1, TailElems, Pipes
    <3>3. line.call \in 0..Len(calls)
      BY <2>2, <3>2 DEF IInv, MessagesInv, FuturesInv, Responses
    <3>4. client'.pending = client.pending \ {line.id}
      <4>1. CASE line.id \notin client.pending
        BY <1>1, <2>2, <4>1 DEF Resolve, ClientRow
      <4>2. CASE line.id \in client.pending
        <5>1. \E F : client' = [[client EXCEPT !.pending = client.pending \ {line.id}] EXCEPT !.futures = F]
          BY <1>1, <2>2, <4>2 DEF Resolve, ClientRow
        <5> QED BY <1>1, <5>1 DEF ClientRow
      <4> QED BY <4>1, <4>2
    <3>5. /\ DOMAIN client'.futures = DOMAIN client.futures
          /\ \A i \in DOMAIN client.futures :
              \/ client'.futures[i] = client.futures[i]
              \/ i = line.id /\ client'.futures[i].for = line.call
      BY <1>1, <2>2, <3>1, Resolved
    <3>6. UNCHANGED calls
      BY <1>8 DEF ReadLine
    <3>7. \A i \in DOMAIN client'.futures : client'.futures[i].for \in 0..Len(calls')
      BY <3>3, <3>5, <3>6 DEF Tabled
    <3>8. \A id \in client'.pending : client'.futures[id].state # "done"
      BY <1>1, <3>4, <3>5 DEF Tabled
    <3> QED BY <3>7, <3>8 DEF Tabled
  <2> QED BY <1>8, <2>1, <2>2, ReadLineCases
<1>9. CASE QuietStep /\ Next
  BY <1>4, <1>9, QuietSteps
<1> QED BY <1>5, <1>6, <1>7, <1>8, <1>9, StepCases

\* The rows keep their types, and the pending table holds identifiers that
\* were issued and futures that have no answer yet.
THEOREM TypeCorrect == Spec => []TypeOK
<1>1. Init => Bounded /\ Tabled
  <2> SUFFICES ASSUME Init
               PROVE  Bounded /\ Tabled
    OBVIOUS
  <2>1. client.futures = <<>> /\ client.pending = {} /\ calls = <<>>
    BY DEF Init, NewClient
  <2>2. Len(calls) = 0 /\ DOMAIN client.futures = {}
    BY <2>1, SMT
  <2>3. Bounded
    BY <2>2, BoundsAssumption DEF Init, Bounded
  <2> QED BY <2>1, <2>2, <2>3 DEF Tabled
<1>2. IInv /\ Bounded /\ Tabled => TypeOK
  <2> SUFFICES ASSUME IInv, Bounded, Tabled
               PROVE  TypeOK
    OBVIOUS
  <2> DEFINE Row == [call : 0..MaxCalls, state : {"waiting", "done", "failed", "cancelled"},
                     ok : BOOLEAN, for : 0..MaxCalls]
  <2>1. /\ client \in ClientRow /\ Len(calls) \in Nat /\ MaxCalls \in Nat /\ Len(calls) <= MaxCalls
    BY BoundsAssumption DEF IInv, Typed, Bounded
  <2>2. /\ client.futures \in Seq(FutureRow) /\ DOMAIN client.futures = 1..Current /\ Current \in Nat
        /\ \A i \in DOMAIN client.futures : client.futures[i] \in FutureRow
    BY <2>1, Futures
  <2>3. ASSUME NEW i \in DOMAIN client.futures
        PROVE  client.futures[i] \in Row
    <3>1. client.futures[i] \in FutureRow
      BY <2>2
    <3>2. client.futures[i].call \in 0..MaxCalls /\ client.futures[i].for \in 0..MaxCalls
      BY <2>1 DEF IInv, FuturesInv, Tabled
    <3> QED BY <3>1, <3>2 DEF FutureRow
  <2>4. client.futures \in Seq(Row)
    <3>1. client.futures \in [1..Current -> Row]
      BY <2>2, <2>3
    <3> HIDE DEF Row, Current
    <3> QED BY <2>2, <3>1, FunctionIsSequence
  <2>5. client \in ClientState
    BY <2>1, <2>4 DEF ClientRow, ClientState
  <2>6. \A id \in client.pending : id \in 1..Current /\ client.futures[id].state # "done"
    BY <2>2 DEF IInv, Typed, Tabled
  <2> QED BY <2>5, <2>6 DEF IInv, Typed, Bounded, TypeOK
<1> QED BY <1>1, <1>2, BoundedStep, TabledStep, Invariance, InvariantInit, InvariantStep, PTL DEF Spec
=============================================================================
