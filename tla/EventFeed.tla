------------------------------ MODULE EventFeed ------------------------------
(***************************************************************************)
(* What the public event surface promises (A2A_PUBLIC_EVENTS.md, "Replay   *)
(* model"): one log that only grows at its end, and readers that move      *)
(* through it from where they asked to start, skipping nothing.  Requests, *)
(* numbering, connections and crashes are all invisible at this level.     *)
(***************************************************************************)
EXTENDS Integers, Sequences

CONSTANTS
  Readers,   \* whoever follows the log
  Events,    \* what can be published
  Starts     \* the positions a reader may ask to start after

VARIABLES
  log,    \* the events, in the order they were published
  pos,    \* the position up to which each reader has read
  seen    \* the (position, event) pairs each reader has received

vars == <<log, pos, seen>>

Init ==
  /\ log = <<>>
  /\ pos \in [Readers -> Starts]
  /\ seen = [r \in Readers |-> {}]

Publish ==
  /\ \E e \in Events : log' = Append(log, e)
  /\ UNCHANGED <<pos, seen>>

\* A reader receives the next events up to n, all of them.
Read(r) ==
  /\ \E n \in (pos[r] + 1) .. Len(log) :
       /\ pos' = [pos EXCEPT ![r] = n]
       /\ seen' = [seen EXCEPT ![r] =
                     @ \union {<<i, log[i]>> : i \in (pos[r] + 1) .. n}]
  /\ UNCHANGED log

Next == Publish \/ \E r \in Readers : Read(r)

Spec == Init /\ [][Next]_vars
==============================================================================
