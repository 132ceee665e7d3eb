----------------------------- MODULE RpcContract -----------------------------
(***************************************************************************)
(* What the relay engine relies on when it calls Codex: a call ends once;  *)
(* the server executes it at most once; an answer, good or bad, is an      *)
(* answer to that very call.  A call that ends without an answer may have  *)
(* been executed, or may still be.  Identifiers, pipes, the child process  *)
(* and its restarts are all invisible at this level.                       *)
(***************************************************************************)
EXTENDS Integers, Sequences

CONSTANTS
  Answers,   \* how the server may answer
  Failures   \* how a call may end without an answer

VARIABLES
  calls,     \* how each call ended, "open" while it has not
  answered   \* the answer the server gave to each call it executed

vars == <<calls, answered>>

Init == calls = <<>> /\ answered = <<>>

Call ==
  /\ calls' = Append(calls, "open")
  /\ answered' = Append(answered, "none")

Execute(k) ==
  /\ answered[k] = "none"
  /\ \E a \in Answers : answered' = [answered EXCEPT ![k] = a]
  /\ UNCHANGED calls

Return(k) ==
  /\ calls[k] = "open" /\ answered[k] # "none"
  /\ calls' = [calls EXCEPT ![k] = answered[k]]
  /\ UNCHANGED answered

Fail(k) ==
  /\ calls[k] = "open"
  /\ \E f \in Failures : calls' = [calls EXCEPT ![k] = f]
  /\ UNCHANGED answered

Next == Call \/ \E k \in DOMAIN calls : Execute(k) \/ Return(k) \/ Fail(k)

Spec == Init /\ [][Next]_vars
==============================================================================
