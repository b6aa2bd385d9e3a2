----------------------------- MODULE OrderedCalls -----------------------------
(* What the daemon may expect of a call to the device: it ends, in success *)
(* only if the device has carried it out, and nothing the device does      *)
(* later undoes that.  A call that failed may still be carried out, but    *)
(* never after a later one: calls take effect at most once and in order.   *)
EXTENDS Naturals

VARIABLES
  calls,   \* number of calls so far
  busy,    \* is the last of them in progress?
  done,    \* the call carried out last, 0 if none
  result   \* TRUE if the last call that ended succeeded

vars == <<calls, busy, done, result>>

Init == calls = 0 /\ busy = FALSE /\ done = 0 /\ result = FALSE

Start == ~busy /\ busy' = TRUE /\ calls' = calls + 1 /\ UNCHANGED <<done, result>>

\* A call that fails before anything is sent.
Refuse == ~busy /\ calls' = calls + 1 /\ result' = FALSE /\ UNCHANGED <<busy, done>>

Execute ==
  \E c \in done + 1 .. calls : done' = c /\ UNCHANGED <<calls, busy, result>>

Succeed ==
  busy /\ done = calls /\ busy' = FALSE /\ result' = TRUE /\ UNCHANGED <<calls, done>>

Fail == busy /\ busy' = FALSE /\ result' = FALSE /\ UNCHANGED <<calls, done>>

Next == Start \/ Refuse \/ Execute \/ Succeed \/ Fail

Spec == Init /\ [][Next]_vars
=============================================================================
