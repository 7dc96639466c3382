------------------------- MODULE IdempotentActions -------------------------
(***************************************************************************)
(* What the idempotency keys of worker actions promise, without queues,    *)
(* rows or processes: an action may run again and again while its result   *)
(* is not stored, at most one result is stored per key, and from then on   *)
(* the stored result answers and the action does not run.                  *)
(***************************************************************************)
EXTENDS Integers

CONSTANT Keys

VARIABLES
  recorded, \* keys whose result is stored
  runs      \* how often the action of each key returned a result

Init ==
  /\ recorded = {}
  /\ runs = [k \in Keys |-> 0]

Run(k) ==
  /\ k \notin recorded
  /\ runs' = [runs EXCEPT ![k] = @ + 1]
  /\ UNCHANGED recorded

Store(k) ==
  /\ runs[k] > 0
  /\ recorded' = recorded \cup {k}
  /\ UNCHANGED runs

Next == \E k \in Keys : Run(k) \/ Store(k)

Spec == Init /\ [][Next]_<<recorded, runs>>
=============================================================================
