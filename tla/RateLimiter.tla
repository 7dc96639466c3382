----------------------------- MODULE RateLimiter -----------------------------
(***************************************************************************)
(* The fixed window rate limiter of middleware/securityPolicies.js:        *)
(* MemoryRateLimitStore.increment and the decision of                      *)
(* createRateLimitMiddleware.  Both are synchronous up to the answer of    *)
(* the store, so that a request is counted and judged in one step.         *)
(***************************************************************************)
EXTENDS Clock, Integers, Sequences

CONSTANTS
  Keys,    \* what requests are counted by
  Max,     \* requests of a key that a window admits
  Window   \* windowMs

ASSUME LimiterAssumption ==
  /\ Window \in Nat \ {0}
  /\ Max \in [Keys -> Nat \ {0}]

VARIABLES
  buckets,  \* the store: a count and when it is reset; resetAt 0 for no bucket
  log       \* history: the admitted requests, with the start of their window

limiterVars == <<now, buckets, log>>

InitLimiter ==
  /\ now = 0
  /\ buckets = [k \in Keys |-> [count |-> 0, resetAt |-> 0]]
  /\ log = [k \in Keys |-> <<>>]

-----------------------------------------------------------------------------
(* A window ends in its last tick.                                         *)
IncrementedEarly(k) ==
  IF buckets[k].resetAt <= now + 1
  THEN [count |-> 1, resetAt |-> now + Window]
  ELSE [buckets[k] EXCEPT !.count = @ + 1]

Incremented(k) ==
  IF buckets[k].resetAt <= now
  THEN [count |-> 1, resetAt |-> now + Window]
  ELSE [buckets[k] EXCEPT !.count = @ + 1]

Admits(k) == Incremented(k).count <= Max[k]

Limit(k) ==
  /\ buckets' = [buckets EXCEPT ![k] = Incremented(k)]
  /\ log' = IF Admits(k)
            THEN [log EXCEPT ![k] = Append(@, [at |-> now, start |-> Incremented(k).resetAt - Window])]
            ELSE log

LimiterStep == \E k \in Keys : Limit(k) /\ UNCHANGED now

TimePasses == now' = now + 1 /\ UNCHANGED <<buckets, log>>

LimiterNext == LimiterStep \/ TimePasses

LimiterSpec == InitLimiter /\ [][LimiterNext]_limiterVars

-----------------------------------------------------------------------------
(* Properties.                                                             *)

LimiterTypeOK ==
  /\ now \in Nat
  /\ buckets \in [Keys -> [count : Nat, resetAt : Nat]]
  /\ log \in [Keys -> Seq([at : Nat, start : Nat])]

(* Fixed windows admit more than their maximum in an interval that is not  *)
(* one of theirs, but never twice as many: of any 2 * Max admissions in a  *)
(* row the last comes at least a window after the first.  The first        *)
(* request of a window starts it, hence not even 2 * Max in one interval.  *)
AdmissionIsBounded ==
  \A k \in Keys : \A i \in 1..Len(log[k]) :
    i + 2 * Max[k] - 1 <= Len(log[k]) => log[k][i + 2 * Max[k] - 1].at >= log[k][i].at + Window

(* Nobody is refused before his key has had its maximum in the window that *)
(* is still running.                                                       *)
RefusalIsDeserved ==
  \A k \in Keys :
    buckets[k].count > Max[k] =>
      /\ Len(log[k]) >= Max[k]
      /\ \A i \in Len(log[k]) - Max[k] + 1 .. Len(log[k]) :
           log[k][i].at \in buckets[k].resetAt - Window .. buckets[k].resetAt - 1

(* What a limit of Max requests in a window is worth, to the server and to *)
(* its callers.                                                            *)
LimitHolds == AdmissionIsBounded /\ RefusalIsDeserved
=============================================================================
