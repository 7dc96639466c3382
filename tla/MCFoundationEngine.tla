------------------------- MODULE MCFoundationEngine -------------------------
(***************************************************************************)
(* Small instances of FoundationEngine: calls of one key with the outcomes *)
(* of an enrolment (precondition refused or not ready yet, temporary       *)
(* provider error, other error, success), and one call of another key.     *)
(***************************************************************************)
EXTENDS FoundationEngine, TLC

CONSTANTS c1, c2, c3, c4

MCCalls == {c1, c2, c3, c4}
MCKeys == {"enroll", "other"}
MCKeyOf == [c \in MCCalls |-> IF c = c4 THEN "other" ELSE "enroll"]
AnyOutcome == [c \in MCCalls |-> {"ok", "refused", "unready", "retryable", "error"}]
OnlyOk == [c \in MCCalls |-> {"ok"}]

Symmetry == Permutations({c1, c2, c3})
=============================================================================
