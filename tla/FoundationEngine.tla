-------------------------- MODULE FoundationEngine --------------------------
(***************************************************************************)
(* The foundation worker engine: executeAction (worker/engine.js) over one *)
(* InMemoryFoundationStore.  Every call runs on the event loop of the same *)
(* process; calls interleave at each await, and only there.  Nothing in    *)
(* the engine excludes two calls with one idempotency key from running at  *)
(* the same time; Concurrency is the number of calls the callers keep in   *)
(* flight (1: a caller that awaits each call before the next).             *)
(*                                                                         *)
(* A call creates at most one operation and one step; both are named by    *)
(* the call.  A result is named by the call whose run produced it.         *)
(***************************************************************************)
EXTENDS Integers, FiniteSets

CONSTANTS
  Calls,       \* calls of executeAction; also operation, step and result ids
  Keys,        \* idempotency keys
  KeyOf,       \* action.idempotencyKey(validInput) of each call
  Outcomes,    \* how precondition and run of each call may end
  MaxAttempts, \* retryPolicy.max_attempts
  NoResult,
  Concurrency  \* bound: calls in flight

ASSUME EngineAssumption ==
  /\ IsFiniteSet(Calls)
  /\ KeyOf \in [Calls -> Keys]
  /\ Outcomes \in [Calls -> SUBSET {"ok", "refused", "unready", "retryable", "error"}]
  /\ MaxAttempts \in Nat \ {0}
  /\ NoResult \notin Calls
  /\ Concurrency \in Nat \ {0}

VARIABLES
  pc,        \* per call: the next await of executeAction
  operation, \* per call: status and attempt of the operation it created
  step,      \* per call: status of the step it created
  record,    \* per key: the result of the idempotency record
  answer     \* per call: the result returned to the caller

vars == <<pc, operation, step, record, answer>>

NoOperation == [status |-> "none", attempt |-> 0]
InFlight == {c \in Calls : pc[c] \notin {"call", "returned", "threw"}}
Goto(c, next) == pc' = [pc EXCEPT ![c] = next]
SetStatus(c, s) == operation' = [operation EXCEPT ![c].status = s]

Init ==
  /\ pc = [c \in Calls |-> "call"]
  /\ operation = [c \in Calls |-> NoOperation]
  /\ step = [c \in Calls |-> "none"]
  /\ record = [k \in Keys |-> NoResult]
  /\ answer = [c \in Calls |-> NoResult]

\* validateActionDefinition and inputSchema.parse, then the await of L26.
Begin(c) ==
  /\ pc[c] = "call"
  /\ Cardinality(InFlight) < Concurrency
  /\ Goto(c, "lookup")
  /\ UNCHANGED <<operation, step, record, answer>>

\* The engine with the lookup of L26-30 dropped.
LookupAlwaysMisses(c) ==
  /\ pc[c] = "lookup"
  /\ Goto(c, "create")
  /\ UNCHANGED <<operation, step, record, answer>>

\* expires_at is never compared: a record answers for ever.
Lookup(c) ==
  /\ pc[c] = "lookup"
  /\ IF record[KeyOf[c]] # NoResult
       THEN /\ Goto(c, "returned")
            /\ answer' = [answer EXCEPT ![c] = record[KeyOf[c]]]
       ELSE /\ Goto(c, "create")
            /\ UNCHANGED answer
  /\ UNCHANGED <<operation, step, record>>

CreateOperation(c) ==
  /\ pc[c] = "create"
  /\ operation' = [operation EXCEPT ![c] = [status |-> "pending", attempt |-> 1]]
  /\ Goto(c, "create_step")
  /\ UNCHANGED <<step, record, answer>>

CreateStep(c) ==
  /\ pc[c] = "create_step"
  /\ step' = [step EXCEPT ![c] = "running"]
  /\ Goto(c, "precondition")
  /\ UNCHANGED <<operation, record, answer>>

\* A refusal is an error that is not retryable of itself; but the policy may
\* name it, and a precondition may throw an error of its own: "unready" is a
\* precondition that ends with an error isRetryableError calls retryable.
Precondition(c) ==
  /\ pc[c] = "precondition"
  /\ \/ "refused" \in Outcomes[c] /\ Goto(c, "fail_step_final")
     \/ "unready" \in Outcomes[c] /\ Goto(c, "fail_step_retry")
     \/ Outcomes[c] \ {"refused", "unready"} # {} /\ Goto(c, "process")
  /\ UNCHANGED <<operation, step, record, answer>>

Process(c) ==
  /\ pc[c] = "process"
  /\ SetStatus(c, "processing")
  /\ Goto(c, "run")
  /\ UNCHANGED <<step, record, answer>>

\* action.run: isRetryableError tells which errors are retryable.
Run(c) ==
  /\ pc[c] = "run"
  /\ \/ "ok" \in Outcomes[c] /\ Goto(c, "step_success")
     \/ "retryable" \in Outcomes[c] /\ Goto(c, "fail_step_retry")
     \/ "error" \in Outcomes[c] /\ Goto(c, "fail_step_final")
  /\ UNCHANGED <<operation, step, record, answer>>

StepSuccess(c) ==
  /\ pc[c] = "step_success"
  /\ step' = [step EXCEPT ![c] = "success"]
  /\ Goto(c, "succeed")
  /\ UNCHANGED <<operation, record, answer>>

Succeed(c) ==
  /\ pc[c] = "succeed"
  /\ SetStatus(c, "success")
  /\ Goto(c, "save")
  /\ UNCHANGED <<step, record, answer>>

\* The result is saved before the operation is a success.
SaveEarly(c) ==
  /\ pc[c] \in {"step_success", "save"}
  /\ record' = [record EXCEPT ![KeyOf[c]] = c]
  /\ IF pc[c] = "save"
       THEN Goto(c, "returned") /\ answer' = [answer EXCEPT ![c] = c]
       ELSE Goto(c, "step_success") /\ UNCHANGED answer
  /\ UNCHANGED <<operation, step>>

\* Map.set: a record of another call is overwritten.
SaveRecord(c) ==
  /\ pc[c] = "save"
  /\ record' = [record EXCEPT ![KeyOf[c]] = c]
  /\ answer' = [answer EXCEPT ![c] = c]
  /\ Goto(c, "returned")
  /\ UNCHANGED <<operation, step>>

FailStep(c) ==
  /\ pc[c] \in {"fail_step_retry", "fail_step_final"}
  /\ step' = [step EXCEPT ![c] = "failed"]
  /\ Goto(c, IF pc[c] = "fail_step_retry" THEN "fail_retry" ELSE "fail_final")
  /\ UNCHANGED <<operation, record, answer>>

\* Every failure is counted, the last one too.
FailCounted(c) ==
  /\ pc[c] \in {"fail_retry", "fail_final"}
  /\ operation' = [operation EXCEPT ![c].status = "failed", ![c].attempt = @ + MaxAttempts]
  /\ Goto(c, "threw")
  /\ UNCHANGED <<step, record, answer>>

\* pending again while attempts are left; nothing ever increments attempt.
Fail(c) ==
  /\ pc[c] \in {"fail_retry", "fail_final"}
  /\ SetStatus(c, IF pc[c] = "fail_retry" /\ operation[c].attempt < MaxAttempts
                  THEN "pending" ELSE "failed")
  /\ Goto(c, "threw")
  /\ UNCHANGED <<step, record, answer>>

Step(c) ==
  \/ Lookup(c) \/ CreateOperation(c) \/ CreateStep(c) \/ Precondition(c)
  \/ Process(c) \/ Run(c) \/ StepSuccess(c) \/ Succeed(c) \/ SaveRecord(c)
  \/ FailStep(c) \/ Fail(c)

Next == \E c \in Calls : Begin(c) \/ Step(c)

Spec == Init /\ [][Next]_vars

(***************************************************************************)
(* Properties.                                                             *)
(***************************************************************************)
Pcs == {"call", "lookup", "create", "create_step", "precondition", "process",
        "run", "step_success", "succeed", "save", "fail_step_retry",
        "fail_step_final", "fail_retry", "fail_final", "returned", "threw"}

\* Every variable keeps its type.
EngineTypeOK ==
  /\ pc \in [Calls -> Pcs]
  /\ operation \in [Calls -> [status : {"none", "pending", "processing", "success", "failed"},
                              attempt : 0..MaxAttempts]]
  /\ step \in [Calls -> {"none", "running", "success", "failed"}]
  /\ record \in [Keys -> Calls \cup {NoResult}]
  /\ answer \in [Calls -> Calls \cup {NoResult}]

Succeeded(k) == {c \in Calls : KeyOf[c] = k /\ operation[c].status = "success"}
Failed(k) == {c \in Calls : KeyOf[c] = k /\ pc[c] = "threw"}
OperationsOf(k) == {c \in Calls : KeyOf[c] = k /\ operation[c].status # "none"}

\* What the key is worth: the action of a key succeeds at most once per call
\* that was in flight together with the first success (executeAction looks up
\* at L26 and saves at L65; whoever looked up before runs anyway).
RunsWithinConcurrency ==
  \A k \in Keys : Cardinality(Succeeded(k)) <= Concurrency

\* A key has no more operations than failed calls and calls that may overlap:
\* a retry creates an operation of its own, a repetition of a success does not.
OperationsAccountedFor ==
  \A k \in Keys :
    Cardinality(OperationsOf(k)) <= Cardinality(Failed(k)) + Concurrency

\* An answer, stored or fresh, is the result of a successful operation of the
\* same key, whose step succeeded too: a caller never gets the result of an
\* operation that failed or is still unfinished.
AnswersAreSuccesses ==
  \A c \in Calls : answer[c] # NoResult =>
    /\ answer[c] \in Succeeded(KeyOf[c])
    /\ step[answer[c]] = "success"

\* docs/foundation/phase-0.md:55: the second execution with the same
\* idempotency key does not create a second operation.
OneOperationPerKey ==
  \A k \in Keys : Cardinality(OperationsOf(k)) <= 1
=============================================================================
