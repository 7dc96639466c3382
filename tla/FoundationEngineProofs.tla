----------------------- MODULE FoundationEngineProofs -----------------------
(***************************************************************************)
(* The properties of FoundationEngine for every set of calls and keys and  *)
(* every number of calls in flight.                                        *)
(*                                                                         *)
(* The inductive invariant has two layers.  Basic says, call by call, what *)
(* the position in executeAction tells about operation, step, record and   *)
(* answer.  Counted bounds the calls that can still add to a key: before   *)
(* the first result is saved, every success of the key is still in flight; *)
(* once it is saved, the successes and the calls already past the lookup   *)
(* were all in flight at that moment, and nobody joins them.               *)
(***************************************************************************)
EXTENDS FoundationEngine, FiniteSetTheorems, TLAPS

\* Calls of a key that are past a lookup that missed and have not ended.
Active(k) ==
  {c \in Calls : KeyOf[c] = k /\ pc[c] \notin {"call", "lookup", "returned", "threw"}}

CallFacts ==
  \A c \in Calls :
    /\ pc[c] \in {"call", "lookup", "create"} => operation[c].status = "none"
    /\ pc[c] = "returned" => operation[c].status \in {"none", "success"}
    /\ operation[c].status = "success" => pc[c] \in {"save", "returned"} /\ step[c] = "success"
    /\ pc[c] = "succeed" => step[c] = "success"
    /\ pc[c] = "save" => operation[c].status = "success"

RecordFacts ==
  \A k \in Keys : record[k] # NoResult => record[k] \in Succeeded(k)

AnswerFacts ==
  \A c \in Calls : answer[c] # NoResult => answer[c] \in Succeeded(KeyOf[c])

Basic == EngineTypeOK /\ CallFacts /\ RecordFacts /\ AnswerFacts

Counted ==
  /\ Cardinality(InFlight) <= Concurrency
  /\ \A k \in Keys :
       /\ record[k] = NoResult => Succeeded(k) \subseteq InFlight
       /\ record[k] # NoResult => Cardinality(Succeeded(k) \cup Active(k)) <= Concurrency

IInv == Basic /\ Counted

\* The names of the actions, for the case split of every step.
LEMMA StepCases ==
  ASSUME NEW c \in Calls, Step(c)
  PROVE  \/ Lookup(c) \/ CreateOperation(c) \/ CreateStep(c) \/ Precondition(c)
         \/ Process(c) \/ Run(c) \/ StepSuccess(c) \/ Succeed(c) \/ SaveRecord(c)
         \/ FailStep(c) \/ Fail(c)
BY DEF Step

\* A subset of a finite set of bounded size is bounded by the same number.
LEMMA SubsetBound ==
  ASSUME NEW T, IsFiniteSet(T), NEW S \in SUBSET T, NEW n \in Nat,
         Cardinality(T) <= n
  PROVE  Cardinality(S) <= n
BY FS_Subset, FS_CardinalityType

LEMMA BasicInit == Init => Basic
BY EngineAssumption
   DEF Init, Basic, EngineTypeOK, CallFacts, RecordFacts, AnswerFacts, NoOperation, Pcs

LEMMA BasicStep ==
  ASSUME Basic, [Next]_vars
  PROVE  Basic'
<1> USE EngineAssumption DEF EngineTypeOK, Pcs, Goto, SetStatus
<1>1. ASSUME NEW c \in Calls, Begin(c) PROVE Basic'
  BY <1>1 DEF Begin, Basic, CallFacts, RecordFacts, AnswerFacts, Succeeded
<1>2. ASSUME NEW c \in Calls, Lookup(c) PROVE Basic'
  <2>1. pc' \in [Calls -> Pcs] /\ UNCHANGED <<operation, step, record>>
    BY <1>2 DEF Lookup, Basic
  <2>2. answer' = answer \/ answer' = [answer EXCEPT ![c] = record[KeyOf[c]]]
    BY <1>2 DEF Lookup
  <2>3. record[KeyOf[c]] \in Calls \cup {NoResult}
    BY DEF Basic
  <2>4. EngineTypeOK'
    BY <2>1, <2>2, <2>3 DEF Basic
  <2>5. CallFacts'
    BY <1>2, <2>1 DEF Lookup, Basic, CallFacts
  <2>6. RecordFacts'
    BY <2>1 DEF Basic, RecordFacts, Succeeded
  <2>7. AnswerFacts'
    BY <2>1, <2>2, <2>3 DEF Basic, RecordFacts, AnswerFacts, Succeeded
  <2> QED
    BY <2>4, <2>5, <2>6, <2>7 DEF Basic
<1>3. ASSUME NEW c \in Calls, CreateOperation(c) PROVE Basic'
  BY <1>3 DEF CreateOperation, Basic, CallFacts, RecordFacts, AnswerFacts, Succeeded
<1>4. ASSUME NEW c \in Calls, CreateStep(c) PROVE Basic'
  BY <1>4 DEF CreateStep, Basic, CallFacts, RecordFacts, AnswerFacts, Succeeded
<1>5. ASSUME NEW c \in Calls, Precondition(c) PROVE Basic'
  <2>1. pc' \in [Calls -> Pcs] /\ UNCHANGED <<operation, step, record, answer>>
    BY <1>5 DEF Precondition, Basic
  <2>2. EngineTypeOK'
    BY <2>1 DEF Basic
  <2>3. CallFacts'
    BY <1>5, <2>1 DEF Precondition, Basic, CallFacts
  <2>4. RecordFacts'
    BY <2>1 DEF Basic, RecordFacts, Succeeded
  <2>5. AnswerFacts'
    BY <1>5, <2>1 DEF Precondition, Basic, RecordFacts, AnswerFacts, Succeeded
  <2> QED
    BY <2>2, <2>3, <2>4, <2>5 DEF Basic
<1>6. ASSUME NEW c \in Calls, Process(c) PROVE Basic'
  BY <1>6 DEF Process, Basic, CallFacts, RecordFacts, AnswerFacts, Succeeded
<1>7. ASSUME NEW c \in Calls, Run(c) PROVE Basic'
  BY <1>7 DEF Run, Basic, CallFacts, RecordFacts, AnswerFacts, Succeeded
<1>8. ASSUME NEW c \in Calls, StepSuccess(c) PROVE Basic'
  BY <1>8 DEF StepSuccess, Basic, CallFacts, RecordFacts, AnswerFacts, Succeeded
<1>9. ASSUME NEW c \in Calls, Succeed(c) PROVE Basic'
  BY <1>9 DEF Succeed, Basic, CallFacts, RecordFacts, AnswerFacts, Succeeded
<1>10. ASSUME NEW c \in Calls, SaveRecord(c) PROVE Basic'
  BY <1>10 DEF SaveRecord, Basic, CallFacts, RecordFacts, AnswerFacts, Succeeded
<1>11. ASSUME NEW c \in Calls, FailStep(c) PROVE Basic'
  BY <1>11 DEF FailStep, Basic, CallFacts, RecordFacts, AnswerFacts, Succeeded
<1>12. ASSUME NEW c \in Calls, Fail(c) PROVE Basic'
  BY <1>12 DEF Fail, Basic, CallFacts, RecordFacts, AnswerFacts, Succeeded
<1>13. CASE UNCHANGED vars
  BY <1>13 DEF vars, Basic, CallFacts, RecordFacts, AnswerFacts, Succeeded
<1> QED
  BY <1>1, <1>2, <1>3, <1>4, <1>5, <1>6, <1>7, <1>8, <1>9, <1>10, <1>11, <1>12, <1>13,
     StepCases DEF Next

-----------------------------------------------------------------------------
LEMMA CountedInit == ASSUME Init PROVE Counted
<1>1. InFlight = {}
  BY DEF Init, InFlight
<1>2. \A k \in Keys : Succeeded(k) = {} /\ record[k] = NoResult
  BY DEF Init, Succeeded, NoOperation
<1> QED
  BY <1>1, <1>2, FS_EmptySet, EngineAssumption DEF Counted

\* What any step of a call does to the sets that are counted.
LEMMA StepShrinks ==
  ASSUME Basic, NEW c \in Calls, Step(c)
  PROVE  /\ InFlight' \subseteq InFlight
         /\ \A k \in Keys :
              /\ record[k] # NoResult =>
                   /\ record'[k] # NoResult
                   /\ (Succeeded(k) \cup Active(k))' \subseteq Succeeded(k) \cup Active(k)
              /\ record[k] = NoResult /\ record'[k] = NoResult
                   /\ Succeeded(k) \subseteq InFlight
                   => Succeeded(k)' \subseteq InFlight'
              /\ record[k] = NoResult /\ record'[k] # NoResult
                   /\ Succeeded(k) \subseteq InFlight
                   => (Succeeded(k) \cup Active(k))' \subseteq InFlight
<1> USE EngineAssumption DEF Basic, EngineTypeOK, CallFacts, Pcs, Goto, SetStatus,
        InFlight, Succeeded, Active
<1>1. CASE Lookup(c) BY <1>1 DEF Lookup
<1>2. CASE CreateOperation(c) BY <1>2 DEF CreateOperation
<1>3. CASE CreateStep(c) BY <1>3 DEF CreateStep
<1>4. CASE Precondition(c) BY <1>4 DEF Precondition
<1>5. CASE Process(c) BY <1>5 DEF Process
<1>6. CASE Run(c) BY <1>6 DEF Run
<1>7. CASE StepSuccess(c) BY <1>7 DEF StepSuccess
<1>8. CASE Succeed(c) BY <1>8 DEF Succeed
<1>9. CASE SaveRecord(c) BY <1>9 DEF SaveRecord
<1>10. CASE FailStep(c) BY <1>10 DEF FailStep
<1>11. CASE Fail(c) BY <1>11 DEF Fail
<1> QED
  BY <1>1, <1>2, <1>3, <1>4, <1>5, <1>6, <1>7, <1>8, <1>9, <1>10, <1>11, StepCases

LEMMA CountedStep ==
  ASSUME Basic, Counted, [Next]_vars
  PROVE  Counted'
<1>0. /\ IsFiniteSet(InFlight)
      /\ \A k \in Keys : IsFiniteSet(Succeeded(k) \cup Active(k))
  BY EngineAssumption, FS_Subset DEF InFlight, Succeeded, Active
<1>1. ASSUME NEW c \in Calls, Begin(c) PROVE Counted'
  <2>1. InFlight' = InFlight \cup {c} /\ c \notin InFlight
    BY <1>1 DEF Begin, Goto, InFlight, Basic, EngineTypeOK
  <2>2. Cardinality(InFlight') <= Concurrency
    <3>1. Cardinality(InFlight \cup {c}) = Cardinality(InFlight) + 1
      BY <1>0, <2>1, FS_AddElement
    <3> QED
      BY <1>0, <1>1, <2>1, <3>1, FS_CardinalityType, EngineAssumption DEF Begin
  <2>3. record' = record /\ \A k \in Keys : Succeeded(k)' = Succeeded(k) /\ Active(k)' = Active(k)
    BY <1>1 DEF Begin, Goto, Succeeded, Active, Basic, EngineTypeOK
  <2> QED
    BY <2>1, <2>2, <2>3 DEF Counted
<1>2. ASSUME NEW c \in Calls, Step(c) PROVE Counted'
  <2>1. Cardinality(InFlight') <= Concurrency
    BY <1>0, <1>2, StepShrinks, SubsetBound, EngineAssumption DEF Counted
  <2>2. ASSUME NEW k \in Keys, record'[k] = NoResult
        PROVE  Succeeded(k)' \subseteq InFlight'
    BY <1>2, <2>2, StepShrinks DEF Counted
  <2>3. ASSUME NEW k \in Keys, record'[k] # NoResult
        PROVE  Cardinality((Succeeded(k) \cup Active(k))') <= Concurrency
    <3>1. CASE record[k] = NoResult
      <4>1. (Succeeded(k) \cup Active(k))' \subseteq InFlight
        BY <1>2, <2>3, <3>1, StepShrinks DEF Counted
      <4> QED
        BY <4>1, <1>0, SubsetBound, EngineAssumption DEF Counted
    <3>2. CASE record[k] # NoResult
      <4>1. (Succeeded(k) \cup Active(k))' \subseteq Succeeded(k) \cup Active(k)
        BY <1>2, <3>2, StepShrinks
      <4> QED
        BY <4>1, <3>2, <1>0, SubsetBound, EngineAssumption DEF Counted
    <3> QED
      BY <3>1, <3>2
  <2> QED
    BY <2>1, <2>2, <2>3 DEF Counted
<1>3. CASE UNCHANGED vars
  BY <1>3 DEF vars, Counted, InFlight, Succeeded, Active
<1> QED
  BY <1>1, <1>2, <1>3 DEF Next

LEMMA EngineInvariant == Spec => []IInv
<1>1. Init => IInv
  BY BasicInit, CountedInit DEF IInv
<1>2. IInv /\ [Next]_vars => IInv'
  BY BasicStep, CountedStep DEF IInv
<1> QED
  BY <1>1, <1>2, PTL DEF Spec

-----------------------------------------------------------------------------
\* Type correctness of the engine's store and calls.
THEOREM EngineTypeCorrect == Spec => []EngineTypeOK
<1>1. IInv => EngineTypeOK
  BY DEF IInv, Basic
<1> QED
  BY <1>1, EngineInvariant, PTL

\* Every answer of executeAction, fresh or stored, is the result of a
\* successful operation with the same key.
THEOREM AnswersCorrect == Spec => []AnswersAreSuccesses
<1>1. IInv => AnswersAreSuccesses
  BY DEF IInv, Basic, EngineTypeOK, CallFacts, AnswerFacts, AnswersAreSuccesses, Succeeded
<1> QED
  BY <1>1, EngineInvariant, PTL

\* The action of a key succeeds at most as often as calls overlap, for any
\* number of calls.
THEOREM RunsBounded == Spec => []RunsWithinConcurrency
<1>1. ASSUME IInv, NEW k \in Keys
      PROVE  Cardinality(Succeeded(k)) <= Concurrency
  <2>1. IsFiniteSet(InFlight) /\ IsFiniteSet(Succeeded(k) \cup Active(k))
    BY EngineAssumption, FS_Subset DEF InFlight, Succeeded, Active
  <2>2. CASE record[k] = NoResult
    BY <1>1, <2>1, <2>2, SubsetBound, EngineAssumption DEF IInv, Counted
  <2>3. CASE record[k] # NoResult
    BY <1>1, <2>1, <2>3, SubsetBound, EngineAssumption DEF IInv, Counted
  <2> QED
    BY <2>2, <2>3
<1>2. IInv => RunsWithinConcurrency
  BY <1>1 DEF RunsWithinConcurrency
<1> QED
  BY <1>2, EngineInvariant, PTL

\* A key has at most as many operations as failed calls and overlapping ones.
THEOREM OperationsBounded == Spec => []OperationsAccountedFor
<1>1. ASSUME IInv, NEW k \in Keys
      PROVE  Cardinality(OperationsOf(k)) <= Cardinality(Failed(k)) + Concurrency
  <2> DEFINE Rest == Succeeded(k) \cup Active(k)
  <2>1. /\ IsFiniteSet(InFlight) /\ IsFiniteSet(Rest) /\ IsFiniteSet(Failed(k))
        /\ IsFiniteSet(Failed(k) \cup Rest)
    BY EngineAssumption, FS_Subset DEF InFlight, Succeeded, Active, Failed
  <2>2. OperationsOf(k) \subseteq Failed(k) \cup Rest
    BY <1>1 DEF IInv, Basic, EngineTypeOK, CallFacts, OperationsOf, Failed, Succeeded, Active, Pcs
  <2>3. Active(k) \subseteq InFlight
    BY DEF Active, InFlight
  <2>4. Cardinality(Rest) <= Concurrency
    <3>1. CASE record[k] = NoResult
      <4>1. Rest \subseteq InFlight
        BY <1>1, <2>3, <3>1 DEF IInv, Counted
      <4> QED
        BY <1>1, <2>1, <4>1, SubsetBound, EngineAssumption DEF IInv, Counted
    <3>2. CASE record[k] # NoResult
      BY <1>1, <3>2 DEF IInv, Counted
    <3> QED
      BY <3>1, <3>2
  <2>5. Cardinality(Failed(k) \cup Rest) <= Cardinality(Failed(k)) + Cardinality(Rest)
    <3> HIDE DEF Rest
    <3>1. /\ Cardinality(Failed(k) \cup Rest)
               = Cardinality(Failed(k)) + Cardinality(Rest) - Cardinality(Failed(k) \cap Rest)
          /\ Cardinality(Failed(k)) \in Nat /\ Cardinality(Rest) \in Nat
          /\ Cardinality(Failed(k) \cap Rest) \in Nat
      BY <2>1, FS_Union, FS_CardinalityType, FS_Intersection
    <3> QED
      BY <3>1
  <2>6. Cardinality(OperationsOf(k)) <= Cardinality(Failed(k) \cup Rest)
    BY <2>1, <2>2, FS_Subset
  <2>7. /\ Cardinality(OperationsOf(k)) \in Nat
        /\ Cardinality(Failed(k) \cup Rest) \in Nat
        /\ Cardinality(Failed(k)) \in Nat /\ Cardinality(Rest) \in Nat
    BY <2>1, <2>2, FS_Subset, FS_CardinalityType
  <2> HIDE DEF Rest
  <2> QED
    BY <2>4, <2>5, <2>6, <2>7, EngineAssumption
<1>2. IInv => OperationsAccountedFor
  BY <1>1 DEF OperationsAccountedFor
<1> QED
  BY <1>2, EngineInvariant, PTL

-----------------------------------------------------------------------------
(***************************************************************************)
(* What a caller gets who awaits each call before the next.                *)
(***************************************************************************)

\* If no two calls overlap and none fails, the second execution with a key
\* does not create a second operation: what docs/foundation/phase-0.md:55 says
\* of the engine is true of such callers (and, as a run shows, of no others).
THEOREM AwaitedCallsCreateOnce ==
  ASSUME Concurrency = 1, \A c \in Calls : Outcomes[c] \subseteq {"ok"}
  PROVE  Spec => []OneOperationPerKey
<1> DEFINE Good == \A c \in Calls :
             pc[c] \notin {"fail_step_retry", "fail_step_final", "fail_retry",
                           "fail_final", "threw"}
<1>1. Init => Good
  BY DEF Init
<1>2. ASSUME EngineTypeOK, Good, [Next]_vars
      PROVE  Good'
  <2> USE DEF EngineTypeOK, Goto
  <2>1. ASSUME NEW c \in Calls, Begin(c) PROVE Good'
    BY <1>2, <2>1 DEF Begin
  <2>2. ASSUME NEW c \in Calls, Step(c) PROVE Good'
    <3>1. CASE Precondition(c)
      BY <1>2, <3>1 DEF Precondition
    <3>2. CASE Run(c)
      BY <1>2, <3>2 DEF Run
    <3>3. CASE ~(Precondition(c) \/ Run(c))
      BY <1>2, <2>2, <3>3, StepCases
         DEF Lookup, CreateOperation, CreateStep, Process, StepSuccess, Succeed,
             SaveRecord, FailStep, Fail
    <3> QED
      BY <3>1, <3>2, <3>3
  <2>3. CASE UNCHANGED vars
    BY <1>2, <2>3 DEF vars
  <2> QED
    BY <1>2, <2>1, <2>2, <2>3 DEF Next
<1>3. ASSUME Good, OperationsAccountedFor
      PROVE  OneOperationPerKey
  <2> SUFFICES ASSUME NEW k \in Keys
               PROVE  Cardinality(OperationsOf(k)) <= 1
    BY DEF OneOperationPerKey
  <2>1. Failed(k) = {}
    BY <1>3 DEF Failed
  <2> QED
    BY <1>3, <2>1, FS_EmptySet DEF OperationsAccountedFor
<1> HIDE DEF Good
<1> QED
  BY <1>1, <1>2, <1>3, EngineTypeCorrect, OperationsBounded, PTL DEF Spec

\* Calls of a key whose action has returned a result.
Ran(k) ==
  {c \in Calls : /\ KeyOf[c] = k
                 /\ pc[c] \in {"step_success", "succeed", "save"}
                      \/ operation[c].status = "success"}

Promise == INSTANCE IdempotentActions WITH
  recorded <- {k \in Keys : record[k] # NoResult},
  runs <- [k \in Keys |-> Cardinality(Ran(k))]

\* The keys' promise: an action whose result is stored does not run again.
KeepsPromise == Promise!Spec

LEMMA PromiseInit == ASSUME Init PROVE Promise!Init
<1>1. \A k \in Keys : Ran(k) = {} /\ record[k] = NoResult
  BY DEF Init, Ran, NoOperation
<1> QED
  BY <1>1, FS_EmptySet DEF Promise!Init

\* A call that runs alone finds no result of its key.
LEMMA AloneMeansUnrecorded ==
  ASSUME Concurrency = 1, IInv, NEW c \in Calls, pc[c] = "run"
  PROVE  record[KeyOf[c]] = NoResult
<1> SUFFICES ASSUME record[KeyOf[c]] # NoResult PROVE FALSE
  OBVIOUS
<1> DEFINE k == KeyOf[c]
           d == record[k]
           S == Succeeded(k) \cup Active(k)
<1>1. k \in Keys
  BY EngineAssumption
<1>2. d \in Succeeded(k) /\ c \in Active(k)
  BY <1>1 DEF IInv, Basic, RecordFacts, Active
<1>3. d # c
  BY <1>2 DEF IInv, Basic, CallFacts, Succeeded
<1>4. IsFiniteSet(S) /\ {c, d} \subseteq S
  BY <1>2, EngineAssumption, FS_Subset DEF Succeeded, Active
<1>5. Cardinality(S) <= 1
  BY <1>1 DEF IInv, Counted
<1>6. Cardinality({c, d}) = 2
  <2>1. Cardinality({d}) = 1 /\ IsFiniteSet({d})
    BY FS_Singleton
  <2>2. {c, d} = {d} \cup {c} /\ c \notin {d}
    BY <1>3
  <2> QED
    BY <2>1, <2>2, FS_AddElement
<1>7. Cardinality({c, d}) <= Cardinality(S) /\ Cardinality(S) \in Nat
  BY <1>4, FS_Subset, FS_CardinalityType
<1> QED
  BY <1>5, <1>6, <1>7

\* What the steps of a call do to the runs that are counted.
LEMMA RanStep ==
  ASSUME IInv, NEW c \in Calls, Begin(c) \/ Step(c), NEW k \in Keys
  PROVE  \/ Ran(k)' = Ran(k)
         \/ /\ pc[c] = "run" /\ k = KeyOf[c] /\ record' = record
            /\ c \notin Ran(k) /\ Ran(k)' = Ran(k) \cup {c}
            /\ \A j \in Keys \ {k} : Ran(j)' = Ran(j)
<1> USE EngineAssumption
    DEF IInv, Basic, EngineTypeOK, CallFacts, Pcs, Goto, SetStatus, Ran
<1>1. CASE Begin(c) BY <1>1 DEF Begin
<1>2. CASE Lookup(c) BY <1>2 DEF Lookup
<1>3. CASE CreateOperation(c) BY <1>3 DEF CreateOperation
<1>4. CASE CreateStep(c) BY <1>4 DEF CreateStep
<1>5. CASE Precondition(c) BY <1>5 DEF Precondition
<1>6. CASE Process(c) BY <1>6 DEF Process
<1>7. CASE Run(c)
  <2>1. \A d \in Calls \ {c} : pc'[d] = pc[d] /\ operation' = operation
    BY <1>7 DEF Run
  <2>2. CASE pc'[c] = "step_success"
    BY <1>7, <2>1, <2>2 DEF Run
  <2>3. CASE pc'[c] # "step_success"
    BY <1>7, <2>1, <2>3 DEF Run
  <2> QED
    BY <2>2, <2>3
<1>8. CASE StepSuccess(c) BY <1>8 DEF StepSuccess
<1>9. CASE Succeed(c) BY <1>9 DEF Succeed
<1>10. CASE SaveRecord(c) BY <1>10 DEF SaveRecord
<1>11. CASE FailStep(c) BY <1>11 DEF FailStep
<1>12. CASE Fail(c) BY <1>12 DEF Fail
<1> QED
  BY <1>1, <1>2, <1>3, <1>4, <1>5, <1>6, <1>7, <1>8, <1>9, <1>10, <1>11, <1>12, StepCases

LEMMA PromiseStep ==
  ASSUME Concurrency = 1, IInv, [Next]_vars
  PROVE  Promise!Next \/ UNCHANGED <<{k \in Keys : record[k] # NoResult},
                                     [k \in Keys |-> Cardinality(Ran(k))]>>
<1> DEFINE Recorded == {k \in Keys : record[k] # NoResult}
           Runs == [k \in Keys |-> Cardinality(Ran(k))]
<1>1. ASSUME NEW c \in Calls, Begin(c) \/ Step(c)
      PROVE  Promise!Next \/ UNCHANGED <<Recorded, Runs>>
  <2>1. CASE \E k \in Keys : Ran(k)' # Ran(k)
    <3>1. PICK k \in Keys : Ran(k)' # Ran(k)
      BY <2>1
    <3>2. /\ pc[c] = "run" /\ k = KeyOf[c] /\ record' = record
          /\ c \notin Ran(k) /\ Ran(k)' = Ran(k) \cup {c}
          /\ \A j \in Keys \ {k} : Ran(j)' = Ran(j)
      BY <1>1, <3>1, RanStep
    <3>3. k \notin Recorded /\ Recorded' = Recorded
      BY <3>2, AloneMeansUnrecorded
    <3>4. IsFiniteSet(Ran(k))
      BY EngineAssumption, FS_Subset DEF Ran
    <3>5. Cardinality(Ran(k)') = Cardinality(Ran(k)) + 1
      BY <3>2, <3>4, FS_AddElement
    <3>6. Runs' = [Runs EXCEPT ![k] = @ + 1]
      BY <3>2, <3>5
    <3> QED
      BY <3>3, <3>6 DEF Promise!Next, Promise!Run
  <2>2. CASE \A k \in Keys : Ran(k)' = Ran(k)
    <3>1. Runs' = Runs
      BY <2>2
    <3>2. CASE record' = record
      BY <3>1, <3>2
    <3>3. CASE record' # record
      <4> DEFINE k == KeyOf[c]
      <4>1. SaveRecord(c)
        BY <1>1, <3>3, StepCases
           DEF Begin, Lookup, CreateOperation, CreateStep, Precondition, Process, Run,
               StepSuccess, Succeed, FailStep, Fail
      <4>2. k \in Keys /\ record' = [record EXCEPT ![k] = c] /\ pc[c] = "save"
        BY <4>1, EngineAssumption DEF SaveRecord
      <4>3. Recorded' = Recorded \cup {k}
        BY <4>2, EngineAssumption DEF IInv, Basic, EngineTypeOK
      <4>4. c \in Ran(k) /\ IsFiniteSet(Ran(k))
        BY <4>2, EngineAssumption, FS_Subset DEF Ran
      <4>5. Cardinality(Ran(k)) > 0
        BY <4>4, FS_EmptySet, FS_CardinalityType
      <4> QED
        BY <3>1, <4>2, <4>3, <4>5 DEF Promise!Next, Promise!Store
    <3> QED
      BY <3>2, <3>3
  <2> QED
    BY <2>1, <2>2
<1>2. CASE UNCHANGED vars
  BY <1>2 DEF vars, Ran
<1> QED
  BY <1>1, <1>2 DEF Next

\* The engine implements the promise of idempotency keys, which the pipeline of
\* queues and rows implements too, when its callers await each call: an action
\* whose result is stored does not run again, whatever failed before.
THEOREM AwaitedCallsKeepPromise ==
  ASSUME Concurrency = 1
  PROVE  Spec => KeepsPromise
<1>1. Init => Promise!Init
  BY PromiseInit
<1>2. IInv /\ [Next]_vars
        => [Promise!Next]_<<{k \in Keys : record[k] # NoResult},
                            [k \in Keys |-> Cardinality(Ran(k))]>>
  BY PromiseStep
<1> QED
  BY <1>1, <1>2, EngineInvariant, PTL DEF Spec, KeepsPromise, Promise!Spec

-----------------------------------------------------------------------------
\* How far a call has come.
Progress(at) ==
  IF at = "call" THEN 0 ELSE
  IF at = "lookup" THEN 1 ELSE
  IF at = "create" THEN 2 ELSE
  IF at = "create_step" THEN 3 ELSE
  IF at = "precondition" THEN 4 ELSE
  IF at = "process" THEN 5 ELSE
  IF at = "run" THEN 6 ELSE
  IF at \in {"step_success", "fail_step_retry", "fail_step_final"} THEN 7 ELSE
  IF at \in {"succeed", "fail_retry", "fail_final"} THEN 8 ELSE
  IF at = "save" THEN 9 ELSE 10

\* Every step of the engine takes one call at least one of its ten awaits
\* further and leaves the others where they are: whatever fails, executeAction
\* has no loop, and a retry is up to the caller (nothing in the engine runs an
\* operation it has set to pending again).
CallsOnlyAdvance ==
  [][\E c \in Calls : /\ Progress(pc'[c]) > Progress(pc[c])
                      /\ Progress(pc'[c]) <= 10
                      /\ \A d \in Calls \ {c} : pc'[d] = pc[d]]_vars

\* Every call of the engine ends, if each await does: it has no loop.
THEOREM EngineAdvances == Spec => CallsOnlyAdvance
<1>1. ASSUME EngineTypeOK, NEW c \in Calls, Begin(c) \/ Step(c)
      PROVE  /\ Progress(pc'[c]) > Progress(pc[c])
             /\ Progress(pc'[c]) <= 10
             /\ \A d \in Calls \ {c} : pc'[d] = pc[d]
  <2> USE <1>1 DEF EngineTypeOK, Goto
  <2>1. CASE Begin(c) BY <2>1 DEF Begin, Progress
  <2>2. CASE Lookup(c) BY <2>2 DEF Lookup, Progress
  <2>3. CASE CreateOperation(c) BY <2>3 DEF CreateOperation, Progress
  <2>4. CASE CreateStep(c) BY <2>4 DEF CreateStep, Progress
  <2>5. CASE Precondition(c) BY <2>5 DEF Precondition, Progress
  <2>6. CASE Process(c) BY <2>6 DEF Process, Progress
  <2>7. CASE Run(c) BY <2>7 DEF Run, Progress
  <2>8. CASE StepSuccess(c) BY <2>8 DEF StepSuccess, Progress
  <2>9. CASE Succeed(c) BY <2>9 DEF Succeed, Progress
  <2>10. CASE SaveRecord(c) BY <2>10 DEF SaveRecord, Progress
  <2>11. CASE FailStep(c) BY <2>11 DEF FailStep, Progress
  <2>12. CASE Fail(c) BY <2>12 DEF Fail, Progress
  <2> QED
    BY <2>1, <2>2, <2>3, <2>4, <2>5, <2>6, <2>7, <2>8, <2>9, <2>10, <2>11, <2>12, StepCases
<1>2. EngineTypeOK /\ [Next]_vars
        => [\E c \in Calls : /\ Progress(pc'[c]) > Progress(pc[c])
                             /\ Progress(pc'[c]) <= 10
                             /\ \A d \in Calls \ {c} : pc'[d] = pc[d]]_vars
  BY <1>1 DEF Next
<1> QED
  BY <1>2, EngineTypeCorrect, PTL DEF Spec, CallsOnlyAdvance
=============================================================================
