---------------------- MODULE OperationPipelineProofs ----------------------
(***************************************************************************)
(* Theorems about OperationPipeline for every value of its constants.      *)
(***************************************************************************)
EXTENDS OperationPipeline, FiniteSetTheorems, TLAPS

(***************************************************************************)
(* Types: a working slot holds an active job of its queue, alone; a job    *)
(* that is not finished has an attempt left; a call or a pass that is      *)
(* about to use an operation names one.                                    *)
(***************************************************************************)
SlotFacts ==
  \A w \in Workers : Working(w) =>
    wop[w] \in Ops /\ job[WorkerQueue[w]][wop[w]].state = "active"

JobFacts ==
  \A q \in Queues, o \in Ops : LiveJob(q, o) => job[q][o].made < JobAttempts

NameFacts ==
  /\ \A r \in Requests : rpc[r] \in {"add", "mark"} => rop[r] \in Ops
  /\ \A c \in Reconcilers : cpc[c] = "add" => cur[c] \in Ops

Typed == TypeOK /\ SlotFacts /\ SlotsHoldDistinctJobs /\ JobFacts /\ NameFacts

-----------------------------------------------------------------------------
LEMMA TypedInit == Init => Typed
<1> SUFFICES ASSUME Init PROVE Typed
  OBVIOUS
<1> USE ConstantsAssumption
<1>1. TypeOK
  BY DEF Init, TypeOK, OpStatuses, StepStatuses, JobRecord, JobStates, NoJob,
         RequestPcs, WorkerPcs, ReconcilerPcs, Ops
<1>2. SlotFacts /\ SlotsHoldDistinctJobs
  BY DEF Init, SlotFacts, SlotsHoldDistinctJobs, Working
<1>3. JobFacts /\ NameFacts
  BY DEF Init, JobFacts, NameFacts, LiveJob, NoJob, Ops
<1> QED
  BY <1>1, <1>2, <1>3 DEF Typed

\* One job is replaced, every other one is what it was.
LEMMA JobUpdate ==
  ASSUME job \in [Queues -> [Ops -> JobRecord]], NEW q \in Queues, NEW o \in Ops,
         NEW j \in JobRecord, job' = [job EXCEPT ![q][o] = j]
  PROVE  /\ job' \in [Queues -> [Ops -> JobRecord]]
         /\ job'[q][o] = j
         /\ \A p \in Queues, x \in Ops : p # q \/ x # o => job'[p][x] = job[p][x]
OBVIOUS

LEMMA JobStateUpdate ==
  ASSUME job \in [Queues -> [Ops -> JobRecord]], NEW q \in Queues, NEW o \in Ops,
         NEW s \in JobStates, SetJobState(q, o, s)
  PROVE  /\ job' \in [Queues -> [Ops -> JobRecord]]
         /\ job'[q][o].state = s /\ job'[q][o].made = job[q][o].made
         /\ \A p \in Queues, x \in Ops : p # q \/ x # o => job'[p][x] = job[p][x]
<1> DEFINE j == [job[q][o] EXCEPT !.state = s]
<1>1. j \in JobRecord /\ j.state = s /\ j.made = job[q][o].made
  BY DEF JobRecord
<1>2. job' = [job EXCEPT ![q][o] = j]
  BY DEF SetJobState, SetJob
<1> HIDE DEF j
<1> QED
  BY <1>1, <1>2, JobUpdate

\* A run is counted for one subject.
LEMMA RunUpdate ==
  ASSUME runs \in [Subjects -> Nat], NEW s \in Subjects, runs' = [runs EXCEPT ![s] = @ + 1]
  PROVE  /\ runs' \in [Subjects -> Nat]
         /\ runs'[s] = runs[s] + 1
         /\ \A t \in Subjects : t # s => runs'[t] = runs[t]
OBVIOUS

\* A handler step moves its slot from one busy position to another, and
\* leaves jobs, slots and the calls of others alone.
HandlerMove(w) ==
  /\ Working(w)
  /\ \E pc \in WorkerPcs \ {"idle", "dead"} : Goto(w, pc)
  /\ UNCHANGED <<input, job, reqVars, wop, recVars>>

LEMMA HandlerMoves ==
  ASSUME Typed, NEW w \in Workers, HandlerStep(w) \/ DbFault(w)
  PROVE  HandlerMove(w)
<1> USE DEF HandlerMove, Working, Goto, WorkerPcs, InsertStep, UpdateStatus, WriteStep,
            WriteStatus, WriteRecord, AnswerLost, FailureStatus, dbVars, reqVars, recVars
<1>1. CASE Load(w) BY <1>1 DEF Load
<1>2. CASE HitStep(w) BY <1>2 DEF HitStep
<1>3. CASE HitComplete(w) BY <1>3 DEF HitComplete
<1>4. CASE Claim(w) BY <1>4 DEF Claim
<1>5. CASE TakenStep(w) BY <1>5 DEF TakenStep
<1>6. CASE Execute(w) BY <1>6 DEF Execute
<1>7. CASE CompletedStep(w) BY <1>7 DEF CompletedStep
<1>8. CASE SaveRecord(w) BY <1>8 DEF SaveRecord
<1>9. CASE Complete(w) BY <1>9 DEF Complete
<1>10. CASE FailStep(w) BY <1>10 DEF FailStep
<1>11. CASE FailStatus(w) BY <1>11 DEF FailStatus
<1>12. CASE DbFault(w) BY <1>12 DEF DbFault
<1> QED
  BY <1>1, <1>2, <1>3, <1>4, <1>5, <1>6, <1>7, <1>8, <1>9, <1>10, <1>11, <1>12 DEF HandlerStep

\* Such a move keeps everything Typed says of slots, jobs and names.
LEMMA HandlerKeeps ==
  ASSUME Typed, NEW w \in Workers, HandlerMove(w)
  PROVE  /\ wpc' \in [Workers -> WorkerPcs]
         /\ SlotFacts' /\ SlotsHoldDistinctJobs' /\ JobFacts' /\ NameFacts'
<1>1. PICK pc \in WorkerPcs \ {"idle", "dead"} : Goto(w, pc)
  BY DEF HandlerMove
<1>2. wpc' \in [Workers -> WorkerPcs] /\ \A v \in Workers : Working(v)' <=> Working(v)
  BY <1>1 DEF Goto, HandlerMove, Working, Typed, TypeOK
<1>3. SlotFacts' /\ SlotsHoldDistinctJobs'
  BY <1>2 DEF HandlerMove, Typed, SlotFacts, SlotsHoldDistinctJobs
<1>4. JobFacts' /\ NameFacts'
  BY DEF HandlerMove, Typed, JobFacts, NameFacts, LiveJob, reqVars, recVars
<1> QED
  BY <1>2, <1>3, <1>4

\* The type of the variables a handler step may change, action by action.
LEMMA HandlerTypes ==
  ASSUME Typed, NEW w \in Workers, HandlerStep(w) \/ DbFault(w)
  PROVE  TypeOK'
<1>0. /\ wpc' \in [Workers -> WorkerPcs] /\ HandlerMove(w)
      /\ wop[w] \in Ops /\ ActionOf(wop[w]) \in Actions
      /\ KeyOf(wop[w]) \in Keys \cup {NoKey} /\ Subject(wop[w]) \in Subjects
  <2>1. HandlerMove(w)
    BY HandlerMoves
  <2>2. wop[w] \in Ops
    BY <2>1 DEF HandlerMove, Typed, SlotFacts
  <2>3. input[wop[w]] \in InputRecord
    BY <2>2, ConstantsAssumption DEF Typed, TypeOK, Ops
  <2> QED
    BY <2>1, <2>2, <2>3, HandlerKeeps, ConstantsAssumption
       DEF InputRecord, ActionOf, KeyOf, EffectiveKey, Subject, Subjects, Ops
<1> USE <1>0, ConstantsAssumption
    DEF Typed, TypeOK, HandlerMove, dbVars, reqVars, recVars, budgets, InsertStep, UpdateStatus,
        WriteStep, WriteStatus, WriteRecord, AnswerLost, FailureStatus
<1>1. CASE Load(w) BY <1>1 DEF Load
<1>2. CASE HitStep(w) BY <1>2 DEF HitStep, StepStatuses
<1>3. CASE HitComplete(w) BY <1>3 DEF HitComplete, OpStatuses
<1>4. CASE Claim(w) BY <1>4 DEF Claim, OpStatuses
<1>5. CASE TakenStep(w) BY <1>5 DEF TakenStep, StepStatuses
<1>6. CASE Execute(w)
  <2>1. runs' = runs \/ runs' = [runs EXCEPT ![Subject(wop[w])] = @ + 1]
    BY <1>6 DEF Execute
  <2>2. runs' \in [Subjects -> Nat]
    BY <2>1, RunUpdate
  <2>3. verdict' \in [Workers -> {"retry", "fatal"}]
    BY <1>6 DEF Execute
  <2> QED
    BY <1>6, <2>2, <2>3 DEF Execute
<1>7. CASE CompletedStep(w) BY <1>7 DEF CompletedStep, StepStatuses
<1>8. CASE SaveRecord(w) BY <1>8 DEF SaveRecord
<1>9. CASE Complete(w) BY <1>9 DEF Complete, OpStatuses
<1>10. CASE FailStep(w) BY <1>10 DEF FailStep, StepStatuses
<1>11. CASE FailStatus(w) BY <1>11 DEF FailStatus, OpStatuses
<1>12. CASE DbFault(w)
  <2>1. /\ dbFaults' \in 0..MaxDbFaults
        /\ verdict' \in [Workers -> {"retry", "fatal"}]
    BY <1>12 DEF DbFault
  <2>2. \/ UNCHANGED <<status, steps, recorded>>
        \/ \E s \in {"idempotency.hit", "taken_by_worker", "completed", "failed"} : WriteStep(w, s)
        \/ \E s \in {"completed", "processing", "retry_scheduled", "failed"} : WriteStatus(w, s)
        \/ WriteRecord(w)
    BY <1>12 DEF DbFault
  <2>3. /\ status' \in [Ops -> OpStatuses] /\ steps' \in [Ops -> SUBSET StepStatuses]
        /\ recorded' \subseteq Keys
    <3>1. ASSUME NEW s \in StepStatuses, WriteStep(w, s)
          PROVE  steps' \in [Ops -> SUBSET StepStatuses]
      BY <3>1
    <3>2. ASSUME NEW s \in OpStatuses, WriteStatus(w, s) PROVE status' \in [Ops -> OpStatuses]
      BY <3>2
    <3>3. {"idempotency.hit", "taken_by_worker", "completed", "failed"} \subseteq StepStatuses
      BY DEF StepStatuses
    <3>4. {"completed", "processing", "retry_scheduled", "failed"} \subseteq OpStatuses
      BY DEF OpStatuses
    <3>5. WriteRecord(w) => recorded' \subseteq Keys
      OBVIOUS
    <3>6. CASE UNCHANGED <<status, steps, recorded>>
      BY <3>6
    <3>7. CASE \E s \in {"idempotency.hit", "taken_by_worker", "completed", "failed"} : WriteStep(w, s)
      BY <3>1, <3>3, <3>7
    <3>8. CASE \E s \in {"completed", "processing", "retry_scheduled", "failed"} : WriteStatus(w, s)
      BY <3>2, <3>4, <3>8
    <3>9. CASE WriteRecord(w)
      BY <3>5, <3>9
    <3> QED
      BY <2>2, <3>6, <3>7, <3>8, <3>9
  <2> QED
    BY <1>12, <2>1, <2>3 DEF DbFault
<1> QED
  BY <1>1, <1>2, <1>3, <1>4, <1>5, <1>6, <1>7, <1>8, <1>9, <1>10, <1>11, <1>12 DEF HandlerStep

\* What queue.add does: the jobs of others, and live ones, are untouched.
LEMMA AddKeeps ==
  ASSUME Typed, NEW q \in Queues, NEW o \in Ops, AddIfAbsent(q, o),
         UNCHANGED <<wpc, wop>>
  PROVE  /\ job' \in [Queues -> [Ops -> JobRecord]]
         /\ SlotFacts' /\ SlotsHoldDistinctJobs' /\ JobFacts'
<1>1. CASE HasJob(q, o)
  BY <1>1 DEF AddIfAbsent, Typed, TypeOK, SlotFacts, SlotsHoldDistinctJobs, JobFacts,
              Working, LiveJob
<1>2. CASE ~HasJob(q, o)
  <2>1. /\ job' = [job EXCEPT ![q][o] = NewJob]
        /\ job[q][o].state = "none"
    BY <1>2 DEF AddIfAbsent, SetJob, HasJob
  <2>2. job' \in [Queues -> [Ops -> JobRecord]]
    BY <2>1, ConstantsAssumption DEF Typed, TypeOK, JobRecord, JobStates, NewJob
  <2>3. SlotFacts' /\ SlotsHoldDistinctJobs'
    BY <2>1, ConstantsAssumption DEF Typed, TypeOK, SlotFacts, SlotsHoldDistinctJobs, Working, Ops
  <2>4. JobFacts'
    BY <2>1, ConstantsAssumption DEF Typed, TypeOK, JobFacts, LiveJob, NewJob, JobRecord
  <2> QED
    BY <2>2, <2>3, <2>4
<1> QED
  BY <1>1, <1>2

-----------------------------------------------------------------------------
LEMMA RequestKeepsTyped ==
  ASSUME Typed, NEW r \in Requests, RequestStep(r) \/ RequestDies(r)
  PROVE  Typed'
<1> USE ConstantsAssumption DEF Typed, TypeOK, dbVars, workVars, recVars, budgets, Ops
<1>1. CASE CreateRow(r)
  BY <1>1 DEF CreateRow, OpStatuses, RequestPcs, SlotFacts, SlotsHoldDistinctJobs,
              Working, JobFacts, LiveJob, NameFacts
<1>2. CASE ReuseRow(r)
  BY <1>2 DEF ReuseRow, RowsWithKey, RequestPcs, SlotFacts, SlotsHoldDistinctJobs,
              Working, JobFacts, LiveJob, NameFacts
<1>3. CASE AddJob(r)
  <2>1. rop[r] \in Ops /\ input[r].queue \in Queues
    BY <1>3 DEF AddJob, NameFacts, InputRecord
  <2>2. /\ job' \in [Queues -> [Ops -> JobRecord]]
        /\ SlotFacts' /\ SlotsHoldDistinctJobs' /\ JobFacts'
    BY <1>3, <2>1, AddKeeps DEF AddJob
  <2>3. TypeOK' /\ NameFacts'
    BY <1>3, <2>2 DEF AddJob, RequestPcs, NameFacts
  <2> QED
    BY <2>2, <2>3
<1>4. CASE MarkQueued(r)
  BY <1>4 DEF MarkQueued, EndRequest, OpStatuses, RequestPcs, SlotFacts,
              SlotsHoldDistinctJobs, Working, JobFacts, LiveJob, NameFacts
<1>5. CASE RequestDies(r)
  BY <1>5 DEF RequestDies, EndRequest, RequestPcs, SlotFacts, SlotsHoldDistinctJobs,
              Working, JobFacts, LiveJob, NameFacts
<1> QED
  BY <1>1, <1>2, <1>3, <1>4, <1>5 DEF RequestStep

-----------------------------------------------------------------------------
\* A slot that takes a job, and a slot that gives one up.
LEMMA TakeKeepsTyped ==
  ASSUME Typed, NEW w \in Workers, NEW o \in Ops, Take(w, o)
  PROVE  Typed'
<1> USE ConstantsAssumption DEF Typed, TypeOK
<1> DEFINE q == WorkerQueue[w]
<1>1. /\ q \in Queues /\ job[q][o].state = "waiting"
      /\ job' \in [Queues -> [Ops -> JobRecord]]
      /\ job'[q][o].state = "active" /\ job'[q][o].made = job[q][o].made
      /\ \A p \in Queues, x \in Ops : p # q \/ x # o => job'[p][x] = job[p][x]
  <2>1. "active" \in JobStates /\ q \in Queues
    BY DEF JobStates
  <2>2. job[q][o].state = "waiting" /\ SetJobState(q, o, "active")
    BY DEF Take
  <2> QED
    BY <2>1, <2>2, JobStateUpdate
<1>2. /\ wpc[w] = "idle" /\ wpc' = [wpc EXCEPT ![w] = "load"]
      /\ wop' = [wop EXCEPT ![w] = o]
  BY DEF Take, Goto
<1>3. TypeOK' /\ NameFacts'
  BY <1>1, <1>2 DEF Take, WorkerPcs, NameFacts, dbVars, reqVars, recVars, budgets
<1>4. \A v \in Workers : v # w => /\ Working(v)' <=> Working(v)
                                 /\ wop'[v] = wop[v]
  BY <1>2 DEF Working
<1>5. wop'[w] = o
  BY <1>2
<1>6. \A v \in Workers : v # w /\ Working(v) => ~(WorkerQueue[v] = q /\ wop[v] = o)
  BY <1>1 DEF SlotFacts
<1>7. SlotsHoldDistinctJobs'
  BY <1>4, <1>5, <1>6 DEF SlotsHoldDistinctJobs
<1>8. ASSUME NEW v \in Workers, Working(v)'
      PROVE  wop'[v] \in Ops /\ job'[WorkerQueue[v]][wop'[v]].state = "active"
  <2>1. CASE v = w
    BY <2>1, <1>1, <1>5
  <2>2. CASE v # w
    <3>1. Working(v) /\ wop'[v] = wop[v] /\ WorkerQueue[v] \in Queues
      BY <1>4, <1>8, <2>2
    <3>2. wop[v] \in Ops /\ job[WorkerQueue[v]][wop[v]].state = "active"
      BY <3>1 DEF SlotFacts
    <3> QED
      BY <1>1, <1>6, <2>2, <3>1, <3>2
  <2> QED
    BY <2>1, <2>2
<1>9. ASSUME NEW p \in Queues, NEW x \in Ops, LiveJob(p, x)'
      PROVE  job'[p][x].made < JobAttempts
  <2>1. CASE p = q /\ x = o
    BY <1>1, <2>1 DEF JobFacts, LiveJob
  <2>2. CASE p # q \/ x # o
    BY <1>1, <1>9, <2>2 DEF JobFacts, LiveJob
  <2> QED
    BY <2>1, <2>2
<1> QED
  BY <1>3, <1>7, <1>8, <1>9 DEF SlotFacts, JobFacts

\* Releasing a slot whose job, and no other, is finished or delayed.
LEMMA ReleaseKeeps ==
  ASSUME Typed, NEW w \in Workers, Working(w), NEW pc \in {"idle", "dead"}, Release(w, pc),
         job' \in [Queues -> [Ops -> JobRecord]],
         \A q \in Queues, o \in Ops :
           job'[q][o] # job[q][o] => q = WorkerQueue[w] /\ o = wop[w]
  PROVE  /\ wpc' \in [Workers -> WorkerPcs]
         /\ wop' \in [Workers -> Ops \cup {NoOp}]
         /\ verdict' \in [Workers -> {"retry", "fatal"}]
         /\ SlotFacts' /\ SlotsHoldDistinctJobs'
<1> USE ConstantsAssumption DEF Typed, TypeOK
<1>1. /\ wpc' = [wpc EXCEPT ![w] = pc]
      /\ wop' = [wop EXCEPT ![w] = NoOp]
      /\ verdict' = [verdict EXCEPT ![w] = "retry"]
  BY DEF Release, Goto
<1>2. \A v \in Workers : Working(v)' => v # w /\ Working(v) /\ wop'[v] = wop[v]
  BY <1>1 DEF Working
<1>3. SlotsHoldDistinctJobs'
  BY <1>2 DEF SlotsHoldDistinctJobs
<1>4. ASSUME NEW v \in Workers, Working(v)'
      PROVE  wop'[v] \in Ops /\ job'[WorkerQueue[v]][wop'[v]].state = "active"
  <2>1. /\ wop[v] \in Ops /\ job[WorkerQueue[v]][wop[v]].state = "active"
        /\ ~(WorkerQueue[v] = WorkerQueue[w] /\ wop[v] = wop[w])
    BY <1>2, <1>4 DEF SlotFacts, SlotsHoldDistinctJobs
  <2> QED
    BY <1>2, <1>4, <2>1
<1> QED
  BY <1>1, <1>3, <1>4 DEF SlotFacts, WorkerPcs

LEMMA SettleKeepsTyped ==
  ASSUME Typed, NEW w \in Workers, Ack(w) \/ Nack(w) \/ Crash(w) \/ Restart(w)
  PROVE  Typed'
<1> USE ConstantsAssumption DEF Typed, TypeOK
<1> DEFINE q == WorkerQueue[w]
           o == wop[w]
<1>1. CASE Ack(w)
  <2>1. /\ Working(w) /\ o \in Ops /\ q \in Queues
        /\ SetJobState(q, o, "completed")
        /\ Release(w, "idle")
    BY <1>1 DEF Ack, Working, SlotFacts
  <2>2. /\ job' \in [Queues -> [Ops -> JobRecord]]
        /\ job'[q][o].state = "completed"
        /\ \A p \in Queues, x \in Ops : p # q \/ x # o => job'[p][x] = job[p][x]
    <3>1. "completed" \in JobStates
      BY DEF JobStates
    <3> QED
      BY <2>1, <3>1, JobStateUpdate
  <2>3. /\ wpc' \in [Workers -> WorkerPcs]
        /\ wop' \in [Workers -> Ops \cup {NoOp}]
        /\ verdict' \in [Workers -> {"retry", "fatal"}]
        /\ SlotFacts' /\ SlotsHoldDistinctJobs'
    <3>1. \A p \in Queues, x \in Ops :
            job'[p][x] # job[p][x] => p = WorkerQueue[w] /\ x = wop[w]
      BY <2>2
    <3> HIDE DEF TypeOK, Typed
    <3> QED
      BY <2>1, <2>2, <3>1, ReleaseKeeps
  <2>5. TypeOK'
    BY <1>1, <2>2, <2>3 DEF Ack, dbVars, reqVars, recVars, budgets
  <2>4. JobFacts'
    BY <1>1, <2>2, ZenonT(30) DEF Ack, JobFacts, LiveJob, reqVars, recVars
  <2>6. NameFacts'
    BY <1>1, <2>2 DEF Ack, JobFacts, NameFacts, reqVars, recVars
  <2> QED
    BY <2>3, <2>4, <2>5, <2>6
<1>2. CASE Nack(w)
  <2> DEFINE made == job[q][o].made + 1
             dead == verdict[w] = "fatal" \/ made = JobAttempts
             j == [job[q][o] EXCEPT !.made = made, !.state = IF dead THEN "failed" ELSE "delayed"]
  <2>1. /\ Working(w) /\ o \in Ops /\ q \in Queues
        /\ job' = [job EXCEPT ![q][o] = j]
        /\ Release(w, "idle")
        /\ job[q][o].state = "active"
    BY <1>2 DEF Nack, SetJob, Working, SlotFacts
  <2>2. job[q][o] \in JobRecord /\ job[q][o].made < JobAttempts
    BY <2>1 DEF JobFacts, LiveJob
  <2>3. j \in JobRecord /\ (j.state \in {"waiting", "active", "delayed"} => j.made < JobAttempts)
    <3>1. made \in 0..JobAttempts /\ (~dead => made < JobAttempts)
      BY <2>2 DEF JobRecord
    <3> HIDE DEF made
    <3>2. CASE dead
      <4>1. j = [job[q][o] EXCEPT !.made = made, !.state = "failed"]
        BY <3>2
      <4> QED
        BY <2>2, <3>1, <4>1 DEF JobRecord, JobStates
    <3>3. CASE ~dead
      <4>1. j = [job[q][o] EXCEPT !.made = made, !.state = "delayed"]
        BY <3>3
      <4> QED
        BY <2>2, <3>1, <3>3, <4>1 DEF JobRecord, JobStates
    <3> QED
      BY <3>2, <3>3
  <2> HIDE DEF j
  <2>4. /\ job' \in [Queues -> [Ops -> JobRecord]]
        /\ job'[q][o] = j
        /\ \A p \in Queues, x \in Ops : p # q \/ x # o => job'[p][x] = job[p][x]
    BY <2>1, <2>3, JobUpdate
  <2>5. /\ wpc' \in [Workers -> WorkerPcs]
        /\ wop' \in [Workers -> Ops \cup {NoOp}]
        /\ verdict' \in [Workers -> {"retry", "fatal"}]
        /\ SlotFacts' /\ SlotsHoldDistinctJobs'
    <3>1. \A p \in Queues, x \in Ops :
            job'[p][x] # job[p][x] => p = WorkerQueue[w] /\ x = wop[w]
      BY <2>4
    <3> HIDE DEF TypeOK, Typed
    <3> QED
      BY <2>1, <2>4, <3>1, ReleaseKeeps
  <2>6. TypeOK' /\ NameFacts'
    BY <1>2, <2>4, <2>5 DEF Nack, NameFacts, dbVars, reqVars, recVars, budgets
  <2>7. ASSUME NEW p \in Queues, NEW x \in Ops, LiveJob(p, x)'
        PROVE  job'[p][x].made < JobAttempts
    <3>1. CASE p = q /\ x = o
      BY <2>3, <2>4, <2>7, <3>1 DEF LiveJob
    <3>2. CASE p # q \/ x # o
      BY <2>4, <2>7, <3>2 DEF JobFacts, LiveJob
    <3> QED
      BY <3>1, <3>2
  <2> QED
    BY <2>5, <2>6, <2>7 DEF JobFacts
<1>3. CASE Crash(w)
  <2>1. SlotFacts' /\ SlotsHoldDistinctJobs' /\ TypeOK'
    BY <1>3, ReleaseKeeps DEF Crash, dbVars, reqVars, recVars
  <2>2. JobFacts' /\ NameFacts'
    BY <1>3 DEF Crash, JobFacts, LiveJob, NameFacts, reqVars, recVars
  <2> QED
    BY <2>1, <2>2
<1>4. CASE Restart(w)
  <2>1. /\ wpc' = [wpc EXCEPT ![w] = "idle"]
        /\ wop' = [wop EXCEPT ![w] = NoOp]
        /\ verdict' = [verdict EXCEPT ![w] = "retry"]
        /\ UNCHANGED job
    BY <1>4 DEF Restart, Release, Goto
  <2>2. TypeOK'
    BY <1>4, <2>1 DEF Restart, WorkerPcs, dbVars, reqVars, recVars, budgets
  <2>3. SlotFacts' /\ SlotsHoldDistinctJobs'
    BY <2>1 DEF SlotFacts, SlotsHoldDistinctJobs, Working
  <2>4. JobFacts' /\ NameFacts'
    BY <1>4 DEF Restart, JobFacts, LiveJob, NameFacts, reqVars, recVars
  <2> QED
    BY <2>2, <2>3, <2>4
<1> QED
  BY <1>1, <1>2, <1>3, <1>4

-----------------------------------------------------------------------------
\* A step of Redis replaces one job that no slot holds.
LEMMA UnheldJob ==
  ASSUME Typed, NEW q \in Queues, NEW o \in Ops, NEW j \in JobRecord,
         job' = [job EXCEPT ![q][o] = j], ~Held(q, o),
         j.state \in {"waiting", "active", "delayed"} => j.made < JobAttempts,
         UNCHANGED <<input, dbVars, reqVars, workVars, recVars, runs, budgets>>
  PROVE  Typed'
<1> USE DEF Typed
<1>1. /\ job' \in [Queues -> [Ops -> JobRecord]]
      /\ job'[q][o] = j
      /\ \A p \in Queues, x \in Ops : p # q \/ x # o => job'[p][x] = job[p][x]
  BY JobUpdate DEF TypeOK
<1>2. TypeOK' /\ NameFacts' /\ SlotsHoldDistinctJobs'
  BY <1>1 DEF TypeOK, NameFacts, SlotsHoldDistinctJobs, Working,
              dbVars, reqVars, workVars, recVars, budgets
<1>3. ASSUME NEW w \in Workers, Working(w)'
      PROVE  wop'[w] \in Ops /\ job'[WorkerQueue[w]][wop'[w]].state = "active"
  <2>1. Working(w) /\ wop' = wop /\ WorkerQueue[w] \in Queues
    BY <1>3, ConstantsAssumption DEF Working, workVars
  <2>2. WorkerQueue[w] # q \/ wop[w] # o
    BY <2>1 DEF Held
  <2> QED
    BY <1>1, <2>1, <2>2 DEF SlotFacts
<1>4. ASSUME NEW p \in Queues, NEW x \in Ops, LiveJob(p, x)'
      PROVE  job'[p][x].made < JobAttempts
  <2>1. CASE p = q /\ x = o
    BY <1>1, <1>4, <2>1 DEF LiveJob
  <2>2. CASE p # q \/ x # o
    BY <1>1, <1>4, <2>2 DEF JobFacts, LiveJob
  <2> QED
    BY <2>1, <2>2
<1> QED
  BY <1>2, <1>3, <1>4 DEF SlotFacts, JobFacts

LEMMA RedisKeepsTyped ==
  ASSUME Typed, NEW q \in Queues, NEW o \in Ops, RedisStep(q, o) \/ Evict(q, o)
  PROVE  Typed'
<1>0. job[q][o] \in JobRecord
  BY DEF Typed, TypeOK
<1>1. CASE Promote(q, o)
  <2> DEFINE j == [job[q][o] EXCEPT !.state = "waiting"]
  <2>1. job' = [job EXCEPT ![q][o] = j] /\ job[q][o].state = "delayed"
    BY <1>1 DEF Promote, SetJobState, SetJob
  <2>2. j \in JobRecord /\ j.made = job[q][o].made /\ j.made < JobAttempts
    BY <1>0, <2>1 DEF JobRecord, JobStates, Typed, JobFacts, LiveJob
  <2>3. ~Held(q, o)
    BY <2>1 DEF Held, Typed, SlotFacts
  <2> HIDE DEF j
  <2> QED
    BY <1>1, <2>1, <2>2, <2>3, UnheldJob DEF Promote
<1>2. CASE Stalled(q, o)
  <2>1. CASE job[q][o].stalls < MaxStalls
    <3> DEFINE j == [job[q][o] EXCEPT !.state = "waiting", !.stalls = @ + 1]
    <3>1. job' = [job EXCEPT ![q][o] = j] /\ job[q][o].state = "active" /\ ~Held(q, o)
      BY <1>2, <2>1 DEF Stalled, SetJob
    <3>2. job[q][o].made < JobAttempts
      BY <3>1 DEF Typed, JobFacts, LiveJob
    <3>3. job[q][o].stalls + 1 \in 0..MaxStalls
      BY <1>0, <2>1, ConstantsAssumption DEF JobRecord
    <3>4. j \in JobRecord /\ j.made = job[q][o].made
      BY <1>0, <3>3 DEF JobRecord, JobStates
    <3> HIDE DEF j
    <3> QED
      BY <1>2, <3>1, <3>2, <3>4, UnheldJob DEF Stalled
  <2>2. CASE ~(job[q][o].stalls < MaxStalls)
    <3> DEFINE j == [job[q][o] EXCEPT !.state = "failed"]
    <3>1. job' = [job EXCEPT ![q][o] = j] /\ ~Held(q, o)
      BY <1>2, <2>2 DEF Stalled, SetJobState, SetJob
    <3>2. j \in JobRecord /\ j.state = "failed"
      BY <1>0 DEF JobRecord, JobStates
    <3> HIDE DEF j
    <3> QED
      BY <1>2, <3>1, <3>2, UnheldJob DEF Stalled
  <2> QED
    BY <2>1, <2>2
<1>3. CASE Evict(q, o)
  <2>1. job' = [job EXCEPT ![q][o] = NoJob] /\ job[q][o].state \in {"completed", "failed"}
    BY <1>3 DEF Evict, SetJob
  <2>2. NoJob \in JobRecord /\ NoJob.state = "none"
    BY ConstantsAssumption DEF JobRecord, JobStates, NoJob
  <2>3. ~Held(q, o)
    BY <2>1 DEF Held, Typed, SlotFacts
  <2> QED
    BY <1>3, <2>1, <2>2, <2>3, UnheldJob DEF Evict
<1> QED
  BY <1>1, <1>2, <1>3 DEF RedisStep

LEMMA ReconcilerKeepsTyped ==
  ASSUME Typed, NEW c \in Reconcilers, ReconcilerStep(c) \/ PassAborted(c)
  PROVE  Typed'
<1> USE ConstantsAssumption DEF Typed, TypeOK, ReconcilerPcs, dbVars, reqVars, workVars, budgets
<1>1. CASE Select(c)
  BY <1>1 DEF Select, Candidates, SlotFacts, SlotsHoldDistinctJobs, Working, JobFacts,
              LiveJob, NameFacts
<1>2. ASSUME NEW o \in Ops, Check(c, o) PROVE Typed'
  <2>1. /\ batch' \in [Reconcilers -> SUBSET Ops]
        /\ cpc' \in [Reconcilers -> ReconcilerPcs]
        /\ cur' \in [Reconcilers -> Ops \cup {NoOp}]
    <3>1. batch' = [batch EXCEPT ![c] = batch[c] \ {o}]
      BY <1>2 DEF Check
    <3>2. \E pc \in ReconcilerPcs : cpc' = [cpc EXCEPT ![c] = pc]
      BY <1>2 DEF Check
    <3>3. cur' = cur \/ cur' = [cur EXCEPT ![c] = o]
      BY <1>2 DEF Check
    <3> QED
      BY <3>1, <3>2, <3>3
  <2>2. NameFacts'
    BY <1>2 DEF Check, NameFacts
  <2> QED
    BY <1>2, <2>1, <2>2 DEF Check, SlotFacts, SlotsHoldDistinctJobs, Working, JobFacts, LiveJob
<1>3. CASE Requeue(c)
  <2>1. cur[c] \in Ops /\ HomeQueue[ActionOf(cur[c])] \in Queues
    BY <1>3 DEF Requeue, NameFacts, ActionOf, InputRecord, Ops
  <2>2. /\ job' \in [Queues -> [Ops -> JobRecord]]
        /\ SlotFacts' /\ SlotsHoldDistinctJobs' /\ JobFacts'
    BY <1>3, <2>1, AddKeeps DEF Requeue
  <2>3. TypeOK' /\ NameFacts'
    BY <1>3, <2>2 DEF Requeue, NameFacts
  <2> QED
    BY <2>2, <2>3
<1>4. CASE RequeueThrows(c)
  BY <1>4 DEF RequeueThrows, SlotFacts, SlotsHoldDistinctJobs, Working, JobFacts, LiveJob, NameFacts
<1>5. CASE PassAborted(c)
  BY <1>5 DEF PassAborted, SlotFacts, SlotsHoldDistinctJobs, Working, JobFacts, LiveJob, NameFacts
<1> QED
  BY <1>1, <1>2, <1>3, <1>4, <1>5 DEF ReconcilerStep

-----------------------------------------------------------------------------
\* The steps of the program, process by process.
LEMMA NextCases ==
  ASSUME Next
  PROVE  \/ \E r \in Requests : RequestStep(r) \/ RequestDies(r)
         \/ \E w \in Workers, o \in Ops : Take(w, o)
         \/ \E w \in Workers : HandlerStep(w) \/ DbFault(w)
         \/ \E w \in Workers : Ack(w) \/ Nack(w) \/ Crash(w) \/ Restart(w)
         \/ \E q \in Queues, o \in Ops : RedisStep(q, o) \/ Evict(q, o)
         \/ \E c \in Reconcilers : ReconcilerStep(c) \/ PassAborted(c)
BY DEF Next, SlotStep

LEMMA TypedStep ==
  ASSUME Typed, [Next]_vars
  PROVE  Typed'
<1>1. ASSUME NEW r \in Requests, RequestStep(r) \/ RequestDies(r) PROVE Typed'
  BY <1>1, RequestKeepsTyped
<1>2. ASSUME NEW w \in Workers, NEW o \in Ops, Take(w, o) PROVE Typed'
  BY <1>2, TakeKeepsTyped
<1>3. ASSUME NEW w \in Workers, HandlerStep(w) \/ DbFault(w) PROVE Typed'
  BY <1>3, HandlerTypes, HandlerMoves, HandlerKeeps DEF Typed
<1>4. ASSUME NEW w \in Workers, Ack(w) \/ Nack(w) \/ Crash(w) \/ Restart(w) PROVE Typed'
  BY <1>4, SettleKeepsTyped
<1>5. ASSUME NEW q \in Queues, NEW o \in Ops, RedisStep(q, o) \/ Evict(q, o) PROVE Typed'
  BY <1>5, RedisKeepsTyped
<1>6. ASSUME NEW c \in Reconcilers, ReconcilerStep(c) \/ PassAborted(c) PROVE Typed'
  BY <1>6, ReconcilerKeepsTyped
<1>7. CASE UNCHANGED vars
  BY <1>7 DEF vars, dbVars, reqVars, workVars, recVars, budgets, Typed, TypeOK, SlotFacts,
              SlotsHoldDistinctJobs, Working, JobFacts, LiveJob, NameFacts
<1> QED
  BY <1>1, <1>2, <1>3, <1>4, <1>5, <1>6, <1>7, NextCases

LEMMA TypedInvariant == Spec => []Typed
BY TypedInit, TypedStep, PTL DEF Spec

\* Rows, jobs, slots and calls keep their types, whatever runs, crashes or
\* fails, for any number of them.
THEOREM TypeCorrect == Spec => []TypeOK
<1>1. Typed => TypeOK
  BY DEF Typed
<1> QED
  BY <1>1, TypedInvariant, PTL

\* No job is ever executed by two slots at a time, for any number of slots and
\* of reconciler passes that overlap.
THEOREM DistinctJobs == Spec => []SlotsHoldDistinctJobs
<1>1. Typed => SlotsHoldDistinctJobs
  BY DEF Typed
<1> QED
  BY <1>1, TypedInvariant, PTL

-----------------------------------------------------------------------------
(***************************************************************************)
(* Evidence: what the position of a slot tells about steps, stored results *)
(* and runs.  Database and history only ever grow, so evidence once found  *)
(* stays; only the slot that moves has to be looked at.                    *)
(***************************************************************************)
Evidence(w) ==
  /\ wpc[w] \in {"hit_step", "hit_complete"} => KeyOf(wop[w]) \in recorded
  /\ wpc[w] = "hit_complete" => "idempotency.hit" \in steps[wop[w]]
  /\ wpc[w] \in {"save", "complete"} => "completed" \in steps[wop[w]]
  /\ KeyOf(wop[w]) # NoKey =>
       /\ wpc[w] \in {"step", "save", "complete"} => runs[KeyOf(wop[w])] > 0
       /\ wpc[w] = "complete" => KeyOf(wop[w]) \in recorded

Backed ==
  /\ \A w \in Workers : Evidence(w)
  /\ CompletedIsBacked
  /\ RecordIsEarned

\* A step that is no handler's: it leaves steps, results and runs alone, takes
\* or releases slots, and writes no status but pending and queued.
Quiet ==
  /\ UNCHANGED <<input, steps, recorded, runs>>
  /\ \A o \in Ops : status'[o] \in {status[o], "pending", "queued"}
  /\ \A w \in Workers :
       \/ wpc'[w] = wpc[w] /\ wop'[w] = wop[w]
       \/ /\ wpc'[w] \in {"load", "idle", "dead"}
          /\ wpc[w] \in {"idle", "dead", "ack", "nack"} \/ crashes' = crashes + 1
  /\ crashes' \in {crashes, crashes + 1}
  /\ dbFaults' \in {dbFaults, dbFaults + 1}

LEMMA QuietSteps ==
  ASSUME Typed, [Next]_vars, ~ \E w \in Workers : HandlerStep(w) \/ DbFault(w)
  PROVE  Quiet
<1> USE DEF Typed, TypeOK, Quiet, dbVars, reqVars, workVars, recVars, budgets
<1>1. ASSUME NEW r \in Requests, RequestStep(r) \/ RequestDies(r) PROVE Quiet
  <2>1. CASE CreateRow(r) BY <2>1 DEF CreateRow
  <2>2. CASE ReuseRow(r) BY <2>2 DEF ReuseRow
  <2>3. CASE AddJob(r) BY <2>3 DEF AddJob
  <2>4. CASE MarkQueued(r) BY <2>4 DEF MarkQueued
  <2>5. CASE RequestDies(r) BY <2>5 DEF RequestDies
  <2> QED
    BY <1>1, <2>1, <2>2, <2>3, <2>4, <2>5 DEF RequestStep
<1>2. ASSUME NEW w \in Workers, NEW o \in Ops, Take(w, o) PROVE Quiet
  BY <1>2 DEF Take, Goto
<1>3. ASSUME NEW w \in Workers, Ack(w) \/ Nack(w) \/ Crash(w) \/ Restart(w) PROVE Quiet
  BY <1>3 DEF Ack, Nack, Crash, Restart, Release, Goto
<1>4. ASSUME NEW q \in Queues, NEW o \in Ops, RedisStep(q, o) \/ Evict(q, o) PROVE Quiet
  BY <1>4 DEF RedisStep, Promote, Stalled, Evict
<1>5. ASSUME NEW c \in Reconcilers, ReconcilerStep(c) \/ PassAborted(c) PROVE Quiet
  BY <1>5 DEF ReconcilerStep, Select, Check, Requeue, RequeueThrows, PassAborted
<1>6. CASE UNCHANGED vars
  BY <1>6 DEF vars
<1> QED
  BY <1>1, <1>2, <1>3, <1>4, <1>5, <1>6, NextCases

LEMMA QuietKeepsBacked ==
  ASSUME Typed, Backed, Quiet
  PROVE  Backed'
<1>1. ASSUME NEW w \in Workers PROVE Evidence(w)'
  BY DEF Backed, Evidence, Quiet, KeyOf
<1>2. CompletedIsBacked'
  BY DEF Backed, CompletedIsBacked, Quiet, KeyOf
<1>3. RecordIsEarned'
  BY DEF Backed, RecordIsEarned, Quiet, KeyOf
<1> QED
  BY <1>1, <1>2, <1>3 DEF Backed

\* What a handler step of slot w does to the database and the history.
Grows(w) ==
  /\ input' = input
  /\ recorded \subseteq recorded'
  /\ \A o \in Ops : steps[o] \subseteq steps'[o]
  /\ \A s \in Subjects : runs'[s] \in Nat /\ runs[s] <= runs'[s]
  /\ \A v \in Workers : v # w => wpc'[v] = wpc[v]
  /\ wop' = wop
  /\ wop[w] \in Ops
  /\ KeyOf(wop[w]) \in Keys \cup {NoKey}

LEMMA HandlerGrows ==
  ASSUME Typed, NEW w \in Workers, HandlerStep(w) \/ DbFault(w)
  PROVE  Grows(w)
<1>0. /\ HandlerMove(w) /\ wop[w] \in Ops
      /\ KeyOf(wop[w]) \in Keys \cup {NoKey} /\ Subject(wop[w]) \in Subjects
  <2>1. HandlerMove(w) /\ wop[w] \in Ops
    BY HandlerMoves DEF HandlerMove, Typed, SlotFacts
  <2>2. input[wop[w]] \in InputRecord
    BY <2>1, ConstantsAssumption DEF Typed, TypeOK, Ops
  <2> QED
    BY <2>1, <2>2, ConstantsAssumption
       DEF InputRecord, KeyOf, EffectiveKey, Subject, Subjects, Ops
<1>1. input' = input /\ wop' = wop /\ \A v \in Workers : v # w => wpc'[v] = wpc[v]
  BY <1>0 DEF HandlerMove, Goto, Typed, TypeOK
<1>2. runs \in [Subjects -> Nat] /\ steps \in [Ops -> SUBSET StepStatuses]
  BY DEF Typed, TypeOK
<1>3. /\ recorded \subseteq recorded'
      /\ \A o \in Ops : steps[o] \subseteq steps'[o]
  <2> USE <1>2 DEF InsertStep, UpdateStatus, WriteStep, WriteStatus, WriteRecord, AnswerLost,
                   FailureStatus, dbVars
  <2>1. CASE Load(w) BY <2>1 DEF Load
  <2>2. CASE HitStep(w) BY <2>2 DEF HitStep
  <2>3. CASE HitComplete(w) BY <2>3 DEF HitComplete
  <2>4. CASE Claim(w) BY <2>4 DEF Claim
  <2>5. CASE TakenStep(w) BY <2>5 DEF TakenStep
  <2>6. CASE Execute(w) BY <2>6 DEF Execute
  <2>7. CASE CompletedStep(w) BY <2>7 DEF CompletedStep
  <2>8. CASE SaveRecord(w) BY <2>8 DEF SaveRecord
  <2>9. CASE Complete(w) BY <2>9 DEF Complete
  <2>10. CASE FailStep(w) BY <2>10 DEF FailStep
  <2>11. CASE FailStatus(w) BY <2>11 DEF FailStatus
  <2>12. CASE DbFault(w) BY <2>12 DEF DbFault
  <2> QED
    BY <2>1, <2>2, <2>3, <2>4, <2>5, <2>6, <2>7, <2>8, <2>9, <2>10, <2>11, <2>12 DEF HandlerStep
<1>4. runs' = runs \/ runs' = [runs EXCEPT ![Subject(wop[w])] = @ + 1]
  BY DEF HandlerStep, InsertStep, UpdateStatus, WriteStep, WriteStatus, WriteRecord, AnswerLost,
         FailureStatus, Load, HitStep, HitComplete, Claim, TakenStep,
         Execute, CompletedStep, SaveRecord, Complete, FailStep, FailStatus, DbFault
<1>5. \A s \in Subjects : runs'[s] \in Nat /\ runs[s] <= runs'[s]
  BY <1>0, <1>2, <1>4, RunUpdate
<1> QED
  BY <1>0, <1>1, <1>3, <1>5 DEF Grows

\* The evidence of the slots that do not move.
LEMMA OthersKeepEvidence ==
  ASSUME Typed, Backed, NEW w \in Workers, Grows(w), NEW v \in Workers, v # w, Working(v)
  PROVE  Evidence(v)'
<1>1. /\ wop[v] \in Ops /\ wop'[v] = wop[v] /\ wpc'[v] = wpc[v]
      /\ KeyOf(wop[v])' = KeyOf(wop[v])
  BY DEF Typed, SlotFacts, Grows, KeyOf
<1>2. KeyOf(wop[v]) \in Keys \cup {NoKey}
  <2>1. input[wop[v]] \in InputRecord
    BY <1>1, ConstantsAssumption DEF Typed, TypeOK, Ops
  <2> QED
    BY <2>1, ConstantsAssumption DEF InputRecord, KeyOf, EffectiveKey
<1>3. KeyOf(wop[v]) # NoKey =>
        /\ KeyOf(wop[v]) \in Subjects
        /\ runs[KeyOf(wop[v])] \in Nat
        /\ runs[KeyOf(wop[v])] <= runs'[KeyOf(wop[v])]
  BY <1>2 DEF Typed, TypeOK, Grows, Subjects
<1>4. Evidence(v)
  BY DEF Backed
<1>5. KeyOf(wop[v]) # NoKey /\ runs[KeyOf(wop[v])] > 0 => runs'[KeyOf(wop[v])] > 0
  BY <1>3 DEF Grows
<1> QED
  BY <1>1, <1>4, <1>5 DEF Evidence, Grows

\* Nothing is completed and nothing stored: rows and results keep their backing.
LEMMA GrowthKeepsBacking ==
  ASSUME Typed, Backed, NEW w \in Workers, Grows(w), recorded' = recorded,
         \A o \in Ops : status'[o] = "completed" => status[o] = "completed"
  PROVE  CompletedIsBacked' /\ RecordIsEarned'
<1>1. \A o \in Ops : KeyOf(o)' = KeyOf(o)
  BY DEF Grows, KeyOf
<1>2. CompletedIsBacked'
  BY <1>1 DEF Backed, CompletedIsBacked, Grows
<1>3. ASSUME NEW k \in recorded
      PROVE  /\ runs'[k] > 0
             /\ \E o \in Ops : KeyOf(o)' = k /\ "completed" \in steps'[o]
  <2>1. runs[k] > 0 /\ runs[k] \in Nat /\ runs'[k] \in Nat /\ runs[k] <= runs'[k]
    <3>1. k \in Subjects /\ runs[k] > 0
      BY <1>3 DEF Backed, RecordIsEarned, Typed, TypeOK, Subjects
    <3> QED
      BY <3>1 DEF Typed, TypeOK, Grows
  <2>2. PICK o \in Ops : KeyOf(o) = k /\ "completed" \in steps[o]
    BY <1>3 DEF Backed, RecordIsEarned
  <2> QED
    BY <1>1, <2>1, <2>2 DEF Grows
<1> QED
  BY <1>2, <1>3 DEF RecordIsEarned

\* The slot that moves: it finds or writes the evidence its next position asks
\* for, and completes or stores only on evidence.
LEMMA HandlerKeepsBacked ==
  ASSUME Typed, Backed, NEW w \in Workers, HandlerStep(w) \/ DbFault(w)
  PROVE  Evidence(w)' /\ CompletedIsBacked' /\ RecordIsEarned'
<1> DEFINE o == wop[w]
           k == KeyOf(o)
<1>1. /\ Grows(w) /\ HandlerMove(w)
      /\ o \in Ops /\ k \in Keys \cup {NoKey} /\ wop'[w] = o /\ KeyOf(o)' = k
      /\ NoKey \notin Keys
  BY HandlerGrows, HandlerMoves, ConstantsAssumption DEF Grows, KeyOf
<1>2. Evidence(w)
  BY DEF Backed
<1>3. /\ recorded' = recorded
      /\ \A p \in Ops : status'[p] = "completed" => status[p] = "completed"
      => CompletedIsBacked' /\ RecordIsEarned'
  BY <1>1, GrowthKeepsBacking
<1> USE DEF Typed, TypeOK, InsertStep, UpdateStatus, WriteStep, WriteStatus, WriteRecord,
            AnswerLost, FailureStatus, Goto, dbVars
<1>4. CASE Load(w)
  <2>1. wpc'[w] \in {"nack", "hit_step", "claim"} /\ (wpc'[w] = "hit_step" => k \in recorded)
    BY <1>4 DEF Load, Hit
  <2> QED
    BY <1>1, <1>3, <1>4, <2>1 DEF Load, Evidence
<1>5. CASE HitStep(w)
  BY <1>1, <1>2, <1>3, <1>5 DEF HitStep, Evidence
<1>6. CASE HitComplete(w)
  <2>1. Evidence(w)'
    BY <1>1, <1>6 DEF HitComplete, Evidence
  <2>2. CompletedIsBacked'
    BY <1>1, <1>2, <1>6 DEF HitComplete, Evidence, Backed, CompletedIsBacked, KeyOf
  <2>3. RecordIsEarned'
    BY <1>1, <1>6 DEF HitComplete, Backed, RecordIsEarned, KeyOf
  <2> QED
    BY <2>1, <2>2, <2>3
<1>7. CASE Claim(w)
  BY <1>1, <1>3, <1>7 DEF Claim, Evidence
<1>8. CASE TakenStep(w)
  BY <1>1, <1>3, <1>8 DEF TakenStep, Evidence
<1>9. CASE Execute(w)
  <2>1. wpc'[w] \in {"step", "fail_step"} /\ status' = status /\ recorded' = recorded
    BY <1>9 DEF Execute
  <2>2. wpc'[w] = "step" /\ k # NoKey => runs'[k] > 0
    <3>1. wpc'[w] = "step" => runs' = [runs EXCEPT ![Subject(o)] = @ + 1]
      BY <1>9 DEF Execute
    <3>2. k # NoKey => Subject(o) = k /\ k \in Subjects
      BY <1>1 DEF Subject, Subjects
    <3> QED
      BY <1>1, <3>1, <3>2, RunUpdate
  <2> QED
    BY <1>1, <1>3, <2>1, <2>2 DEF Evidence
<1>10. CASE CompletedStep(w)
  <2>1. /\ wpc[w] = "step" /\ wpc'[w] = "save"
        /\ "completed" \in steps'[o]
        /\ UNCHANGED <<status, recorded, runs>>
    BY <1>1, <1>10 DEF CompletedStep
  <2> QED
    BY <1>1, <1>2, <1>3, <2>1 DEF Evidence
<1>11. CASE SaveRecord(w)
  <2>1. /\ wpc[w] = "save" /\ wpc'[w] = "complete"
        /\ recorded' = recorded \cup ({k} \ {NoKey})
        /\ UNCHANGED <<status, steps, runs>>
    BY <1>11 DEF SaveRecord
  <2>2. Evidence(w)'
    BY <1>1, <1>2, <2>1 DEF Evidence
  <2>3. CompletedIsBacked'
    BY <1>1, <2>1 DEF Backed, CompletedIsBacked, KeyOf, Grows
  <2>4. RecordIsEarned'
    BY <1>1, <1>2, <2>1 DEF Backed, RecordIsEarned, Evidence, KeyOf, Grows
  <2> QED
    BY <2>2, <2>3, <2>4
<1>12. CASE Complete(w)
  <2>1. Evidence(w)'
    BY <1>1, <1>12 DEF Complete, Evidence
  <2>2. CompletedIsBacked'
    BY <1>1, <1>2, <1>12 DEF Complete, Evidence, Backed, CompletedIsBacked, KeyOf
  <2>3. RecordIsEarned'
    BY <1>1, <1>12 DEF Complete, Backed, RecordIsEarned, KeyOf
  <2> QED
    BY <2>1, <2>2, <2>3
<1>13. CASE FailStep(w)
  BY <1>1, <1>3, <1>13 DEF FailStep, Evidence
<1>14. CASE FailStatus(w)
  BY <1>1, <1>3, <1>14 DEF FailStatus, Evidence
<1>15. CASE DbFault(w)
  <2>1. wpc'[w] \in {"nack", "fail_step"} /\ runs' = runs
    BY <1>15 DEF DbFault
  <2>2. Evidence(w)'
    BY <1>1, <2>1 DEF Evidence
  <2>3. CASE recorded' = recorded /\ status' = status
    BY <1>3, <2>2, <2>3
  <2>4. CASE /\ status' = [status EXCEPT ![o] = "completed"]
             /\ wpc[w] \in {"hit_complete", "complete"}
             /\ UNCHANGED <<steps, recorded>>
    <3>1. CompletedIsBacked'
      BY <1>1, <1>2, <2>4 DEF Evidence, Backed, CompletedIsBacked, KeyOf, Grows
    <3>2. RecordIsEarned'
      BY <1>1, <2>1, <2>4 DEF Backed, RecordIsEarned, KeyOf, Grows
    <3> QED
      BY <2>2, <3>1, <3>2
  <2>5. CASE /\ status' = [status EXCEPT ![o] = "processing"]
                \/ status' = [status EXCEPT ![o] = FailureStatus(w)]
             /\ UNCHANGED <<steps, recorded>>
    BY <1>3, <2>2, <2>5 DEF FailureStatus
  <2>6. CASE /\ wpc[w] = "save" /\ recorded' = recorded \cup ({k} \ {NoKey})
             /\ UNCHANGED <<status, steps>>
    <3>1. CompletedIsBacked'
      BY <1>1, <2>6 DEF Backed, CompletedIsBacked, KeyOf, Grows
    <3>2. RecordIsEarned'
      BY <1>1, <1>2, <2>1, <2>6 DEF Backed, RecordIsEarned, Evidence, KeyOf, Grows
    <3> QED
      BY <2>2, <3>1, <3>2
  <2> QED
    BY <1>15, <2>3, <2>4, <2>5, <2>6 DEF DbFault
<1> QED
  BY <1>4, <1>5, <1>6, <1>7, <1>8, <1>9, <1>10, <1>11, <1>12, <1>13, <1>14, <1>15 DEF HandlerStep

LEMMA BackedStep ==
  ASSUME Typed, Backed, [Next]_vars
  PROVE  Backed'
<1>1. ASSUME NEW w \in Workers, HandlerStep(w) \/ DbFault(w) PROVE Backed'
  <2>1. Grows(w) /\ HandlerMove(w) /\ wpc \in [Workers -> WorkerPcs]
    BY <1>1, HandlerGrows, HandlerMoves DEF Typed, TypeOK
  <2>2. ASSUME NEW v \in Workers PROVE Evidence(v)'
    <3>1. CASE v = w
      BY <1>1, <3>1, HandlerKeepsBacked
    <3>2. CASE v # w /\ Working(v)
      BY <2>1, <3>2, OthersKeepEvidence
    <3>3. CASE v # w /\ ~Working(v)
      BY <2>1, <3>3 DEF Working, Evidence, Grows
    <3> QED
      BY <3>1, <3>2, <3>3
  <2> QED
    BY <1>1, <2>2, HandlerKeepsBacked DEF Backed
<1>2. CASE ~ \E w \in Workers : HandlerStep(w) \/ DbFault(w)
  BY <1>2, QuietSteps, QuietKeepsBacked
<1> QED
  BY <1>1, <1>2

LEMMA BackedInvariant == Spec => [](Typed /\ Backed)
<1>1. Init => Typed /\ Backed
  <2>1. Init => Backed
    BY DEF Init, Backed, Evidence, CompletedIsBacked, RecordIsEarned
  <2> QED
    BY <2>1, TypedInit
<1>2. Typed /\ Backed /\ [Next]_vars => (Typed /\ Backed)'
  BY TypedStep, BackedStep
<1> QED
  BY <1>1, <1>2, PTL DEF Spec

\* A completed row has its step and, if it is keyed, its stored result.
THEOREM CompletedBacked == Spec => []CompletedIsBacked
<1>1. Typed /\ Backed => CompletedIsBacked
  BY DEF Backed
<1> QED
  BY <1>1, BackedInvariant, PTL

\* A stored result stems from an execution that returned and was written down.
THEOREM RecordEarned == Spec => []RecordIsEarned
<1>1. Typed /\ Backed => RecordIsEarned
  BY DEF Backed
<1> QED
  BY <1>1, BackedInvariant, PTL

-----------------------------------------------------------------------------
(***************************************************************************)
(* Places.  The jobs of an operation are in the queue of its definition or *)
(* in a queue that a body with its key names (its own body among them).    *)
(***************************************************************************)
Keyed(o) == KeyOf(o) # NoKey

\* A call enqueues its own row or the row that has its key.
CallFacts ==
  \A r \in Requests : rpc[r] \in {"add", "mark"} =>
    rop[r] = r \/ (input[rop[r]].key = input[r].key /\ input[r].key # NoKey)

QueueFacts ==
  \A q \in Queues, o \in Ops : HasJob(q, o) => q \in QueuesOf(input[o])

Placed == CallFacts /\ QueueFacts

\* queue.add into a queue of the operation keeps every job in its place.
LEMMA AddKeepsPlace ==
  ASSUME Typed, QueueFacts, NEW q \in Queues, NEW o \in Ops, AddIfAbsent(q, o),
         q \in QueuesOf(input[o]), input' = input
  PROVE  QueueFacts'
<1>1. CASE HasJob(q, o)
  BY <1>1 DEF AddIfAbsent, QueueFacts, HasJob
<1>2. CASE ~HasJob(q, o)
  <2>1. \A p \in Queues, x \in Ops : p # q \/ x # o => job'[p][x] = job[p][x]
    BY <1>2 DEF AddIfAbsent, SetJob, Typed, TypeOK
  <2> QED
    BY <2>1 DEF QueueFacts, HasJob
<1> QED
  BY <1>1, <1>2

LEMMA PlacedStep ==
  ASSUME Typed, Placed, [Next]_vars
  PROVE  Placed'
<1> USE DEF Typed, TypeOK, Placed, dbVars, reqVars, workVars, recVars, budgets
<1>1. ASSUME NEW r \in Requests, RequestStep(r) \/ RequestDies(r) PROVE Placed'
  <2>1. CASE CreateRow(r)
    BY <2>1 DEF CreateRow, CallFacts, QueueFacts, HasJob
  <2>2. CASE ReuseRow(r)
    BY <2>2 DEF ReuseRow, RowsWithKey, CallFacts, QueueFacts, HasJob
  <2>3. CASE AddJob(r)
    <3>1. rop[r] \in Ops /\ input[r] \in Inputs /\ input[r].queue \in Queues
      BY <2>3, ConstantsAssumption DEF AddJob, NameFacts, Ops, InputRecord
    <3>2. input[r].queue \in QueuesOf(input[rop[r]])
      BY <2>3, <3>1 DEF AddJob, CallFacts, QueuesOf
    <3>3. QueueFacts'
      BY <2>3, <3>1, <3>2, AddKeepsPlace DEF AddJob
    <3>4. CallFacts'
      BY <2>3 DEF AddJob, CallFacts
    <3> QED
      BY <3>3, <3>4
  <2>4. CASE MarkQueued(r)
    BY <2>4 DEF MarkQueued, EndRequest, CallFacts, QueueFacts, HasJob
  <2>5. CASE RequestDies(r)
    BY <2>5 DEF RequestDies, EndRequest, CallFacts, QueueFacts, HasJob
  <2> QED
    BY <1>1, <2>1, <2>2, <2>3, <2>4, <2>5 DEF RequestStep
<1>2. ASSUME UNCHANGED <<input, reqVars>>,
             \A q \in Queues, o \in Ops : HasJob(q, o)' => HasJob(q, o)
      PROVE  Placed'
  BY <1>2 DEF CallFacts, QueueFacts
<1>3. ASSUME NEW w \in Workers, NEW o \in Ops, Take(w, o) PROVE Placed'
  BY <1>2, <1>3, ConstantsAssumption DEF Take, SetJobState, SetJob, HasJob, JobRecord
<1>4. ASSUME NEW w \in Workers, HandlerStep(w) \/ DbFault(w) PROVE Placed'
  BY <1>2, <1>4, HandlerMoves DEF HandlerMove, HasJob
<1>5. ASSUME NEW w \in Workers, Ack(w) \/ Nack(w) \/ Crash(w) \/ Restart(w) PROVE Placed'
  <2>1. Ack(w) \/ Nack(w) => /\ wop[w] \in Ops /\ WorkerQueue[w] \in Queues
                            /\ job[WorkerQueue[w]][wop[w]].state = "active"
    BY ConstantsAssumption DEF Ack, Nack, SlotFacts, Working
  <2>2. CASE Ack(w)
    BY <1>2, <2>1, <2>2 DEF Ack, SetJobState, SetJob, HasJob, JobRecord
  <2>3. CASE Nack(w)
    BY <1>2, <2>1, <2>3 DEF Nack, SetJob, HasJob, JobRecord
  <2>4. CASE Crash(w) \/ Restart(w)
    BY <1>2, <2>4 DEF Crash, Restart, HasJob
  <2> QED
    BY <1>5, <2>2, <2>3, <2>4
<1>6. ASSUME NEW q \in Queues, NEW o \in Ops, RedisStep(q, o) \/ Evict(q, o) PROVE Placed'
  <2>1. CASE Promote(q, o)
    BY <1>2, <2>1 DEF Promote, SetJobState, SetJob, HasJob, JobRecord
  <2>2. CASE Stalled(q, o)
    <3>1. HasJob(q, o)
      BY <2>2 DEF Stalled, HasJob
    <3>2. ASSUME NEW j, SetJob(q, o, j) PROVE Placed'
      <4>1. \A p \in Queues, x \in Ops : HasJob(p, x)' => HasJob(p, x)
        BY <3>1, <3>2 DEF SetJob, HasJob
      <4> QED
        BY <1>2, <2>2, <4>1 DEF Stalled
    <3>3. \/ SetJob(q, o, [job[q][o] EXCEPT !.state = "waiting", !.stalls = @ + 1])
          \/ SetJob(q, o, [job[q][o] EXCEPT !.state = "failed"])
      BY <2>2 DEF Stalled, SetJobState
    <3> QED
      BY <3>2, <3>3
  <2>3. CASE Evict(q, o)
    BY <1>2, <2>3 DEF Evict, SetJob, HasJob, NoJob
  <2> QED
    BY <1>6, <2>1, <2>2, <2>3 DEF RedisStep
<1>7. ASSUME NEW c \in Reconcilers, ReconcilerStep(c) \/ PassAborted(c) PROVE Placed'
  <2>1. CASE Requeue(c)
    <3>1. cur[c] \in Ops /\ HomeQueue[ActionOf(cur[c])] \in Queues
      BY <2>1, ConstantsAssumption DEF Requeue, NameFacts, Ops, ActionOf, InputRecord
    <3>2. HomeQueue[ActionOf(cur[c])] \in QueuesOf(input[cur[c]])
      BY DEF ActionOf, QueuesOf
    <3>3. QueueFacts'
      BY <2>1, <3>1, <3>2, AddKeepsPlace DEF Requeue
    <3>4. CallFacts'
      BY <2>1 DEF Requeue, CallFacts
    <3> QED
      BY <3>3, <3>4
  <2>2. CASE ~Requeue(c)
    BY <1>2, <1>7, <2>2 DEF ReconcilerStep, Select, Check, RequeueThrows, PassAborted, HasJob
  <2> QED
    BY <2>1, <2>2
<1>8. CASE UNCHANGED vars
  BY <1>2, <1>8 DEF vars, HasJob
<1> QED
  BY <1>1, <1>3, <1>4, <1>5, <1>6, <1>7, <1>8, NextCases

LEMMA PlacedInvariant == Spec => [](Typed /\ Backed /\ Placed)
<1>1. Init => Placed
  BY DEF Init, Placed, CallFacts, QueueFacts, HasJob, NoJob
<1>2. Typed /\ Placed /\ [Next]_vars => Placed'
  BY PlacedStep
<1> QED
  BY <1>1, <1>2, BackedInvariant, PTL DEF Spec

-----------------------------------------------------------------------------
(***************************************************************************)
(* Exclusion.  When every keyed operation has one queue and every queue    *)
(* one slot, all jobs of a key pass through one slot: between its lookup   *)
(* and its stored result nobody else stores or executes for that key.      *)
(***************************************************************************)

\* Two jobs of one key in the hands of slots are in the hands of one slot.
LEMMA OneSlotPerKey ==
  ASSUME ConsistentRouting, OneSlotPerQueue, Typed, Placed,
         NEW v \in Workers, NEW w \in Workers, Working(v), Working(w),
         Keyed(wop[v]), KeyOf(wop[v]) = KeyOf(wop[w])
  PROVE  v = w
<1>1. /\ wop[v] \in Ops /\ HasJob(WorkerQueue[v], wop[v]) /\ WorkerQueue[v] \in Queues
      /\ wop[w] \in Ops /\ HasJob(WorkerQueue[w], wop[w]) /\ WorkerQueue[w] \in Queues
  BY ConstantsAssumption DEF Typed, SlotFacts, HasJob
<1>2. input[wop[v]] \in Inputs /\ input[wop[w]] \in Inputs
  BY <1>1 DEF Typed, TypeOK, Ops
<1>3. ASSUME NEW i \in Inputs, NEW q \in QueuesOf(i), EffectiveKey(i) # NoKey
      PROVE  q = i.queue
  BY <1>3 DEF ConsistentRouting, QueuesOf
<1>4. WorkerQueue[v] = input[wop[v]].queue /\ WorkerQueue[w] = input[wop[w]].queue
  BY <1>1, <1>2, <1>3 DEF Placed, QueueFacts, Keyed, KeyOf
<1>5. input[wop[v]].queue = input[wop[w]].queue
  BY <1>2 DEF ConsistentRouting, Keyed, KeyOf
<1> QED
  BY <1>4, <1>5 DEF OneSlotPerQueue

(***************************************************************************)
(* Freshness.  From the lookup that misses until its result is stored the  *)
(* key of the slot has no stored result.  A store whose answer was lost    *)
(* leaves the slot to write down a failure; from the claim until then its  *)
(* row is unfinished.                                                      *)
(***************************************************************************)
FreshPcs == {"claim", "taken", "execute", "step", "save"}

ClaimedPcs == {"taken", "execute", "step", "save", "complete", "fail_step", "fail_status"}

Fresh ==
  \A w \in Workers :
    wpc[w] \in FreshPcs /\ Keyed(wop[w]) => KeyOf(wop[w]) \notin recorded

Unfinished ==
  \A w \in Workers :
    wpc[w] \in ClaimedPcs /\ Keyed(wop[w]) => status[wop[w]] # "completed"

\* Only SaveRecord stores, and only a missed lookup makes a slot fresh.
LEMMA HandlerFresh ==
  ASSUME Typed, NEW w \in Workers, HandlerStep(w) \/ DbFault(w)
  PROVE  /\ wpc'[w] \in FreshPcs =>
              /\ recorded' = recorded
              /\ wpc[w] \in FreshPcs \/ ~Hit(wop[w])
         /\ \/ recorded' = recorded
            \/ wpc[w] = "save" /\ recorded' = recorded \cup ({KeyOf(wop[w])} \ {NoKey})
<1> USE DEF Typed, TypeOK, InsertStep, UpdateStatus, WriteStep, WriteStatus, WriteRecord,
            AnswerLost, FailureStatus, Goto, dbVars, FreshPcs
<1>1. CASE Load(w) BY <1>1 DEF Load
<1>2. CASE HitStep(w) BY <1>2 DEF HitStep
<1>3. CASE HitComplete(w) BY <1>3 DEF HitComplete
<1>4. CASE Claim(w) BY <1>4 DEF Claim
<1>5. CASE TakenStep(w) BY <1>5 DEF TakenStep
<1>6. CASE Execute(w) BY <1>6 DEF Execute
<1>7. CASE CompletedStep(w) BY <1>7 DEF CompletedStep
<1>8. CASE SaveRecord(w) BY <1>8 DEF SaveRecord
<1>9. CASE Complete(w) BY <1>9 DEF Complete
<1>10. CASE FailStep(w) BY <1>10 DEF FailStep
<1>11. CASE FailStatus(w) BY <1>11 DEF FailStatus
<1>12. CASE DbFault(w) BY <1>12 DEF DbFault
<1> QED
  BY <1>1, <1>2, <1>3, <1>4, <1>5, <1>6, <1>7, <1>8, <1>9, <1>10, <1>11, <1>12 DEF HandlerStep

LEMMA FreshStep ==
  ASSUME ConsistentRouting, OneSlotPerQueue, Typed, Placed, Fresh, [Next]_vars
  PROVE  Fresh'
<1>1. ASSUME NEW w \in Workers, HandlerStep(w) \/ DbFault(w),
             NEW v \in Workers, (wpc[v] \in FreshPcs)', Keyed(wop[v])'
      PROVE  (KeyOf(wop[v]) \notin recorded)'
  <2>1. Grows(w) /\ HandlerMove(w)
    BY <1>1, HandlerGrows, HandlerMoves
  <2>2. KeyOf(wop[v])' = KeyOf(wop[v]) /\ Keyed(wop[v])
    BY <1>1, <2>1 DEF Grows, KeyOf, Keyed
  <2>3. CASE v = w
    BY <1>1, <2>2, <2>3, HandlerFresh DEF Fresh, Hit, Keyed
  <2>4. CASE v # w
    <3>1. wpc[v] \in FreshPcs /\ KeyOf(wop[v]) \notin recorded
      BY <1>1, <2>1, <2>2, <2>4 DEF Grows, Fresh
    <3>2. wpc[w] = "save" => KeyOf(wop[v]) # KeyOf(wop[w])
      BY <2>2, <2>4, <3>1, OneSlotPerKey DEF Working, FreshPcs
    <3> QED
      BY <1>1, <2>2, <3>1, <3>2, HandlerFresh
  <2> QED
    BY <2>3, <2>4
<1>2. CASE ~ \E w \in Workers : HandlerStep(w) \/ DbFault(w)
  <2>1. Quiet
    BY <1>2, QuietSteps
  <2>2. ASSUME NEW v \in Workers, (wpc[v] \in FreshPcs)', Keyed(wop[v])'
        PROVE  (KeyOf(wop[v]) \notin recorded)'
    BY <2>1, <2>2 DEF Quiet, Fresh, FreshPcs, Keyed, KeyOf
  <2> QED
    BY <2>2 DEF Fresh
<1> QED
  BY <1>1, <1>2 DEF Fresh

\* A slot is only claimed by writing "processing", and nobody but the slot
\* itself completes its row.
LEMMA HandlerClaims ==
  ASSUME Typed, NEW w \in Workers, HandlerStep(w) \/ DbFault(w),
         wpc'[w] \in ClaimedPcs
  PROVE  \/ status'[wop[w]] \in {"processing", "retry_scheduled", "failed"}
         \/ wpc[w] \in ClaimedPcs /\ status' = status
<1>1. wop[w] \in Ops
  BY HandlerMoves DEF HandlerMove, Typed, SlotFacts
<1> USE <1>1 DEF Typed, TypeOK, InsertStep, UpdateStatus, WriteStep, WriteStatus, WriteRecord,
                 AnswerLost, FailureStatus, Goto, dbVars, ClaimedPcs
<1>2. CASE Load(w) BY <1>2 DEF Load
<1>3. CASE HitStep(w) BY <1>3 DEF HitStep
<1>4. CASE HitComplete(w) BY <1>4 DEF HitComplete
<1>5. CASE Claim(w) BY <1>5 DEF Claim
<1>6. CASE TakenStep(w) BY <1>6 DEF TakenStep
<1>7. CASE Execute(w) BY <1>7 DEF Execute
<1>8. CASE CompletedStep(w) BY <1>8 DEF CompletedStep
<1>9. CASE SaveRecord(w) BY <1>9 DEF SaveRecord
<1>10. CASE Complete(w) BY <1>10 DEF Complete
<1>11. CASE FailStep(w) BY <1>11 DEF FailStep
<1>12. CASE FailStatus(w) BY <1>12 DEF FailStatus
<1>13. CASE DbFault(w) BY <1>13 DEF DbFault
<1> QED
  BY <1>2, <1>3, <1>4, <1>5, <1>6, <1>7, <1>8, <1>9, <1>10, <1>11, <1>12, <1>13 DEF HandlerStep

\* A handler writes the status of the row it works on and no other.
LEMMA HandlerWrites ==
  ASSUME Typed, NEW w \in Workers, HandlerStep(w) \/ DbFault(w)
  PROVE  /\ \A o \in Ops : o # wop[w] => status'[o] = status[o]
         /\ \/ status' = status
            \/ wpc[w] \in {"claim", "fail_status"}
            \/ status'[wop[w]] = "completed"
<1>1. wop[w] \in Ops
  BY HandlerMoves DEF HandlerMove, Typed, SlotFacts
<1> QED
  BY <1>1 DEF Typed, TypeOK, HandlerStep, InsertStep, UpdateStatus, WriteStep, WriteStatus,
              WriteRecord, AnswerLost, FailureStatus, Load, HitStep, HitComplete,
     Claim, TakenStep, Execute, CompletedStep, SaveRecord, Complete, FailStep, FailStatus,
     DbFault, dbVars

LEMMA UnfinishedStep ==
  ASSUME ConsistentRouting, OneSlotPerQueue, Typed, Placed, Unfinished, [Next]_vars
  PROVE  Unfinished'
<1>1. ASSUME NEW w \in Workers, HandlerStep(w) \/ DbFault(w),
             NEW v \in Workers, (wpc[v] \in ClaimedPcs)', Keyed(wop[v])'
      PROVE  (status[wop[v]] # "completed")'
  <2>1. Grows(w) /\ HandlerMove(w)
    BY <1>1, HandlerGrows, HandlerMoves
  <2>2. wop'[v] = wop[v] /\ Keyed(wop[v])
    BY <1>1, <2>1 DEF Grows, KeyOf, Keyed
  <2>3. CASE v = w
    BY <1>1, <2>2, <2>3, HandlerClaims DEF Unfinished
  <2>4. CASE v # w
    <3>1. wpc[v] \in ClaimedPcs /\ status[wop[v]] # "completed"
      BY <1>1, <2>1, <2>2, <2>4 DEF Grows, Unfinished
    <3>2. Working(v) /\ Working(w) /\ wop[v] \in Ops
      BY <2>1, <3>1 DEF HandlerMove, Working, ClaimedPcs, Typed, SlotFacts
    <3>3. wop[v] # wop[w]
      BY <2>2, <2>4, <3>2, OneSlotPerKey
    <3> QED
      BY <1>1, <2>2, <3>1, <3>2, <3>3, HandlerWrites
  <2> QED
    BY <2>3, <2>4
<1>2. CASE ~ \E w \in Workers : HandlerStep(w) \/ DbFault(w)
  <2>1. Quiet
    BY <1>2, QuietSteps
  <2>2. ASSUME NEW v \in Workers, (wpc[v] \in ClaimedPcs)', Keyed(wop[v])'
        PROVE  (status[wop[v]] # "completed")'
    <3>1. wpc'[v] = wpc[v] /\ wop'[v] = wop[v] /\ Keyed(wop[v])
      BY <2>1, <2>2 DEF Quiet, ClaimedPcs, Keyed, KeyOf
    <3>2. wop[v] \in Ops /\ status[wop[v]] # "completed"
      BY <2>2, <3>1 DEF Unfinished, ClaimedPcs, Typed, SlotFacts, Working
    <3> QED
      BY <2>1, <3>1, <3>2 DEF Quiet
  <2> QED
    BY <2>2 DEF Unfinished
<1> QED
  BY <1>1, <1>2 DEF Unfinished

(***************************************************************************)
(* Payment.  While the result of a key is not stored, and no slot carries  *)
(* a result towards the store, every run of it was lost to a crash or a    *)
(* failing statement.                                                      *)
(***************************************************************************)
Carries(w, k) == wpc[w] \in {"step", "save"} /\ KeyOf(wop[w]) = k

Paid ==
  \A k \in Keys :
    /\ runs[k] <= 1 + crashes + dbFaults
    /\ k \notin recorded /\ (\A w \in Workers : ~Carries(w, k)) => runs[k] <= crashes + dbFaults

\* What one handler step does to the runs of a key and to those who carry it.
LEMMA HandlerPays ==
  ASSUME Typed, NEW w \in Workers, HandlerStep(w) \/ DbFault(w), NEW k \in Keys
  PROVE  /\ \/ runs'[k] = runs[k]
            \/ /\ runs'[k] = runs[k] + 1 /\ wpc[w] = "execute" /\ KeyOf(wop[w]) = k
               /\ Carries(w, k)'
         /\ crashes' = crashes /\ dbFaults' \in {dbFaults, dbFaults + 1}
         /\ Carries(w, k) => Carries(w, k)' \/ k \in recorded' \/ dbFaults' = dbFaults + 1
<1>1. /\ Grows(w) /\ wop'[w] = wop[w] /\ KeyOf(wop[w])' = KeyOf(wop[w])
      /\ wop[w] \in Ops /\ k \in Subjects
  BY HandlerGrows DEF Grows, KeyOf, Subjects
<1> USE DEF Typed, TypeOK, InsertStep, UpdateStatus, WriteStep, WriteStatus, WriteRecord,
            AnswerLost, FailureStatus, Goto, Carries, budgets
<1>2. CASE Execute(w)
  <2>1. CASE runs' = runs /\ wpc'[w] = "fail_step"
    BY <1>1, <1>2, <2>1 DEF Execute
  <2>2. CASE runs' = [runs EXCEPT ![Subject(wop[w])] = @ + 1] /\ wpc'[w] = "step"
    <3>1. Subject(wop[w]) = k => KeyOf(wop[w]) = k
      BY <1>1, ConstantsAssumption DEF Subject, Ops
    <3>2. Subject(wop[w]) \in Subjects
      BY <1>1, ConstantsAssumption DEF Grows, Subject, Subjects, Ops
    <3>3. /\ Subject(wop[w]) = k => runs'[k] = runs[k] + 1
          /\ Subject(wop[w]) # k => runs'[k] = runs[k]
      BY <1>1, <2>2, <3>2
    <3> QED
      BY <1>1, <1>2, <2>2, <3>1, <3>3 DEF Execute
  <2> QED
    BY <1>2, <2>1, <2>2 DEF Execute
<1>3. CASE SaveRecord(w)
  BY <1>1, <1>3, ConstantsAssumption DEF SaveRecord
<1>4. CASE CompletedStep(w)
  BY <1>1, <1>4 DEF CompletedStep
<1>5. CASE DbFault(w)
  BY <1>1, <1>5 DEF DbFault
<1>6. CASE \/ Load(w) \/ HitStep(w) \/ HitComplete(w) \/ Claim(w) \/ TakenStep(w)
           \/ Complete(w) \/ FailStep(w) \/ FailStatus(w)
  BY <1>6 DEF Load, HitStep, HitComplete, Claim, TakenStep, Complete, FailStep, FailStatus
<1> QED
  BY <1>2, <1>3, <1>4, <1>5, <1>6 DEF HandlerStep

LEMMA PaidStep ==
  ASSUME ConsistentRouting, OneSlotPerQueue, Typed, Placed, Fresh, Paid, [Next]_vars
  PROVE  Paid'
<1> USE ConstantsAssumption
<1>0. /\ crashes \in Nat /\ dbFaults \in Nat
      /\ \A k \in Keys : runs[k] \in Nat
  BY DEF Typed, TypeOK, Subjects
<1>1. ASSUME NEW w \in Workers, HandlerStep(w) \/ DbFault(w), NEW k \in Keys
      PROVE  /\ runs'[k] <= 1 + crashes' + dbFaults'
             /\ (k \notin recorded /\ \A v \in Workers : ~Carries(v, k))'
                  => runs'[k] <= crashes' + dbFaults'
  <2>1. /\ Grows(w)
        /\ \/ runs'[k] = runs[k]
           \/ /\ runs'[k] = runs[k] + 1 /\ wpc[w] = "execute" /\ KeyOf(wop[w]) = k
              /\ Carries(w, k)'
        /\ crashes' = crashes /\ dbFaults' \in {dbFaults, dbFaults + 1}
        /\ Carries(w, k) => Carries(w, k)' \/ k \in recorded' \/ dbFaults' = dbFaults + 1
    BY <1>1, HandlerGrows, HandlerPays
  <2>2. \A v \in Workers : v # w => Carries(v, k)' = Carries(v, k)
    BY <2>1 DEF Grows, Carries, KeyOf
  <2>3. /\ runs[k] <= 1 + crashes + dbFaults
        /\ k \notin recorded /\ (\A v \in Workers : ~Carries(v, k))
             => runs[k] <= crashes + dbFaults
    BY DEF Paid
  <2>4. CASE wpc[w] = "execute" /\ KeyOf(wop[w]) = k
    <3>1. k \notin recorded
      BY <2>4 DEF Fresh, FreshPcs, Keyed
    <3>2. ~Carries(w, k)
      BY <2>4 DEF Carries
    <3>3. ASSUME NEW v \in Workers, v # w PROVE ~Carries(v, k)
      BY <2>4, <3>3, OneSlotPerKey DEF Carries, Working, Keyed
    <3> QED
      BY <1>0, <2>1, <2>3, <3>1, <3>2, <3>3
  <2>5. CASE runs'[k] = runs[k]
    <3>1. CASE dbFaults' = dbFaults + 1
      BY <1>0, <2>1, <2>3, <2>5, <3>1
    <3>2. CASE dbFaults' = dbFaults
      <4>1. ASSUME k \notin recorded', \A v \in Workers : ~Carries(v, k)'
            PROVE  k \notin recorded /\ \A v \in Workers : ~Carries(v, k)
        <5>1. ~Carries(w, k)
          BY <1>0, <2>1, <3>2, <4>1
        <5> QED
          BY <2>1, <2>2, <4>1, <5>1 DEF Grows
      <4> QED
        BY <1>0, <2>1, <2>3, <2>5, <3>2, <4>1
    <3> QED
      BY <2>1, <3>1, <3>2
  <2> QED
    BY <2>1, <2>4, <2>5
<1>2. CASE ~ \E w \in Workers : HandlerStep(w) \/ DbFault(w)
  <2>1. Quiet
    BY <1>2, QuietSteps
  <2>2. ASSUME NEW k \in Keys
        PROVE  /\ runs'[k] <= 1 + crashes' + dbFaults'
               /\ (k \notin recorded /\ \A v \in Workers : ~Carries(v, k))'
                    => runs'[k] <= crashes' + dbFaults'
    <3>1. /\ runs'[k] = runs[k] /\ recorded' = recorded
          /\ crashes' \in {crashes, crashes + 1} /\ dbFaults' \in {dbFaults, dbFaults + 1}
      BY <2>1 DEF Quiet
    <3>2. crashes' = crashes => \A v \in Workers : Carries(v, k) => Carries(v, k)'
      BY <1>0, <2>1 DEF Quiet, Carries, KeyOf
    <3>3. /\ runs[k] <= 1 + crashes + dbFaults
          /\ k \notin recorded /\ (\A v \in Workers : ~Carries(v, k))
               => runs[k] <= crashes + dbFaults
      BY DEF Paid
    <3>4. CASE crashes' = crashes
      BY <1>0, <3>1, <3>2, <3>3, <3>4
    <3>5. CASE crashes' = crashes + 1
      BY <1>0, <3>1, <3>3, <3>5
    <3> QED
      BY <3>1, <3>4, <3>5
  <2> QED
    BY <2>2 DEF Paid
<1> QED
  BY <1>1, <1>2 DEF Paid

Exclusive == Typed /\ Backed /\ Placed /\ Fresh /\ Unfinished /\ Paid

LEMMA ExclusiveInvariant ==
  ASSUME ConsistentRouting, OneSlotPerQueue
  PROVE  Spec => []Exclusive
<1>1. Init => Fresh /\ Unfinished /\ Paid
  BY DEF Init, Fresh, FreshPcs, Unfinished, ClaimedPcs, Paid, Subjects
<1>2. Typed /\ Placed /\ Fresh /\ [Next]_vars => Fresh'
  BY FreshStep
<1>3. Typed /\ Placed /\ Fresh /\ Paid /\ [Next]_vars => Paid'
  BY PaidStep
<1>4. Typed /\ Placed /\ Unfinished /\ [Next]_vars => Unfinished'
  BY UnfinishedStep
<1> QED
  BY <1>1, <1>2, <1>3, <1>4, PlacedInvariant, PTL DEF Spec, Exclusive

\* With consistent routing and one slot per queue every repeated run of a key
\* was caused by a crash or a failing statement.
THEOREM RepeatsPaid ==
  ASSUME ConsistentRouting, OneSlotPerQueue
  PROVE  Spec => []RepeatsArePaidFor
<1>1. Exclusive => RepeatsArePaidFor
  BY DEF Exclusive, RepeatsArePaidFor, Paid
<1> QED
  BY <1>1, ExclusiveInvariant, PTL

-----------------------------------------------------------------------------
(***************************************************************************)
(* Refinement: stored results and runs, key by key, behave as the promise  *)
(* of the idempotency keys says.                                           *)
(***************************************************************************)
LEMMA PromiseRuns ==
  ASSUME NEW k \in Keys, Promise!Run(k)
  PROVE  Promise!Next
BY DEF Promise!Next

LEMMA PromiseStep ==
  ASSUME Exclusive, [Next]_vars
  PROVE  [Promise!Next]_<<recorded, [k \in Keys |-> runs[k]]>>
<1> DEFINE perKey == [k \in Keys |-> runs[k]]
<1> USE DEF Exclusive, Typed, TypeOK
<1>1. ASSUME NEW w \in Workers, HandlerStep(w) \/ DbFault(w)
      PROVE  [Promise!Next]_<<recorded, perKey>>
  <2> DEFINE k == KeyOf(wop[w])
  <2>1. /\ Grows(w) /\ k \in Keys \cup {NoKey} /\ wop[w] \in Ops
        /\ NoKey \notin Keys /\ Keys \cap Ops = {}
    BY <1>1, HandlerGrows, ConstantsAssumption DEF Grows, Ops
  <2>2. CASE Execute(w)
    <3>1. CASE runs' = runs
      BY <2>2, <3>1 DEF Execute, dbVars
    <3>2. CASE runs' = [runs EXCEPT ![Subject(wop[w])] = @ + 1] /\ k = NoKey
      <4>1. perKey' = perKey
        BY <2>1, <3>2 DEF Subject, Subjects
      <4> QED
        BY <2>2, <4>1 DEF Execute, dbVars
    <3>3. CASE runs' = [runs EXCEPT ![Subject(wop[w])] = @ + 1] /\ k # NoKey
      <4>1. k \in Keys /\ runs' = [runs EXCEPT ![k] = @ + 1]
        BY <2>1, <3>3 DEF Subject
      <4>2. perKey' = [perKey EXCEPT ![k] = @ + 1]
        BY <4>1 DEF Subjects
      <4>3. k \notin recorded /\ recorded' = recorded
        BY <2>2, <3>3 DEF Execute, dbVars, Fresh, FreshPcs, Keyed
      <4>4. PICK x \in Keys : x = k
        BY <4>1
      <4>5. Promise!Run(x)
        BY <4>2, <4>3, <4>4 DEF Promise!Run
      <4>6. Promise!Next
        BY <4>5, PromiseRuns
      <4> QED
        BY <4>6
    <3> QED
      BY <2>2, <3>1, <3>2, <3>3 DEF Execute
  <2>3. CASE SaveRecord(w)
    <3>1. perKey' = perKey /\ recorded' = recorded \cup ({k} \ {NoKey})
      BY <2>3 DEF SaveRecord, WriteRecord
    <3>2. CASE k = NoKey
      BY <3>1, <3>2
    <3>3. CASE k # NoKey
      <4>1. k \in Keys /\ runs[k] > 0 /\ recorded' = recorded \cup {k}
        BY <2>1, <2>3, <3>1, <3>3 DEF SaveRecord, Backed, Evidence
      <4>2. Promise!Store(k)
        BY <3>1, <4>1 DEF Promise!Store
      <4> QED
        BY <4>1, <4>2 DEF Promise!Next
    <3> QED
      BY <3>2, <3>3
  <2>4. CASE DbFault(w)
    <3>1. perKey' = perKey
      BY <2>4 DEF DbFault
    <3>2. CASE recorded' = recorded
      BY <3>1, <3>2
    <3>3. CASE wpc[w] = "save" /\ k # NoKey /\ recorded' = recorded \cup {k}
      <4>1. k \in Keys /\ runs[k] > 0
        BY <2>1, <3>3 DEF Backed, Evidence
      <4>2. Promise!Store(k)
        BY <3>1, <3>3, <4>1 DEF Promise!Store
      <4> QED
        BY <4>1, <4>2 DEF Promise!Next
    <3>4. \/ recorded' = recorded
          \/ wpc[w] = "save" /\ recorded' = recorded \cup ({k} \ {NoKey})
      BY <1>1, HandlerFresh
    <3>5. k = NoKey => {k} \ {NoKey} = {}
      OBVIOUS
    <3>6. k # NoKey => {k} \ {NoKey} = {k}
      OBVIOUS
    <3> QED
      BY <3>2, <3>3, <3>4, <3>5, <3>6
  <2>5. CASE ~Execute(w) /\ ~SaveRecord(w) /\ ~DbFault(w)
    BY <1>1, <2>5 DEF HandlerStep, InsertStep, UpdateStatus, WriteStep, WriteStatus,
                      WriteRecord, AnswerLost, FailureStatus, Load, HitStep, HitComplete, Claim,
       TakenStep, CompletedStep, Complete, FailStep, FailStatus, DbFault, dbVars
  <2> QED
    BY <2>2, <2>3, <2>4, <2>5
<1>2. CASE ~ \E w \in Workers : HandlerStep(w) \/ DbFault(w)
  BY <1>2, QuietSteps DEF Quiet
<1> QED
  BY <1>1, <1>2

\* With consistent routing and one slot per queue the pipeline implements the
\* promise of its idempotency keys.
THEOREM PromiseKept ==
  ASSUME ConsistentRouting, OneSlotPerQueue
  PROVE  Spec => KeepsThePromise
<1>1. Init => Promise!Init
  BY DEF Init, Promise!Init, Subjects
<1>2. Exclusive /\ [Next]_vars => [Promise!Next]_<<recorded, [k \in Keys |-> runs[k]]>>
  BY PromiseStep
<1> QED
  BY <1>1, <1>2, ExclusiveInvariant, PTL DEF Spec, KeepsThePromise, Promise!Spec

-----------------------------------------------------------------------------
(***************************************************************************)
(* Rows.  Jobs, calls and reconciler passes only name rows whose insert    *)
(* has happened, so the insert of a row never meets one in use.            *)
(***************************************************************************)
Born(o) == rpc[o] # "insert"

RowFacts ==
  /\ \A r \in Requests : ~Born(r) => status[r] = "absent"
  /\ \A r \in Requests : rpc[r] \in {"add", "mark"} => Born(rop[r])
  /\ \A q \in Queues, o \in Ops : HasJob(q, o) => Born(o)
  /\ \A c \in Reconcilers : \A o \in batch[c] : Born(o)
  /\ \A c \in Reconcilers : cpc[c] = "add" => Born(cur[c])

\* queue.add gives at most the operation it names a job.
LEMMA AddOne ==
  ASSUME job \in [Queues -> [Ops -> JobRecord]], NEW q \in Queues, NEW o \in Ops,
         AddIfAbsent(q, o)
  PROVE  \A p \in Queues, x \in Ops : HasJob(p, x)' => HasJob(p, x) \/ x = o
BY DEF AddIfAbsent, SetJob, HasJob

LEMMA RowStep ==
  ASSUME Typed, RowFacts, [Next]_vars
  PROVE  RowFacts'
<1> USE DEF Typed, TypeOK, RowFacts, dbVars, reqVars, workVars, recVars, budgets
<1>1. ASSUME NEW r \in Requests, RequestStep(r) \/ RequestDies(r) PROVE RowFacts'
  <2>1. CASE CreateRow(r)
    BY <2>1 DEF CreateRow, Born, HasJob, Ops
  <2>2. CASE ReuseRow(r)
    BY <2>2 DEF ReuseRow, RowsWithKey, Created, Born, HasJob, Ops
  <2>3. CASE AddJob(r)
    <3>1. \A p \in Queues, x \in Ops : HasJob(p, x)' => HasJob(p, x) \/ x = rop[r]
      BY <2>3, AddOne, ConstantsAssumption DEF AddJob, NameFacts, InputRecord
    <3> QED
      BY <2>3, <3>1 DEF AddJob, Born, Ops, NameFacts
  <2>4. CASE MarkQueued(r)
    BY <2>4 DEF MarkQueued, EndRequest, Born, HasJob, Ops, NameFacts
  <2>5. CASE RequestDies(r)
    BY <2>5 DEF RequestDies, EndRequest, Born, HasJob, Ops
  <2> QED
    BY <1>1, <2>1, <2>2, <2>3, <2>4, <2>5 DEF RequestStep
<1>2. ASSUME UNCHANGED <<reqVars, recVars>>,
             \A o \in Ops : ~Born(o) => status'[o] = status[o],
             \A q \in Queues, o \in Ops : HasJob(q, o)' => HasJob(q, o)
      PROVE  RowFacts'
  BY <1>2 DEF Born, Ops
<1>3. ASSUME NEW w \in Workers, NEW o \in Ops, Take(w, o) PROVE RowFacts'
  BY <1>2, <1>3, ConstantsAssumption DEF Take, SetJobState, SetJob, HasJob, JobRecord
<1>4. ASSUME NEW w \in Workers, HandlerStep(w) \/ DbFault(w) PROVE RowFacts'
  <2>1. wop[w] \in Ops /\ Born(wop[w]) /\ HandlerMove(w)
    BY <1>4, HandlerMoves, ConstantsAssumption DEF HandlerMove, SlotFacts, HasJob
  <2>2. UNCHANGED <<reqVars, recVars, job>>
    BY <1>4, <2>1 DEF HandlerMove
  <2> QED
    BY <1>2, <1>4, <2>1, <2>2, HandlerWrites DEF HasJob
<1>5. ASSUME NEW w \in Workers, Ack(w) \/ Nack(w) \/ Crash(w) \/ Restart(w) PROVE RowFacts'
  <2>1. Ack(w) \/ Nack(w) => /\ wop[w] \in Ops /\ WorkerQueue[w] \in Queues
                            /\ job[WorkerQueue[w]][wop[w]].state = "active"
    BY ConstantsAssumption DEF Ack, Nack, SlotFacts, Working
  <2>2. CASE Ack(w)
    BY <1>2, <2>1, <2>2 DEF Ack, SetJobState, SetJob, HasJob, JobRecord
  <2>3. CASE Nack(w)
    BY <1>2, <2>1, <2>3 DEF Nack, SetJob, HasJob, JobRecord
  <2>4. CASE Crash(w) \/ Restart(w)
    BY <1>2, <2>4 DEF Crash, Restart, HasJob
  <2> QED
    BY <1>5, <2>2, <2>3, <2>4
<1>6. ASSUME NEW q \in Queues, NEW o \in Ops, RedisStep(q, o) \/ Evict(q, o) PROVE RowFacts'
  <2>1. HasJob(q, o)
    BY <1>6 DEF RedisStep, Promote, Stalled, Evict, HasJob
  <2>2. \E j : SetJob(q, o, j)
    BY <1>6 DEF RedisStep, Promote, Stalled, Evict, SetJobState
  <2>3. \A p \in Queues, x \in Ops : HasJob(p, x)' => HasJob(p, x)
    BY <2>1, <2>2 DEF SetJob, HasJob
  <2> QED
    BY <1>2, <1>6, <2>3 DEF RedisStep, Promote, Stalled, Evict
<1>7. ASSUME NEW c \in Reconcilers, ReconcilerStep(c) \/ PassAborted(c) PROVE RowFacts'
  <2>1. CASE Select(c)
    <3>1. \A o \in Candidates : Born(o)
      BY DEF Candidates, Reconciled, Born, Ops
    <3>2. \A d \in Reconcilers : batch'[d] = batch[d] \/ batch'[d] \subseteq Candidates
      BY <2>1 DEF Select, Candidates
    <3>3. \A d \in Reconcilers : cpc'[d] = "add" => cpc[d] = "add"
      BY <2>1 DEF Select
    <3> QED
      BY <2>1, <3>1, <3>2, <3>3 DEF Select, Born, HasJob
  <2>2. ASSUME NEW o \in Ops, Check(c, o) PROVE RowFacts'
    <3>1. \A d \in Reconcilers : batch'[d] \subseteq batch[d]
      BY <2>2 DEF Check
    <3>2. \A d \in Reconcilers : cpc'[d] = "add" => Born(cur'[d])
      BY <2>2 DEF Check, Born
    <3> QED
      BY <2>2, <3>1, <3>2 DEF Check, Born, HasJob
  <2>3. CASE Requeue(c)
    <3>1. \A p \in Queues, x \in Ops : HasJob(p, x)' => HasJob(p, x) \/ x = cur[c]
      <4>1. cur[c] \in Ops /\ HomeQueue[ActionOf(cur[c])] \in Queues
        BY <2>3, ConstantsAssumption DEF Requeue, NameFacts, ActionOf, InputRecord, Ops
      <4> QED
        BY <2>3, <4>1, AddOne DEF Requeue
    <3>2. \A d \in Reconcilers : cpc'[d] = "add" => cpc[d] = "add" /\ cur'[d] = cur[d]
      BY <2>3 DEF Requeue
    <3> QED
      BY <2>3, <3>1, <3>2 DEF Requeue, Born
  <2>4. CASE RequeueThrows(c) \/ PassAborted(c)
    <3>1. \A d \in Reconcilers : /\ cpc'[d] = "add" => cpc[d] = "add" /\ cur'[d] = cur[d]
                                 /\ batch'[d] \subseteq batch[d]
      BY <2>4 DEF RequeueThrows, PassAborted
    <3> QED
      BY <2>4, <3>1 DEF RequeueThrows, PassAborted, Born, HasJob
  <2> QED
    BY <1>7, <2>1, <2>2, <2>3, <2>4 DEF ReconcilerStep
<1>8. CASE UNCHANGED vars
  BY <1>2, <1>8 DEF vars, HasJob
<1> QED
  BY <1>1, <1>3, <1>4, <1>5, <1>6, <1>7, <1>8, NextCases

LEMMA RowInvariant == Spec => [](Typed /\ RowFacts)
<1>1. Init => RowFacts
  BY DEF Init, RowFacts, Born, HasJob, NoJob, Ops
<1>2. Typed /\ RowFacts /\ [Next]_vars => RowFacts'
  BY RowStep
<1> QED
  BY <1>1, <1>2, TypedInvariant, PTL DEF Spec

\* A worker that claims a row holds a fresh key, and the key of a completed
\* row is not fresh; one that writes down a failure has claimed the row; an
\* insert never meets a completed row.
LEMMA ReopenStep ==
  ASSUME Exclusive, RowFacts, [Next]_vars, NEW o \in Ops,
         status[o] = "completed", status'[o] # "completed", Keyed(o)
  PROVE  \E r \in Requests : rpc[r] = "mark" /\ rop[r] = o /\ rpc'[r] = "done"
<1> USE DEF Exclusive, Typed, TypeOK, dbVars
<1>1. ASSUME NEW r \in Requests, RequestStep(r) \/ RequestDies(r)
      PROVE  \E s \in Requests : rpc[s] = "mark" /\ rop[s] = o /\ rpc'[s] = "done"
  <2>1. CASE CreateRow(r)
    BY <2>1 DEF CreateRow, RowFacts, Born
  <2>2. CASE MarkQueued(r)
    <3>1. rop[r] = o /\ rpc[r] = "mark" /\ rpc'[r] = "done"
      BY <2>2 DEF MarkQueued, EndRequest, RequestPcs
    <3> QED
      BY <3>1
  <2> QED
    BY <1>1, <2>1, <2>2 DEF RequestStep, RequestDies, ReuseRow, AddJob
<1>2. ASSUME NEW w \in Workers, HandlerStep(w) \/ DbFault(w) PROVE FALSE
  <2>1. wop[w] = o /\ wpc[w] \in {"claim", "fail_status"}
    BY <1>2, HandlerWrites
  <2>2. CASE wpc[w] = "claim"
    <3>1. KeyOf(o) \notin recorded
      BY <2>1, <2>2 DEF Fresh, FreshPcs
    <3>2. KeyOf(o) \in recorded
      BY DEF Backed, CompletedIsBacked, Keyed
    <3> QED
      BY <3>1, <3>2
  <2>3. CASE wpc[w] = "fail_status"
    BY <2>1, <2>3 DEF Unfinished, ClaimedPcs
  <2> QED
    BY <2>1, <2>2, <2>3
<1>3. ASSUME ~ \E r \in Requests : RequestStep(r) \/ RequestDies(r),
             ~ \E w \in Workers : HandlerStep(w) \/ DbFault(w)
      PROVE  status' = status
  BY <1>3, NextCases
     DEF Take, Ack, Nack, Crash, Restart, RedisStep, Promote, Stalled, Evict, ReconcilerStep,
         Select, Check, Requeue, RequeueThrows, PassAborted, vars
<1> QED
  BY <1>1, <1>2, <1>3

\* With consistent routing and one slot per queue only an API call reopens a
\* completed keyed row.
THEOREM OnlyApiReopens ==
  ASSUME ConsistentRouting, OneSlotPerQueue
  PROVE  Spec => ReopenedOnlyByApi
<1>1. Exclusive /\ RowFacts /\ [Next]_vars
        => [\A o \in Ops :
              /\ status[o] = "completed"
              /\ status'[o] # "completed"
              /\ KeyOf(o) # NoKey
              => \E r \in Requests : rpc[r] = "mark" /\ rop[r] = o /\ rpc'[r] = "done"]_vars
  BY ReopenStep DEF Keyed
<1> QED
  BY <1>1, ExclusiveInvariant, RowInvariant, PTL DEF Spec, ReopenedOnlyByApi

-----------------------------------------------------------------------------
(***************************************************************************)
(* Operations the worker gives up on: their slots never get past the load. *)
(***************************************************************************)
GivenUp ==
  /\ RejectedLeavesNoTrace
  /\ \A w \in Workers : Working(w) /\ ActionOf(wop[w]) \notin Accepted => wpc[w] \in {"load", "nack"}

LEMMA GivenUpStep ==
  ASSUME Typed, GivenUp, [Next]_vars
  PROVE  GivenUp'
<1> USE DEF Typed, TypeOK, GivenUp, RejectedLeavesNoTrace, ActionOf
<1>1. ASSUME NEW w \in Workers, HandlerStep(w) \/ DbFault(w) PROVE GivenUp'
  <2>1. HandlerMove(w) /\ Grows(w) /\ wop[w] \in Ops
    BY <1>1, HandlerMoves, HandlerGrows DEF HandlerMove, Grows
  <2>2. CASE ActionOf(wop[w]) \notin Accepted
    <3>1. wpc[w] \in {"load", "nack"}
      BY <2>1, <2>2 DEF HandlerMove
    <3>2. UNCHANGED <<status, steps>> /\ wpc'[w] = "nack"
      BY <1>1, <2>2, <3>1, ConstantsAssumption
         DEF HandlerStep, InsertStep, UpdateStatus, WriteStep, WriteStatus, WriteRecord,
             AnswerLost, FailureStatus, Load, HitStep, HitComplete, Claim, TakenStep,
             Execute, CompletedStep, SaveRecord, Complete, FailStep, FailStatus, DbFault, dbVars,
             Goto
    <3> QED
      BY <2>1, <3>1, <3>2 DEF Grows, Working
  <2>3. CASE ActionOf(wop[w]) \in Accepted
    <3>1. \A o \in Ops : o # wop[w] => steps'[o] = steps[o] /\ status'[o] = status[o]
      BY <1>1, <2>1
         DEF HandlerStep, InsertStep, UpdateStatus, WriteStep, WriteStatus, WriteRecord,
             AnswerLost, FailureStatus, Load, HitStep, HitComplete, Claim, TakenStep,
             Execute, CompletedStep, SaveRecord, Complete, FailStep, FailStatus, DbFault, dbVars
    <3> QED
      BY <2>1, <2>3, <3>1 DEF Grows, Working
  <2> QED
    BY <2>2, <2>3
<1>2. CASE ~ \E w \in Workers : HandlerStep(w) \/ DbFault(w)
  BY <1>2, QuietSteps DEF Quiet, Working
<1> QED
  BY <1>1, <1>2

\* An operation with an unknown action or a rejected input is never claimed,
\* never gets a step and never leaves pending or queued.
THEOREM RejectedUntouched == Spec => []RejectedLeavesNoTrace
<1>1. Init => GivenUp
  BY DEF Init, GivenUp, RejectedLeavesNoTrace, Working
<1>2. Typed /\ GivenUp /\ [Next]_vars => GivenUp'
  BY GivenUpStep
<1>3. GivenUp => RejectedLeavesNoTrace
  BY DEF GivenUp
<1> QED
  BY <1>1, <1>2, <1>3, TypedInvariant, PTL DEF Spec

-----------------------------------------------------------------------------
(***************************************************************************)
(* Retention.  As long as finished jobs are retained no job is removed.    *)
(***************************************************************************)
Retained == IsFiniteSet(Requests) /\ Cardinality(Requests) <= KeepTerminal

JobsStay == \A q \in Queues, o \in Ops : HasJob(q, o) => HasJob(q, o)'

\* A job replaced by a job keeps its place.
LEMMA ReplacedStays ==
  ASSUME Typed, NEW q \in Queues, NEW o \in Ops, NEW j, j.state # "none",
         job' = [job EXCEPT ![q][o] = j]
  PROVE  JobsStay
BY DEF Typed, TypeOK, JobsStay, HasJob

LEMMA NoneRemoved ==
  ASSUME Retained, Typed, [Next]_vars
  PROVE  JobsStay
<1> USE DEF Typed, TypeOK
<1>1. ASSUME UNCHANGED job PROVE JobsStay
  BY <1>1 DEF JobsStay, HasJob
<1>2. ASSUME NEW q \in Queues, NEW o \in Ops, AddIfAbsent(q, o) PROVE JobsStay
  <2>1. NewJob.state # "none"
    BY DEF NewJob
  <2> QED
    BY <1>1, <1>2, <2>1, ReplacedStays DEF AddIfAbsent, SetJob
<1>3. ASSUME NEW q \in Queues, NEW o \in Ops, NEW s, s # "none", SetJobState(q, o, s)
      PROVE  JobsStay
  <2>1. job[q][o] \in JobRecord
    OBVIOUS
  <2>2. [job[q][o] EXCEPT !.state = s].state = s
    BY <2>1 DEF JobRecord
  <2> QED
    BY <1>3, <2>2, ReplacedStays DEF SetJobState, SetJob
<1>4. ASSUME NEW r \in Requests, RequestStep(r) \/ RequestDies(r) PROVE JobsStay
  <2>1. CASE AddJob(r)
    <3>1. input[r].queue \in Queues /\ rop[r] \in Ops
      BY <2>1, ConstantsAssumption DEF AddJob, NameFacts, InputRecord
    <3> QED
      BY <1>2, <2>1, <3>1 DEF AddJob
  <2>2. CASE ~AddJob(r)
    BY <1>1, <1>4, <2>2 DEF RequestStep, CreateRow, ReuseRow, MarkQueued, RequestDies
  <2> QED
    BY <2>1, <2>2
<1>5. ASSUME NEW w \in Workers, NEW o \in Ops, Take(w, o) PROVE JobsStay
  BY <1>3, <1>5, ConstantsAssumption DEF Take
<1>6. ASSUME NEW w \in Workers, HandlerStep(w) \/ DbFault(w) PROVE JobsStay
  BY <1>1, <1>6, HandlerMoves DEF HandlerMove
<1>7. ASSUME NEW w \in Workers, Ack(w) \/ Nack(w) \/ Crash(w) \/ Restart(w) PROVE JobsStay
  <2>1. CASE Ack(w) \/ Nack(w)
    <3> DEFINE q == WorkerQueue[w]
               o == wop[w]
    <3>1. q \in Queues /\ o \in Ops
      BY <2>1, ConstantsAssumption DEF Ack, Nack, SlotFacts, Working
    <3>2. CASE Ack(w)
      BY <1>3, <3>1, <3>2 DEF Ack
    <3>3. CASE Nack(w)
      <4>1. PICK s \in {"failed", "delayed"} :
              job' = [job EXCEPT ![q][o] = [job[q][o] EXCEPT !.made = job[q][o].made + 1,
                                                             !.state = s]]
        BY <3>3 DEF Nack, SetJob
      <4>2. [job[q][o] EXCEPT !.made = job[q][o].made + 1, !.state = s].state = s
        BY <3>1 DEF JobRecord
      <4> QED
        BY <3>1, <4>1, <4>2, ReplacedStays
    <3> QED
      BY <2>1, <3>2, <3>3
  <2>2. CASE Crash(w) \/ Restart(w)
    BY <1>1, <2>2 DEF Crash, Restart
  <2> QED
    BY <1>7, <2>1, <2>2
<1>8. ASSUME NEW q \in Queues, NEW o \in Ops, RedisStep(q, o) \/ Evict(q, o) PROVE JobsStay
  <2>1. CASE Promote(q, o)
    BY <1>3, <2>1 DEF Promote
  <2>2. CASE Stalled(q, o)
    <3>1. CASE job[q][o].stalls < MaxStalls
      <4>1. job[q][o] \in JobRecord
        OBVIOUS
      <4>2. [job[q][o] EXCEPT !.state = "waiting", !.stalls = @ + 1].state = "waiting"
        BY <4>1 DEF JobRecord
      <4> QED
        BY <2>2, <3>1, <4>2, ReplacedStays DEF Stalled, SetJob
    <3>2. CASE ~(job[q][o].stalls < MaxStalls)
      BY <1>3, <2>2, <3>2 DEF Stalled
    <3> QED
      BY <3>1, <3>2
  <2>3. CASE Evict(q, o)
    <3> DEFINE kind == {p \in Ops : job[q][p].state = job[q][o].state}
    <3>1. Cardinality(kind) > KeepTerminal
      BY <2>3 DEF Evict
    <3>2. kind \subseteq Requests
      BY DEF Ops
    <3>3. Cardinality(kind) <= Cardinality(Requests)
      BY <3>2, FS_Subset DEF Retained
    <3>4. Cardinality(kind) \in Nat /\ Cardinality(Requests) \in Nat
      BY <3>2, FS_Subset, FS_CardinalityType DEF Retained
    <3> QED
      BY <3>1, <3>3, <3>4, ConstantsAssumption DEF Retained
  <2> QED
    BY <1>8, <2>1, <2>2, <2>3 DEF RedisStep
<1>9. ASSUME NEW c \in Reconcilers, ReconcilerStep(c) \/ PassAborted(c) PROVE JobsStay
  <2>1. CASE Requeue(c)
    <3>1. cur[c] \in Ops /\ HomeQueue[ActionOf(cur[c])] \in Queues
      BY <2>1, ConstantsAssumption DEF Requeue, NameFacts, ActionOf, InputRecord, Ops
    <3> QED
      BY <1>2, <2>1, <3>1 DEF Requeue
  <2>2. CASE ~Requeue(c)
    BY <1>1, <1>9, <2>2 DEF ReconcilerStep, Select, Check, RequeueThrows, PassAborted
  <2> QED
    BY <2>1, <2>2
<1>10. CASE UNCHANGED vars
  BY <1>1, <1>10 DEF vars
<1> QED
  BY <1>4, <1>5, <1>6, <1>7, <1>8, <1>9, <1>10, NextCases

\* A call that is about to mark its row has added the job.
Enqueued ==
  /\ \A r \in Requests : rpc[r] = "mark" => \E q \in Queues : HasJob(q, rop[r])
  /\ QueuedHasJob

LEMMA EnqueuedStep ==
  ASSUME Retained, Typed, Enqueued, [Next]_vars
  PROVE  Enqueued'
<1> USE DEF Typed, TypeOK, Enqueued, QueuedHasJob, dbVars, reqVars
<1>1. JobsStay
  BY NoneRemoved
<1>2. ASSUME UNCHANGED reqVars, \A o \in Ops : status'[o] = "queued" => status[o] = "queued"
      PROVE  Enqueued'
  <2>1. \A r \in Requests : rpc[r] = "mark" => rop[r] \in Ops
    BY DEF NameFacts
  <2> QED
    BY <1>1, <1>2, <2>1 DEF JobsStay
<1>3. ASSUME NEW r \in Requests, RequestStep(r) \/ RequestDies(r) PROVE Enqueued'
  <2>1. \A s \in Requests : rpc[s] = "mark" => rop[s] \in Ops
    BY DEF NameFacts
  <2>2. CASE CreateRow(r)
    BY <1>1, <2>1, <2>2 DEF CreateRow, JobsStay, Ops
  <2>3. CASE ReuseRow(r)
    BY <1>1, <2>1, <2>3 DEF ReuseRow, JobsStay
  <2>4. CASE AddJob(r)
    <3>1. input[r].queue \in Queues /\ rop[r] \in Ops /\ rop' = rop
      BY <2>4, ConstantsAssumption DEF AddJob, NameFacts, InputRecord
    <3>2. HasJob(input[r].queue, rop[r])'
      <4>1. CASE HasJob(input[r].queue, rop[r])
        BY <1>1, <3>1, <4>1, <2>4 DEF JobsStay, AddJob, AddIfAbsent, HasJob
      <4>2. CASE ~HasJob(input[r].queue, rop[r])
        BY <2>4, <3>1, <4>2 DEF AddJob, AddIfAbsent, SetJob, HasJob, NewJob
      <4> QED
        BY <4>1, <4>2
    <3>3. \A s \in Requests : rpc'[s] = "mark" => s = r \/ rpc[s] = "mark"
      BY <2>4 DEF AddJob
    <3>4. input' = input /\ status' = status
      BY <2>4 DEF AddJob
    <3> QED
      BY <1>1, <2>1, <3>1, <3>2, <3>3, <3>4 DEF JobsStay
  <2>5. CASE MarkQueued(r)
    <3>1. rop[r] \in Ops /\ \E q \in Queues : HasJob(q, rop[r])
      BY <2>1, <2>5 DEF MarkQueued
    <3>2. \A o \in Ops : status'[o] = "queued" => o = rop[r] \/ status[o] = "queued"
      BY <2>5, <3>1 DEF MarkQueued
    <3>3. \A s \in Requests : rpc'[s] = "mark" => rpc[s] = "mark" /\ rop'[s] = rop[s]
      BY <2>5 DEF MarkQueued, EndRequest
    <3> QED
      BY <1>1, <2>1, <3>1, <3>2, <3>3 DEF JobsStay
  <2>6. CASE RequestDies(r)
    <3>1. \A s \in Requests : rpc'[s] = "mark" => rpc[s] = "mark" /\ rop'[s] = rop[s]
      BY <2>6 DEF RequestDies, EndRequest
    <3> QED
      BY <1>1, <2>1, <2>6, <3>1 DEF RequestDies, JobsStay
  <2> QED
    BY <1>3, <2>2, <2>3, <2>4, <2>5, <2>6 DEF RequestStep
<1>4. ASSUME NEW w \in Workers, HandlerStep(w) \/ DbFault(w) PROVE Enqueued'
  <2>1. UNCHANGED reqVars
    BY <1>4, HandlerMoves DEF HandlerMove
  <2>2. \A o \in Ops : status'[o] = "queued" => status[o] = "queued"
    BY <1>4 DEF HandlerStep, InsertStep, UpdateStatus, WriteStep, WriteStatus, WriteRecord,
                AnswerLost, FailureStatus, Load, HitStep, HitComplete, Claim, TakenStep,
       Execute, CompletedStep, SaveRecord, Complete, FailStep, FailStatus, DbFault
  <2> QED
    BY <1>2, <2>1, <2>2
<1>5. ASSUME ~ \E r \in Requests : RequestStep(r) \/ RequestDies(r),
             ~ \E w \in Workers : HandlerStep(w) \/ DbFault(w)
      PROVE  Enqueued'
  <2>1. UNCHANGED <<reqVars, status>>
    BY <1>5, NextCases
       DEF Take, Ack, Nack, Crash, Restart, RedisStep, Promote, Stalled, Evict, ReconcilerStep,
           Select, Check, Requeue, RequeueThrows, PassAborted, vars
  <2> QED
    BY <1>2, <2>1
<1> QED
  BY <1>3, <1>4, <1>5

\* While finished jobs are retained a row that says queued has a job.
THEOREM QueuedBacked ==
  ASSUME Retained
  PROVE  Spec => []QueuedHasJob
<1>1. Init => Enqueued
  BY DEF Init, Enqueued, QueuedHasJob
<1>2. Typed /\ Enqueued /\ [Next]_vars => Enqueued'
  BY EnqueuedStep
<1>3. Enqueued => QueuedHasJob
  BY DEF Enqueued
<1> QED
  BY <1>1, <1>2, <1>3, TypedInvariant, PTL DEF Spec
-----------------------------------------------------------------------------
(***************************************************************************)
(* Any number of slots.  Without the two hypotheses of exclusion a key may *)
(* be executed by several slots at once, but no more often than it has     *)
(* slots: each of them can pass the lookup once before a result is stored. *)
(***************************************************************************)
\* The slots that carry a result of k, and those that may still produce one.
Carriers(k) == {w \in Workers : Carries(w, k)}
Runners(k) ==
  {w \in Workers : wpc[w] \in {"claim", "taken", "execute"} /\ KeyOf(wop[w]) = k}

\* Before its result is stored the runs of a key are carried or lost; after,
\* the slots past the lookup may add one run each.
Accounted(k) ==
  IF k \in recorded
    THEN runs[k] + Cardinality(Runners(k)) <= Cardinality(SlotsOfKey(k)) + crashes + dbFaults
    ELSE runs[k] <= Cardinality(Carriers(k)) + crashes + dbFaults

LEMMA SlotsServe ==
  ASSUME Typed, Placed, IsFiniteSet(Workers), NEW k \in Keys
  PROVE  /\ Carriers(k) \subseteq SlotsOfKey(k) /\ Runners(k) \subseteq SlotsOfKey(k)
         /\ IsFiniteSet(SlotsOfKey(k)) /\ IsFiniteSet(Carriers(k)) /\ IsFiniteSet(Runners(k))
         /\ Cardinality(Carriers(k)) + Cardinality(Runners(k)) <= Cardinality(SlotsOfKey(k))
         /\ Cardinality(SlotsOfKey(k)) \in Nat
         /\ Cardinality(Carriers(k)) \in Nat /\ Cardinality(Runners(k)) \in Nat
<1>1. ASSUME NEW w \in Workers, Working(w), KeyOf(wop[w]) = k PROVE w \in SlotsOfKey(k)
  <2>1. wop[w] \in Ops /\ WorkerQueue[w] \in Queues /\ HasJob(WorkerQueue[w], wop[w])
    BY <1>1, ConstantsAssumption DEF Typed, SlotFacts, HasJob
  <2>2. input[wop[w]] \in Inputs /\ WorkerQueue[w] \in QueuesOf(input[wop[w]])
    BY <2>1 DEF Typed, TypeOK, Ops, Placed, QueueFacts
  <2> QED
    BY <1>1, <2>2 DEF SlotsOfKey, KeyOf
<1>2. Carriers(k) \subseteq SlotsOfKey(k) /\ Runners(k) \subseteq SlotsOfKey(k)
  BY <1>1 DEF Carriers, Carries, Runners, Working
<1>3. IsFiniteSet(SlotsOfKey(k)) /\ IsFiniteSet(Carriers(k)) /\ IsFiniteSet(Runners(k))
  BY <1>2, FS_Subset DEF SlotsOfKey
<1>4. Carriers(k) \cap Runners(k) = {}
  BY DEF Carriers, Carries, Runners
<1>5. Cardinality(Carriers(k) \cup Runners(k)) = Cardinality(Carriers(k)) + Cardinality(Runners(k))
  <2>1. /\ Cardinality(Carriers(k) \cup Runners(k))
             = Cardinality(Carriers(k)) + Cardinality(Runners(k))
               - Cardinality(Carriers(k) \cap Runners(k))
        /\ Cardinality(Carriers(k)) \in Nat /\ Cardinality(Runners(k)) \in Nat
    BY <1>3, FS_Union, FS_CardinalityType
  <2>2. Cardinality(Carriers(k) \cap Runners(k)) = 0
    BY <1>4, FS_EmptySet
  <2> QED
    BY <2>1, <2>2
<1>6. Cardinality(Carriers(k) \cup Runners(k)) <= Cardinality(SlotsOfKey(k))
  BY <1>2, <1>3, FS_Subset
<1> QED
  BY <1>2, <1>3, <1>5, <1>6, FS_CardinalityType

\* One handler step: who may run, who carries, what is counted and stored.
LEMMA HandlerAccounts ==
  ASSUME Typed, NEW w \in Workers, HandlerStep(w) \/ DbFault(w), NEW k \in Keys
  PROVE  /\ \A v \in Workers : v # w =>
              /\ v \in Carriers(k)' <=> v \in Carriers(k)
              /\ v \in Runners(k)' <=> v \in Runners(k)
         /\ k \in recorded /\ w \notin Runners(k) => w \notin Runners(k)'
         /\ runs'[k] = runs[k] + 1 =>
              w \in Runners(k) /\ w \notin Runners(k)' /\ w \notin Carriers(k) /\ w \in Carriers(k)'
         /\ k \notin recorded /\ k \in recorded' =>
              runs'[k] = runs[k] /\ w \in Carriers(k) /\ w \notin Runners(k)'
<1>1. /\ Grows(w) /\ KeyOf(wop[w])' = KeyOf(wop[w]) /\ runs[k] \in Nat
      /\ \A v \in Workers : v # w => wpc'[v] = wpc[v] /\ KeyOf(wop[v])' = KeyOf(wop[v])
  BY HandlerGrows DEF Grows, KeyOf, Subjects, Typed, TypeOK
<1>2. /\ \/ runs'[k] = runs[k]
         \/ /\ runs'[k] = runs[k] + 1 /\ wpc[w] = "execute" /\ KeyOf(wop[w]) = k
            /\ Carries(w, k)'
      /\ Carries(w, k) => Carries(w, k)' \/ k \in recorded' \/ dbFaults' = dbFaults + 1
  BY HandlerPays
<1>3. ASSUME k \in recorded, w \in Runners(k)' PROVE w \in Runners(k)
  <2>1. wpc'[w] \in {"claim", "taken", "execute"} /\ KeyOf(wop[w]) = k
    BY <1>1, <1>3 DEF Runners
  <2>2. wpc[w] \in FreshPcs
    BY <1>3, <2>1, HandlerFresh, ConstantsAssumption DEF FreshPcs, Hit
  <2>3. wpc[w] \in {"claim", "taken"}
    BY <2>1, <2>2 DEF FreshPcs, HandlerStep, InsertStep, UpdateStatus, WriteStep, WriteStatus,
                      WriteRecord, AnswerLost, FailureStatus, Load, HitStep, HitComplete,
       Claim, TakenStep, Execute, CompletedStep, SaveRecord, Complete, FailStep, FailStatus,
       DbFault, Goto, Typed, TypeOK
  <2> QED
    BY <2>1, <2>3 DEF Runners
<1>4. ASSUME k \notin recorded, k \in recorded' PROVE w \in Carriers(k) /\ w \notin Runners(k)'
  BY <1>4, HandlerFresh DEF Carriers, Carries, Runners, FreshPcs
<1> QED
  BY <1>1, <1>2, <1>3, <1>4 DEF Carriers, Carries, Runners

\* A slot that enters or leaves a finite set of slots.
LEMMA OneMoves ==
  ASSUME NEW S, NEW T, NEW w, IsFiniteSet(S), \A v : v # w => (v \in T <=> v \in S)
  PROVE  /\ IsFiniteSet(T) /\ Cardinality(S) \in Nat /\ Cardinality(T) \in Nat
         /\ (w \in T <=> w \in S) => Cardinality(T) = Cardinality(S)
         /\ w \in T /\ w \notin S => Cardinality(T) = Cardinality(S) + 1
         /\ w \notin T /\ w \in S => Cardinality(T) = Cardinality(S) - 1
<1>1. (w \in T <=> w \in S) => T = S
  OBVIOUS
<1>2. w \in T /\ w \notin S => T = S \cup {w}
  OBVIOUS
<1>3. w \notin T /\ w \in S => T = S \ {w}
  OBVIOUS
<1> QED
  BY <1>1, <1>2, <1>3, FS_AddElement, FS_RemoveElement, FS_CardinalityType

LEMMA AccountedStep ==
  ASSUME IsFiniteSet(Workers), Typed, Placed, [Next]_vars,
         NEW k \in Keys, Accounted(k)
  PROVE  Accounted(k)'
<1>0. /\ runs[k] \in Nat /\ crashes \in Nat /\ dbFaults \in Nat
      /\ Cardinality(SlotsOfKey(k)) \in Nat
      /\ IsFiniteSet(Carriers(k)) /\ IsFiniteSet(Runners(k))
      /\ Cardinality(Carriers(k)) \in Nat /\ Cardinality(Runners(k)) \in Nat
      /\ Cardinality(Carriers(k)) + Cardinality(Runners(k)) <= Cardinality(SlotsOfKey(k))
  <2>1. runs[k] \in Nat /\ crashes \in Nat /\ dbFaults \in Nat
    BY ConstantsAssumption DEF Typed, TypeOK, Subjects
  <2> QED
    BY <2>1, SlotsServe
<1>1. ASSUME NEW w \in Workers,
             \A v \in Workers : v # w =>
               /\ v \in Carriers(k)' <=> v \in Carriers(k)
               /\ v \in Runners(k)' <=> v \in Runners(k)
      PROVE  /\ Cardinality(Carriers(k)) \in Nat /\ Cardinality(Carriers(k)') \in Nat
             /\ Cardinality(Runners(k)) \in Nat /\ Cardinality(Runners(k)') \in Nat
             /\ (w \in Carriers(k)' <=> w \in Carriers(k))
                  => Cardinality(Carriers(k)') = Cardinality(Carriers(k))
             /\ w \in Carriers(k)' /\ w \notin Carriers(k)
                  => Cardinality(Carriers(k)') = Cardinality(Carriers(k)) + 1
             /\ w \notin Carriers(k)' /\ w \in Carriers(k)
                  => Cardinality(Carriers(k)') = Cardinality(Carriers(k)) - 1
             /\ (w \in Runners(k)' <=> w \in Runners(k))
                  => Cardinality(Runners(k)') = Cardinality(Runners(k))
             /\ w \notin Runners(k)' /\ w \in Runners(k)
                  => Cardinality(Runners(k)') = Cardinality(Runners(k)) - 1
  <2>1. \A v : v # w => (v \in Carriers(k)' <=> v \in Carriers(k))
    BY <1>1 DEF Carriers
  <2>2. \A v : v # w => (v \in Runners(k)' <=> v \in Runners(k))
    BY <1>1 DEF Runners
  <2>3. /\ Cardinality(Carriers(k)) \in Nat /\ Cardinality(Carriers(k)') \in Nat
        /\ (w \in Carriers(k)' <=> w \in Carriers(k))
             => Cardinality(Carriers(k)') = Cardinality(Carriers(k))
        /\ w \in Carriers(k)' /\ w \notin Carriers(k)
             => Cardinality(Carriers(k)') = Cardinality(Carriers(k)) + 1
        /\ w \notin Carriers(k)' /\ w \in Carriers(k)
             => Cardinality(Carriers(k)') = Cardinality(Carriers(k)) - 1
    BY <1>0, <2>1, OneMoves
  <2>4. /\ Cardinality(Runners(k)) \in Nat /\ Cardinality(Runners(k)') \in Nat
        /\ (w \in Runners(k)' <=> w \in Runners(k))
             => Cardinality(Runners(k)') = Cardinality(Runners(k))
        /\ w \notin Runners(k)' /\ w \in Runners(k)
             => Cardinality(Runners(k)') = Cardinality(Runners(k)) - 1
    BY <1>0, <2>2, OneMoves
  <2> QED
    BY <2>3, <2>4
<1>2. ASSUME NEW w \in Workers, HandlerStep(w) \/ DbFault(w) PROVE Accounted(k)'
  <2> DEFINE C == Cardinality(Carriers(k))
             D == Cardinality(Carriers(k)')
             R == Cardinality(Runners(k))
             Q == Cardinality(Runners(k)')
             N == Cardinality(SlotsOfKey(k))
             inC == w \in Carriers(k)
             inD == w \in Carriers(k)'
             inR == w \in Runners(k)
             inQ == w \in Runners(k)'
             had == k \in recorded
             has == k \in recorded'
  <2>1. /\ had /\ ~inR => ~inQ
        /\ runs'[k] = runs[k] + 1 => inR /\ ~inQ /\ ~inC /\ inD
        /\ ~had /\ has => runs'[k] = runs[k] /\ inC /\ ~inQ
        /\ had => has
        /\ runs'[k] = runs[k] \/ runs'[k] = runs[k] + 1
        /\ crashes' = crashes /\ dbFaults' \in {dbFaults, dbFaults + 1}
        /\ inC => inD \/ has \/ dbFaults' = dbFaults + 1
    BY <1>2, HandlerAccounts, HandlerPays, HandlerGrows DEF Grows, Carriers
  <2>2. /\ C \in Nat /\ D \in Nat /\ R \in Nat /\ Q \in Nat
        /\ (inD <=> inC) => D = C
        /\ inD /\ ~inC => D = C + 1
        /\ ~inD /\ inC => D = C - 1
        /\ (inQ <=> inR) => Q = R
        /\ ~inQ /\ inR => Q = R - 1
    BY <1>1, <1>2, HandlerAccounts
  <2>3. ~(inC /\ inR)
    BY DEF Carriers, Carries, Runners
  <2>4. IF had THEN runs[k] + R <= N + crashes + dbFaults
               ELSE runs[k] <= C + crashes + dbFaults
    BY DEF Accounted
  <2>5. (IF has THEN runs'[k] + Q <= N + crashes' + dbFaults'
                ELSE runs'[k] <= D + crashes' + dbFaults') => Accounted(k)'
    BY DEF Accounted, SlotsOfKey
  <2>6. /\ N \in Nat /\ C + R <= N
        /\ runs[k] \in Nat /\ crashes \in Nat /\ dbFaults \in Nat
    BY <1>0
  <2> HIDE DEF C, D, R, Q, N, inC, inD, inR, inQ, had, has
  <2>7. CASE dbFaults' = dbFaults
    BY <2>1, <2>2, <2>3, <2>4, <2>5, <2>6, <2>7
  <2>8. CASE dbFaults' = dbFaults + 1
    BY <2>1, <2>2, <2>3, <2>4, <2>5, <2>6, <2>8
  <2> QED
    BY <2>1, <2>7, <2>8
<1>3. ASSUME NEW w \in Workers, Crash(w) PROVE Accounted(k)'
  <2>1. /\ runs' = runs /\ recorded' = recorded /\ crashes' = crashes + 1 /\ dbFaults' = dbFaults
        /\ w \notin Runners(k)' /\ w \notin Carriers(k)'
        /\ \A v \in Workers : v # w =>
               /\ v \in Carriers(k)' <=> v \in Carriers(k)
               /\ v \in Runners(k)' <=> v \in Runners(k)
    BY <1>3 DEF Crash, Release, Goto, Typed, TypeOK, Carriers, Carries, Runners, KeyOf, dbVars
  <2>2. /\ Cardinality(Carriers(k)') \in Nat /\ Cardinality(Runners(k)') \in Nat
        /\ Cardinality(Carriers(k)') >= Cardinality(Carriers(k)) - 1
        /\ Cardinality(Runners(k)') <= Cardinality(Runners(k))
    BY <1>0, <1>1, <2>1
  <2>3. SlotsOfKey(k)' = SlotsOfKey(k)
    BY DEF SlotsOfKey
  <2> QED
    BY <1>0, <2>1, <2>2, <2>3 DEF Accounted
<1>4. CASE ~ \E w \in Workers : HandlerStep(w) \/ DbFault(w) \/ Crash(w)
  <2>1. Quiet /\ crashes' = crashes
    <3>1. Quiet
      BY <1>4, QuietSteps
    <3>2. crashes' = crashes
      BY <1>4, NextCases
         DEF RequestStep, CreateRow, ReuseRow, AddJob, MarkQueued, RequestDies, Take, Ack, Nack,
             Restart, RedisStep, Promote, Stalled, Evict, ReconcilerStep, Select, Check, Requeue,
             RequeueThrows, PassAborted, vars, budgets
    <3> QED
      BY <3>1, <3>2
  <2>2. Carriers(k)' = Carriers(k) /\ Runners(k)' = Runners(k)
    BY <1>0, <2>1 DEF Quiet, Carriers, Carries, Runners, KeyOf
  <2>3. SlotsOfKey(k)' = SlotsOfKey(k)
    BY DEF SlotsOfKey
  <2>4. /\ runs' = runs /\ recorded' = recorded /\ crashes' = crashes
        /\ dbFaults' \in {dbFaults, dbFaults + 1}
    BY <2>1 DEF Quiet
  <2> QED
    BY <1>0, <2>2, <2>3, <2>4 DEF Accounted
<1> QED
  BY <1>2, <1>3, <1>4

\* A key is executed at most once per slot that may hold its jobs, and once
\* more per crash and failing statement; the case of one slot is RepeatsPaid.
THEOREM RunsBoundedBySlots ==
  ASSUME IsFiniteSet(Workers)
  PROVE  Spec => []RunsWithinSlots
<1> DEFINE AllAccounted == \A k \in Keys : Accounted(k)
<1>1. ASSUME NEW k \in Keys, Init PROVE Accounted(k)
  <2>1. /\ Carriers(k) = {} /\ runs[k] = 0 /\ recorded = {} /\ crashes = 0 /\ dbFaults = 0
    BY <1>1 DEF Init, Carriers, Carries, Subjects
  <2>2. Cardinality(Carriers(k)) = 0
    BY <2>1, FS_EmptySet
  <2> QED
    BY <2>1, <2>2 DEF Accounted
<1>2. Typed /\ Placed /\ AllAccounted /\ [Next]_vars => AllAccounted'
  BY AccountedStep
<1>3. ASSUME Typed, Placed, AllAccounted PROVE RunsWithinSlots
  <2>1. ASSUME NEW k \in Keys
        PROVE  runs[k] <= Cardinality(SlotsOfKey(k)) + crashes + dbFaults
    <3>1. /\ Cardinality(Carriers(k)) + Cardinality(Runners(k)) <= Cardinality(SlotsOfKey(k))
          /\ Cardinality(SlotsOfKey(k)) \in Nat
          /\ Cardinality(Carriers(k)) \in Nat /\ Cardinality(Runners(k)) \in Nat
      BY <1>3, SlotsServe
    <3>2. runs[k] \in Nat /\ crashes \in Nat /\ dbFaults \in Nat
      BY <1>3, ConstantsAssumption DEF Typed, TypeOK, Subjects
    <3>3. Accounted(k)
      BY <1>3
    <3> QED
      BY <3>1, <3>2, <3>3 DEF Accounted
  <2> QED
    BY <2>1 DEF RunsWithinSlots
<1>4. Init => AllAccounted
  BY <1>1
<1> QED
  BY <1>2, <1>3, <1>4, PlacedInvariant, PTL DEF Spec
-----------------------------------------------------------------------------
(***************************************************************************)
(* Progress.  The part of EveryOperationSettles that needs no fairness:    *)
(* nothing goes round in circles.  A job that stays in its queue has       *)
(* finitely many transitions left, an attempt at it finitely many awaits,  *)
(* and what came to rest is only disturbed from outside.                   *)
(***************************************************************************)
Rank(s) ==
  IF s = "delayed" THEN 3 ELSE IF s = "waiting" THEN 2 ELSE IF s = "active" THEN 1 ELSE 0

\* The transitions a job has left: between two failed attempts or stalls it
\* is promoted, taken and settled once.
Remaining(j) == 4 * ((JobAttempts - j.made) + (MaxStalls - j.stalls)) + Rank(j.state)

\* A job never gains a transition: attempts, stalls, backoff and redelivery
\* use it up, at most 4 * (JobAttempts + MaxStalls) + 2 of them after it was
\* added; only its removal (and a new add) starts anew.
JobsOnlyAdvance ==
  [][\A q \in Queues, o \in Ops : HasJob(q, o) =>
       \/ job'[q][o] \in {job[q][o], NoJob}
       \/ Remaining(job'[q][o]) \in 0 .. Remaining(job[q][o]) - 1]_vars

LEMMA RemainingCounts ==
  ASSUME NEW j \in JobRecord
  PROVE  Remaining(j) \in 0 .. 4 * (JobAttempts + MaxStalls) + 3
<1>1. j.made \in 0..JobAttempts /\ j.stalls \in 0..MaxStalls /\ Rank(j.state) \in 0..3
  BY DEF JobRecord, Rank
<1> QED
  BY <1>1, ConstantsAssumption DEF Remaining

LEMMA JobAdvances ==
  ASSUME Typed, [Next]_vars, NEW p \in Queues, NEW x \in Ops, HasJob(p, x)
  PROVE  \/ job'[p][x] \in {job[p][x], NoJob}
         \/ Remaining(job'[p][x]) < Remaining(job[p][x])
<1> DEFINE Moves(q, o) == \/ job'[q][o] = NoJob
                          \/ Remaining(job'[q][o]) < Remaining(job[q][o])
           Left == \/ job'[p][x] \in {job[p][x], NoJob}
                   \/ Remaining(job'[p][x]) < Remaining(job[p][x])
<1>0. job \in [Queues -> [Ops -> JobRecord]]
  BY DEF Typed, TypeOK
<1>1. ASSUME UNCHANGED job PROVE Left
  BY <1>1
<1>2. ASSUME NEW q \in Queues, NEW o \in Ops, NEW j, SetJob(q, o, j),
             j = NoJob \/ Remaining(j) < Remaining(job[q][o])
      PROVE  Left
  BY <1>0, <1>2 DEF SetJob
<1>3. ASSUME NEW q \in Queues, NEW o \in Ops, AddIfAbsent(q, o) PROVE Left
  BY <1>0, <1>3 DEF AddIfAbsent, SetJob, HasJob
<1>4. ASSUME NEW q \in Queues, NEW o \in Ops, NEW s, SetJobState(q, o, s),
             Rank(s) < Rank(job[q][o].state)
      PROVE  Left
  <2> DEFINE j == [job[q][o] EXCEPT !.state = s]
  <2>1. /\ job[q][o].made \in Nat /\ job[q][o].stalls \in Nat
        /\ j.made = job[q][o].made /\ j.stalls = job[q][o].stalls /\ j.state = s
    BY <1>0 DEF JobRecord
  <2>2. Rank(s) \in Nat /\ Rank(job[q][o].state) \in Nat
    BY DEF Rank
  <2>3. Remaining(j) < Remaining(job[q][o])
    BY <1>4, <2>1, <2>2, ConstantsAssumption DEF Remaining
  <2> QED
    BY <1>2, <1>4, <2>3 DEF SetJobState
<1>5. ASSUME NEW r \in Requests, RequestStep(r) \/ RequestDies(r) PROVE Left
  <2>1. CASE AddJob(r)
    <3>1. input[r].queue \in Queues /\ rop[r] \in Ops
      BY <2>1, ConstantsAssumption DEF AddJob, Typed, TypeOK, NameFacts, InputRecord
    <3> QED
      BY <1>3, <2>1, <3>1 DEF AddJob
  <2>2. CASE ~AddJob(r)
    BY <1>1, <1>5, <2>2 DEF RequestStep, CreateRow, ReuseRow, MarkQueued, RequestDies
  <2> QED
    BY <2>1, <2>2
<1>6. ASSUME NEW w \in Workers, NEW o \in Ops, Take(w, o) PROVE Left
  BY <1>4, <1>6, ConstantsAssumption DEF Take, Rank
<1>7. ASSUME NEW w \in Workers, HandlerStep(w) \/ DbFault(w) PROVE Left
  BY <1>1, <1>7, HandlerMoves DEF HandlerMove
<1>8. ASSUME NEW w \in Workers, Ack(w) \/ Nack(w) \/ Crash(w) \/ Restart(w) PROVE Left
  <2> DEFINE q == WorkerQueue[w]
             o == wop[w]
  <2>1. Ack(w) \/ Nack(w) => q \in Queues /\ o \in Ops /\ job[q][o].state = "active"
    BY ConstantsAssumption DEF Ack, Nack, Typed, SlotFacts, Working
  <2>2. CASE Ack(w)
    BY <1>4, <2>1, <2>2 DEF Ack, Rank
  <2>3. CASE Nack(w)
    <3>1. PICK s \in {"failed", "delayed"} :
            SetJob(q, o, [job[q][o] EXCEPT !.made = job[q][o].made + 1, !.state = s])
      BY <2>3 DEF Nack
    <3> DEFINE j == [job[q][o] EXCEPT !.made = job[q][o].made + 1, !.state = s]
    <3>2. /\ job[q][o].made \in Nat /\ job[q][o].stalls \in Nat
          /\ j.made = job[q][o].made + 1 /\ j.stalls = job[q][o].stalls /\ j.state = s
      BY <1>0, <2>1, <2>3 DEF JobRecord
    <3>3. Rank(s) \in {0, 3} /\ Rank(job[q][o].state) = 1
      BY <2>1, <2>3 DEF Rank
    <3>4. Remaining(j) < Remaining(job[q][o])
      BY <3>2, <3>3, ConstantsAssumption DEF Remaining
    <3> QED
      BY <1>2, <2>1, <2>3, <3>1, <3>4
  <2>4. CASE Crash(w) \/ Restart(w)
    BY <1>1, <2>4 DEF Crash, Restart
  <2> QED
    BY <1>8, <2>2, <2>3, <2>4
<1>9. ASSUME NEW q \in Queues, NEW o \in Ops, RedisStep(q, o) \/ Evict(q, o) PROVE Left
  <2>1. CASE Promote(q, o)
    BY <1>4, <2>1 DEF Promote, Rank
  <2>2. CASE Stalled(q, o)
    <3>1. CASE job[q][o].stalls < MaxStalls
      <4> DEFINE j == [job[q][o] EXCEPT !.state = "waiting", !.stalls = @ + 1]
      <4>1. /\ job[q][o].made \in Nat /\ job[q][o].stalls \in Nat
            /\ j.made = job[q][o].made /\ j.stalls = job[q][o].stalls + 1 /\ j.state = "waiting"
        BY <1>0 DEF JobRecord
      <4>2. Rank("waiting") = 2 /\ Rank(job[q][o].state) = 1
        BY <2>2 DEF Stalled, Rank
      <4>3. Remaining(j) < Remaining(job[q][o])
        BY <4>1, <4>2, ConstantsAssumption DEF Remaining
      <4> QED
        BY <1>2, <2>2, <3>1, <4>3 DEF Stalled
    <3>2. CASE ~(job[q][o].stalls < MaxStalls)
      BY <1>4, <2>2, <3>2 DEF Stalled, Rank
    <3> QED
      BY <3>1, <3>2
  <2>3. CASE Evict(q, o)
    BY <1>2, <2>3 DEF Evict
  <2> QED
    BY <1>9, <2>1, <2>2, <2>3 DEF RedisStep
<1>10. ASSUME NEW c \in Reconcilers, ReconcilerStep(c) \/ PassAborted(c) PROVE Left
  <2>1. CASE Requeue(c)
    <3>1. cur[c] \in Ops /\ HomeQueue[ActionOf(cur[c])] \in Queues
      BY <2>1, ConstantsAssumption
         DEF Requeue, Typed, TypeOK, NameFacts, ActionOf, InputRecord, Ops
    <3> QED
      BY <1>3, <2>1, <3>1 DEF Requeue
  <2>2. CASE ~Requeue(c)
    BY <1>1, <1>10, <2>2 DEF ReconcilerStep, Select, Check, RequeueThrows, PassAborted
  <2> QED
    BY <2>1, <2>2
<1>11. CASE UNCHANGED vars
  BY <1>1, <1>11 DEF vars
<1> QED
  BY <1>5, <1>6, <1>7, <1>8, <1>9, <1>10, <1>11, NextCases

\* No job is attempted, delayed or redelivered for ever.
THEOREM JobsAdvance == Spec => JobsOnlyAdvance
<1>1. ASSUME Typed, [Next]_vars, NEW q \in Queues, NEW o \in Ops, HasJob(q, o)
      PROVE  \/ job'[q][o] \in {job[q][o], NoJob}
             \/ Remaining(job'[q][o]) \in 0 .. Remaining(job[q][o]) - 1
  <2>1. job[q][o] \in JobRecord /\ job'[q][o] \in JobRecord
    BY <1>1, TypedStep DEF Typed, TypeOK
  <2>2. Remaining(job[q][o]) \in Int /\ Remaining(job'[q][o]) \in Nat
    BY <2>1, RemainingCounts, ConstantsAssumption
  <2> QED
    BY <1>1, <2>2, JobAdvances
<1>2. Typed /\ [Next]_vars
        => [\A q \in Queues, o \in Ops : HasJob(q, o) =>
              \/ job'[q][o] \in {job[q][o], NoJob}
              \/ Remaining(job'[q][o]) \in 0 .. Remaining(job[q][o]) - 1]_vars
  BY <1>1
<1> QED
  BY <1>2, TypedInvariant, PTL DEF Spec, JobsOnlyAdvance

\* How far executeActionJob has come with the job of its slot.
Position(pc) ==
  IF pc = "load" THEN 1
  ELSE IF pc \in {"hit_step", "claim"} THEN 2
  ELSE IF pc \in {"hit_complete", "taken"} THEN 3
  ELSE IF pc = "execute" THEN 4
  ELSE IF pc = "step" THEN 5
  ELSE IF pc = "save" THEN 6
  ELSE IF pc = "complete" THEN 7
  ELSE IF pc = "fail_step" THEN 8
  ELSE IF pc = "fail_status" THEN 9
  ELSE 10

\* A slot works its job off in at most ten steps: every step of the handler,
\* a failing statement included, brings it nearer to the settled promise, and
\* it stays with its operation until the promise is settled or it is killed.
AttemptsOnlyAdvance ==
  [][\A w \in Workers : Working(w) =>
       \/ UNCHANGED <<wpc[w], wop[w]>>
       \/ wop'[w] = wop[w] /\ Position(wpc'[w]) > Position(wpc[w])
       \/ wpc[w] \in {"ack", "nack"} /\ wpc'[w] = "idle"
       \/ wpc'[w] = "dead" /\ crashes' = crashes + 1]_vars

LEMMA AttemptAdvances ==
  ASSUME Typed, [Next]_vars, NEW w \in Workers, Working(w)
  PROVE  \/ UNCHANGED <<wpc[w], wop[w]>>
         \/ wop'[w] = wop[w] /\ Position(wpc'[w]) > Position(wpc[w])
         \/ wpc[w] \in {"ack", "nack"} /\ wpc'[w] = "idle"
         \/ wpc'[w] = "dead" /\ crashes' = crashes + 1
<1> DEFINE Left == \/ UNCHANGED <<wpc[w], wop[w]>>
                   \/ wop'[w] = wop[w] /\ Position(wpc'[w]) > Position(wpc[w])
                   \/ wpc[w] \in {"ack", "nack"} /\ wpc'[w] = "idle"
                   \/ wpc'[w] = "dead" /\ crashes' = crashes + 1
<1> USE DEF Typed, TypeOK
<1>1. ASSUME HandlerStep(w) \/ DbFault(w) PROVE Left
  <2>1. wop' = wop
    BY <1>1, HandlerMoves DEF HandlerMove
  <2> USE DEF InsertStep, UpdateStatus, WriteStep, WriteStatus, WriteRecord, AnswerLost,
              FailureStatus, Goto, Position
  <2>2. CASE Load(w) BY <2>1, <2>2 DEF Load
  <2>3. CASE HitStep(w) BY <2>1, <2>3 DEF HitStep
  <2>4. CASE HitComplete(w) BY <2>1, <2>4 DEF HitComplete
  <2>5. CASE Claim(w) BY <2>1, <2>5 DEF Claim
  <2>6. CASE TakenStep(w) BY <2>1, <2>6 DEF TakenStep
  <2>7. CASE Execute(w) BY <2>1, <2>7 DEF Execute
  <2>8. CASE CompletedStep(w) BY <2>1, <2>8 DEF CompletedStep
  <2>9. CASE SaveRecord(w) BY <2>1, <2>9 DEF SaveRecord
  <2>10. CASE Complete(w) BY <2>1, <2>10 DEF Complete
  <2>11. CASE FailStep(w) BY <2>1, <2>11 DEF FailStep
  <2>12. CASE FailStatus(w) BY <2>1, <2>12 DEF FailStatus
  <2>13. CASE DbFault(w) BY <2>1, <2>13 DEF DbFault
  <2> QED
    BY <1>1, <2>2, <2>3, <2>4, <2>5, <2>6, <2>7, <2>8, <2>9, <2>10, <2>11, <2>12, <2>13
       DEF HandlerStep
<1>2. ASSUME NEW v \in Workers, HandlerStep(v) \/ DbFault(v) PROVE Left
  <2>1. CASE v = w
    BY <1>1, <1>2, <2>1
  <2>2. CASE v # w
    BY <1>2, <2>2, HandlerGrows DEF Grows
  <2> QED
    BY <2>1, <2>2
<1>3. ASSUME NEW v \in Workers, NEW o \in Ops, Take(v, o) PROVE Left
  BY <1>3 DEF Take, Goto, Working
<1>4. ASSUME NEW v \in Workers, Ack(v) \/ Nack(v) \/ Crash(v) \/ Restart(v) PROVE Left
  BY <1>4 DEF Ack, Nack, Crash, Restart, Release, Goto, Working
<1>5. ASSUME UNCHANGED <<wpc, wop>> PROVE Left
  BY <1>5
<1> QED
  BY <1>2, <1>3, <1>4, <1>5, NextCases
     DEF RequestStep, CreateRow, ReuseRow, AddJob, MarkQueued, RequestDies, RedisStep, Promote,
         Stalled, Evict, ReconcilerStep, Select, Check, Requeue, RequeueThrows, PassAborted,
         vars, workVars

\* The handler has no loop: it ends, fails or is killed.
THEOREM AttemptsAdvance == Spec => AttemptsOnlyAdvance
<1>1. Typed /\ [Next]_vars
        => [\A w \in Workers : Working(w) =>
              \/ UNCHANGED <<wpc[w], wop[w]>>
              \/ wop'[w] = wop[w] /\ Position(wpc'[w]) > Position(wpc[w])
              \/ wpc[w] \in {"ack", "nack"} /\ wpc'[w] = "idle"
              \/ wpc'[w] = "dead" /\ crashes' = crashes + 1]_vars
  BY AttemptAdvances
<1> QED
  BY <1>1, TypedInvariant, PTL DEF Spec, AttemptsOnlyAdvance

\* No step of a worker, a crash or a failing statement among them, disturbs an
\* operation at rest: it leaves its rest only by an API call or a reconciler
\* pass that was about to add or mark it, or by the eviction of its job.
RestIsOnlyDisturbedFromOutside ==
  [][\A o \in Ops : Settled(o) /\ ~Settled(o)' =>
       \/ \E r \in Requests : rpc[r] \in {"add", "mark"} /\ rop[r] = o /\ rpc'[r] # rpc[r]
       \/ \E c \in Reconcilers : cpc[c] = "add" /\ cur[c] = o /\ cpc'[c] # "add"
       \/ \E q \in Queues : HasJob(q, o) /\ job'[q][o] = NoJob]_vars

LEMMA RestStep ==
  ASSUME Typed, RowFacts, [Next]_vars, NEW o \in Ops, Settled(o), ~Settled(o)'
  PROVE  \/ \E r \in Requests : rpc[r] \in {"add", "mark"} /\ rop[r] = o /\ rpc'[r] # rpc[r]
         \/ \E c \in Reconcilers : cpc[c] = "add" /\ cur[c] = o /\ cpc'[c] # "add"
         \/ \E q \in Queues : HasJob(q, o) /\ job'[q][o] = NoJob
<1> USE DEF Typed, TypeOK
<1>0. input' = input
  BY HandlerGrows, QuietSteps DEF Grows, Quiet
<1>1. status'[o] # status[o] \/ \E q \in Queues : job'[q][o] # job[q][o]
  BY <1>0 DEF Settled, LiveJob, ActionOf
<1>2. \A q \in Queues : job[q][o].state \notin {"waiting", "active", "delayed"}
  BY DEF Settled, LiveJob
<1>3. \A w \in Workers : Working(w) => wop[w] # o
  BY <1>2, ConstantsAssumption DEF SlotFacts
<1>4. ASSUME NEW r \in Requests, RequestStep(r) \/ RequestDies(r)
      PROVE  \E s \in Requests : rpc[s] \in {"add", "mark"} /\ rop[s] = o /\ rpc'[s] # rpc[s]
  <2>1. CASE CreateRow(r)
    <3>1. o = r /\ ~Born(o)
      BY <1>1, <2>1 DEF CreateRow, Born
    <3>2. status[o] = "absent" /\ \A q \in Queues : ~HasJob(q, o)
      BY <3>1 DEF RowFacts, Ops
    <3> QED
      BY <3>2 DEF Settled, HasJob
  <2>2. CASE AddJob(r)
    <3>1. input[r].queue \in Queues /\ rop[r] \in Ops
      BY <2>2, ConstantsAssumption DEF AddJob, NameFacts, InputRecord
    <3>2. status' = status /\ AddIfAbsent(input[r].queue, rop[r])
      BY <2>2 DEF AddJob, dbVars
    <3>3. rop[r] = o
      BY <1>1, <3>1, <3>2 DEF AddIfAbsent, SetJob
    <3>4. rpc[r] = "add" /\ rpc'[r] = "mark"
      BY <2>2 DEF AddJob
    <3> QED
      BY <3>3, <3>4
  <2>3. CASE MarkQueued(r)
    <3>1. rpc[r] = "mark" /\ rpc'[r] = "done" /\ rop[r] = o
      BY <1>1, <2>3 DEF MarkQueued, EndRequest
    <3> QED
      BY <3>1
  <2>4. CASE ReuseRow(r) \/ RequestDies(r)
    BY <1>1, <2>4 DEF ReuseRow, RequestDies, dbVars
  <2> QED
    BY <1>4, <2>1, <2>2, <2>3, <2>4 DEF RequestStep
<1>5. ASSUME NEW w \in Workers, HandlerStep(w) \/ DbFault(w) PROVE FALSE
  BY <1>1, <1>3, <1>5, HandlerMoves, HandlerWrites DEF HandlerMove
<1>6. ASSUME NEW w \in Workers, NEW p \in Ops, Take(w, p) PROVE FALSE
  BY <1>1, <1>2, <1>6, ConstantsAssumption DEF Take, SetJobState, SetJob, dbVars
<1>7. ASSUME NEW w \in Workers, Ack(w) \/ Nack(w) \/ Crash(w) \/ Restart(w) PROVE FALSE
  <2>1. CASE Ack(w) \/ Nack(w)
    <3>1. wop[w] # o /\ status' = status
      BY <1>3, <2>1 DEF Ack, Nack, Working, dbVars
    <3>2. \E j : job' = [job EXCEPT ![WorkerQueue[w]][wop[w]] = j]
      BY <2>1 DEF Ack, Nack, SetJobState, SetJob
    <3> QED
      BY <1>1, <3>1, <3>2
  <2>2. CASE Crash(w) \/ Restart(w)
    BY <1>1, <2>2 DEF Crash, Restart, dbVars
  <2> QED
    BY <1>7, <2>1, <2>2
<1>8. ASSUME NEW q \in Queues, NEW p \in Ops, RedisStep(q, p) \/ Evict(q, p)
      PROVE  \E s \in Queues : HasJob(s, o) /\ job'[s][o] = NoJob
  <2>1. status' = status /\ \E j : SetJob(q, p, j)
    BY <1>8 DEF RedisStep, Promote, Stalled, Evict, SetJobState, dbVars
  <2>2. p = o
    BY <1>1, <2>1 DEF SetJob
  <2>3. Evict(q, o)
    BY <1>2, <1>8, <2>2 DEF RedisStep, Promote, Stalled
  <2> QED
    BY <2>3 DEF Evict, SetJob, HasJob
<1>9. ASSUME NEW c \in Reconcilers, ReconcilerStep(c) \/ PassAborted(c)
      PROVE  \E d \in Reconcilers : cpc[d] = "add" /\ cur[d] = o /\ cpc'[d] # "add"
  <2>1. CASE Requeue(c)
    <3>1. cur[c] \in Ops /\ HomeQueue[ActionOf(cur[c])] \in Queues
      BY <2>1, ConstantsAssumption DEF Requeue, NameFacts, ActionOf, InputRecord, Ops
    <3>2. status' = status /\ AddIfAbsent(HomeQueue[ActionOf(cur[c])], cur[c])
      BY <2>1 DEF Requeue, dbVars
    <3>3. cur[c] = o
      BY <1>1, <3>1, <3>2 DEF AddIfAbsent, SetJob
    <3>4. cpc[c] = "add" /\ cpc'[c] # "add"
      BY <2>1 DEF Requeue
    <3> QED
      BY <3>3, <3>4
  <2>2. CASE ~Requeue(c)
    BY <1>1, <1>9, <2>2 DEF ReconcilerStep, Select, Check, RequeueThrows, PassAborted, dbVars
  <2> QED
    BY <2>1, <2>2
<1>10. CASE UNCHANGED vars
  BY <1>1, <1>10 DEF vars, dbVars
<1> QED
  BY <1>4, <1>5, <1>6, <1>7, <1>8, <1>9, <1>10, NextCases

\* Rest is stable but for clients, the reconciler and retention.
THEOREM RestStays == Spec => RestIsOnlyDisturbedFromOutside
<1>1. Typed /\ RowFacts /\ [Next]_vars
        => [\A o \in Ops : Settled(o) /\ ~Settled(o)' =>
              \/ \E r \in Requests : rpc[r] \in {"add", "mark"} /\ rop[r] = o /\ rpc'[r] # rpc[r]
              \/ \E c \in Reconcilers : cpc[c] = "add" /\ cur[c] = o /\ cpc'[c] # "add"
              \/ \E q \in Queues : HasJob(q, o) /\ job'[q][o] = NoJob]_vars
  BY RestStep
<1> QED
  BY <1>1, RowInvariant, PTL DEF Spec, RestIsOnlyDisturbedFromOutside
=============================================================================
