------------------------- MODULE OperationPipeline -------------------------
(***************************************************************************)
(* The operation pipeline of the Civitas backend: API requests that create *)
(* operation rows in PostgreSQL and enqueue a BullMQ job for them, workers *)
(* that execute those jobs (executeActionJob), and the reconciler that     *)
(* re-enqueues rows whose job is missing.                                  *)
(*                                                                         *)
(* Every await on PostgreSQL or Redis that writes, or that reads something *)
(* another process writes, is an action of its own: processes interleave   *)
(* exactly there.  Reads of immutable columns (inputJson, operationType,   *)
(* idempotencyKey: no statement of the program updates them and no row is  *)
(* ever deleted) are part of the step that uses them.                      *)
(*                                                                         *)
(* An operation is named by the request whose INSERT created its row, so   *)
(* Requests is also the set of operation ids.                              *)
(***************************************************************************)
EXTENDS Integers, FiniteSets

CONSTANTS
  Requests,     \* POST /owner/system/operations calls; also operation ids
  Queues,       \* the BullMQ queues (QUEUE_NAMES)
  Actions,      \* action types together with the part of the input they key on
  Keys, NoKey,  \* idempotency keys, and the absence of one
  Inputs,       \* request bodies the clients send
  HomeQueue,    \* definition.queue of each action
  DerivedKey,   \* definition.idempotencyKey(input), NoKey when it returns null
  Catalog,      \* the actions the action catalog defines
  Accepted,     \* the actions whose inputSchema accepts the input
  Outcomes,     \* how precondition/execute of each action may end
  Workers,      \* concurrent job slots, over all worker processes
  WorkerQueue,  \* the queue each slot consumes
  Reconcilers,  \* reconciler passes that may overlap (setInterval, processes)
  NoOp,         \* "no operation"
  JobAttempts,  \* attempts of the queue's defaultJobOptions
  MaxStalls,    \* BullMQ's maxStalledCount
  KeepTerminal, \* removeOnComplete / removeOnFail
  BatchLimit,   \* limit of the reconciler's select
  MaxCrashes,   \* bound: worker crashes
  MaxDbFaults   \* bound: failing database statements

Ops == Requests

InputRecord == [action: Actions, key: Keys \cup {NoKey}, queue: Queues]

OutcomeKinds == {"ok", "retryable", "fatal"}

ASSUME ConstantsAssumption ==
  /\ NoKey \notin Keys
  /\ NoOp \notin Requests
  /\ Keys \cap Requests = {}
  /\ NoKey \notin Requests
  /\ Inputs \subseteq InputRecord
  /\ HomeQueue \in [Actions -> Queues]
  /\ DerivedKey \in [Actions -> Keys \cup {NoKey}]
  /\ Accepted \subseteq Catalog
  /\ Catalog \subseteq Actions
  /\ Outcomes \in [Actions -> SUBSET OutcomeKinds]
  /\ WorkerQueue \in [Workers -> Queues]
  /\ JobAttempts \in Nat \ {0}
  /\ MaxStalls \in Nat
  /\ KeepTerminal \in Nat
  /\ BatchLimit \in Nat \ {0}
  /\ MaxCrashes \in Nat
  /\ MaxDbFaults \in Nat

VARIABLES
  input,     \* the body of each request
  status,    \* operational_operations.status, "absent" before the insert
  steps,     \* statuses of the rows of operational_operation_steps
  recorded,  \* idempotency keys with a row in idempotency_records
  job,       \* the job action-operation-<id> of each queue
  rpc, rop,  \* per request: next await of createOperation, the row it enqueues
  wpc, wop,  \* per slot: next await of executeActionJob, its operation
  verdict,   \* per slot: how the job's promise is rejected
  cpc, batch, cur, \* per reconciler pass
  runs,      \* history: how often execute returned a result, per Subject
  crashes, dbFaults

dbVars   == <<status, steps, recorded>>
reqVars  == <<rpc, rop>>
workVars == <<wpc, wop, verdict>>
recVars  == <<cpc, batch, cur>>
budgets  == <<crashes, dbFaults>>
vars == <<input, dbVars, job, reqVars, workVars, recVars, runs, budgets>>

(***************************************************************************)
(* Keys.  executeActionJob L18: definition.idempotencyKey(input) or else   *)
(* the row's own key.  A keyless operation is its own subject.             *)
(***************************************************************************)
EffectiveKey(i) ==
  IF DerivedKey[i.action] # NoKey THEN DerivedKey[i.action] ELSE i.key

KeyOf(o) == EffectiveKey(input[o])
ActionOf(o) == input[o].action
Subjects == Keys \cup Requests
Subject(o) == IF KeyOf(o) = NoKey THEN o ELSE KeyOf(o)

(***************************************************************************)
(* BullMQ jobs (external).  queue.add with a jobId that exists is a no-op; *)
(* the id is unique per queue, not across queues.                          *)
(***************************************************************************)
JobStates == {"none", "waiting", "active", "delayed", "completed", "failed"}
JobRecord == [state: JobStates, made: 0..JobAttempts, stalls: 0..MaxStalls]
NoJob  == [state |-> "none",    made |-> 0, stalls |-> 0]
NewJob == [state |-> "waiting", made |-> 0, stalls |-> 0]

HasJob(q, o)  == job[q][o].state # "none"
LiveJob(q, o) == job[q][o].state \in {"waiting", "active", "delayed"}

SetJob(q, o, j) == job' = [job EXCEPT ![q][o] = j]
SetJobState(q, o, s) == SetJob(q, o, [job[q][o] EXCEPT !.state = s])

\* A jobId that is not derived from the operation: every add creates a job.
AddWithoutJobId(q, o) == SetJob(q, o, NewJob)

AddIfAbsent(q, o) ==
  IF HasJob(q, o) THEN UNCHANGED job ELSE SetJob(q, o, NewJob)

-----------------------------------------------------------------------------
OpStatuses == {"absent", "pending", "queued", "processing",
               "retry_scheduled", "completed", "failed"}
StepStatuses == {"taken_by_worker", "completed", "failed", "idempotency.hit"}

RequestPcs == {"insert", "add", "mark", "done"}
WorkerPcs  == {"idle", "load", "hit_step", "hit_complete", "claim", "taken",
               "execute", "step", "save", "complete", "fail_step",
               "fail_status", "ack", "nack", "dead"}
ReconcilerPcs == {"idle", "check", "add"}

Init ==
  /\ input \in [Requests -> Inputs]
  /\ status = [o \in Ops |-> "absent"]
  /\ steps = [o \in Ops |-> {}]
  /\ recorded = {}
  /\ job = [q \in Queues |-> [o \in Ops |-> NoJob]]
  /\ rpc = [r \in Requests |-> "insert"]
  /\ rop = [r \in Requests |-> NoOp]
  /\ wpc = [w \in Workers |-> "idle"]
  /\ wop = [w \in Workers |-> NoOp]
  /\ verdict = [w \in Workers |-> "retry"]
  /\ cpc = [c \in Reconcilers |-> "idle"]
  /\ batch = [c \in Reconcilers |-> {}]
  /\ cur = [c \in Reconcilers |-> NoOp]
  /\ runs = [s \in Subjects |-> 0]
  /\ crashes = 0
  /\ dbFaults = 0

(***************************************************************************)
(* createOperation / enqueueOperation (API process).                       *)
(***************************************************************************)
Created(o) == status[o] # "absent"

RowsWithKey(k) == {o \in Ops : Created(o) /\ input[o].key = k /\ k # NoKey}

\* The row is inserted as queued, before it has a job.
CreateRowQueued(r) ==
  /\ rpc[r] = "insert"
  /\ RowsWithKey(input[r].key) = {}
  /\ status' = [status EXCEPT ![r] = "queued"]
  /\ rpc' = [rpc EXCEPT ![r] = "add"]
  /\ rop' = [rop EXCEPT ![r] = r]
  /\ UNCHANGED <<input, steps, recorded, job, workVars, recVars, runs, budgets>>

\* INSERT ... ON CONFLICT DO NOTHING created the row.
CreateRow(r) ==
  /\ rpc[r] = "insert"
  /\ RowsWithKey(input[r].key) = {}
  /\ status' = [status EXCEPT ![r] = "pending"]
  /\ rpc' = [rpc EXCEPT ![r] = "add"]
  /\ rop' = [rop EXCEPT ![r] = r]
  /\ UNCHANGED <<input, steps, recorded, job, workVars, recVars, runs, budgets>>

\* The insert conflicted: the row with the same idempotency key is used.
ReuseRow(r) ==
  /\ rpc[r] = "insert"
  /\ \E o \in RowsWithKey(input[r].key) : rop' = [rop EXCEPT ![r] = o]
  /\ rpc' = [rpc EXCEPT ![r] = "add"]
  /\ UNCHANGED <<input, dbVars, job, workVars, recVars, runs, budgets>>

\* queue.add into the request's queue, not the definition's.
AddJob(r) ==
  /\ rpc[r] = "add"
  /\ AddIfAbsent(input[r].queue, rop[r])
  /\ rpc' = [rpc EXCEPT ![r] = "mark"]
  /\ UNCHANGED <<input, dbVars, rop, workVars, recVars, runs, budgets>>

EndRequest(r) ==
  /\ rpc' = [rpc EXCEPT ![r] = "done"]
  /\ rop' = [rop EXCEPT ![r] = NoOp]

\* UPDATE ... SET status = 'queued': whatever the status is by now.
MarkQueued(r) ==
  /\ rpc[r] = "mark"
  /\ status' = [status EXCEPT ![rop[r]] = "queued"]
  /\ EndRequest(r)
  /\ UNCHANGED <<input, steps, recorded, job, workVars, recVars, runs, budgets>>

\* The API process dies, or one of the awaits is rejected: the call ends with
\* the row inserted and its job perhaps added.
RequestDies(r) ==
  /\ rpc[r] \in {"add", "mark"}
  /\ EndRequest(r)
  /\ UNCHANGED <<input, dbVars, job, workVars, recVars, runs, budgets>>

-----------------------------------------------------------------------------
(***************************************************************************)
(* executeActionJob (worker process).  A slot takes a waiting job of its   *)
(* queue and runs the handler, one awaited statement at a time.            *)
(***************************************************************************)
Goto(w, pc) == wpc' = [wpc EXCEPT ![w] = pc]

Working(w) == wpc[w] \notin {"idle", "dead"}

Take(w, o) ==
  /\ wpc[w] = "idle"
  /\ job[WorkerQueue[w]][o].state = "waiting"
  /\ SetJobState(WorkerQueue[w], o, "active")
  /\ Goto(w, "load")
  /\ wop' = [wop EXCEPT ![w] = o]
  /\ UNCHANGED <<input, dbVars, reqVars, verdict, recVars, runs, budgets>>

\* A lookup by the row's key, although the record is stored under the
\* definition's key.
HitOnRowKey(o) == input[o].key \in recorded

\* getIdempotencyRecord: the keyless operation never hits.
Hit(o) == KeyOf(o) # NoKey /\ KeyOf(o) \in recorded

\* A rejected input is handled like a failing execution.
LoadFailsRejected(w) ==
  LET o == wop[w] IN
  /\ wpc[w] = "load"
  /\ Goto(w, IF ActionOf(o) \notin Accepted THEN "fail_step"
             ELSE IF Hit(o) THEN "hit_step" ELSE "claim")
  /\ UNCHANGED <<input, dbVars, job, reqVars, wop, verdict, recVars, runs, budgets>>

\* Load the row, find the definition, validate the input, look the key up.
\* An unknown action is a plain error that BullMQ retries; a rejected input is
\* unrecoverable.  Neither touches the row: its status stays as it is.
Load(w) ==
  LET o == wop[w] IN
  /\ wpc[w] = "load"
  /\ \/ /\ ActionOf(o) \notin Catalog
        /\ Goto(w, "nack")
        /\ verdict' = [verdict EXCEPT ![w] = "retry"]
     \/ /\ ActionOf(o) \in Catalog \ Accepted
        /\ Goto(w, "nack")
        /\ verdict' = [verdict EXCEPT ![w] = "fatal"]
     \/ /\ ActionOf(o) \in Accepted
        /\ Goto(w, IF Hit(o) THEN "hit_step" ELSE "claim")
        /\ UNCHANGED verdict
  /\ UNCHANGED <<input, dbVars, job, reqVars, wop, recVars, runs, budgets>>

\* recordOperationStep inserts a step row.
WriteStep(w, s) ==
  /\ steps' = [steps EXCEPT ![wop[w]] = @ \cup {s}]
  /\ UNCHANGED <<status, recorded>>

\* updateOperationStatus writes the status unconditionally.
WriteStatus(w, s) ==
  /\ status' = [status EXCEPT ![wop[w]] = s]
  /\ UNCHANGED <<steps, recorded>>

\* saveIdempotencyRecord: an upsert, nothing for a keyless operation.
WriteRecord(w) ==
  /\ recorded' = recorded \cup ({KeyOf(wop[w])} \ {NoKey})
  /\ UNCHANGED <<status, steps>>

\* The statement awaited at a position is answered, and the handler moves on.
InsertStep(w, at, s, next) ==
  /\ wpc[w] = at
  /\ WriteStep(w, s)
  /\ Goto(w, next)
  /\ UNCHANGED <<input, job, reqVars, wop, verdict, recVars, runs, budgets>>

UpdateStatus(w, at, s, next) ==
  /\ wpc[w] = at
  /\ WriteStatus(w, s)
  /\ Goto(w, next)
  /\ UNCHANGED <<input, job, reqVars, wop, verdict, recVars, runs, budgets>>

\* A hit that does not complete the row.
HitStepOnly(w) == InsertStep(w, "hit_step", "idempotency.hit", "ack")

\* The stored result answers the job: completed without a new execution.
HitStep(w) == InsertStep(w, "hit_step", "idempotency.hit", "hit_complete")
HitComplete(w) == UpdateStatus(w, "hit_complete", "completed", "ack")

\* The key is reserved when the operation is claimed, before it is executed.
ClaimAndReserve(w) ==
  /\ wpc[w] = "claim"
  /\ status' = [status EXCEPT ![wop[w]] = "processing"]
  /\ recorded' = recorded \cup ({KeyOf(wop[w])} \ {NoKey})
  /\ Goto(w, "taken")
  /\ UNCHANGED <<input, steps, job, reqVars, wop, verdict, recVars, runs, budgets>>

\* No stored result: the operation is claimed for execution.
Claim(w) == UpdateStatus(w, "claim", "processing", "taken")
TakenStep(w) == InsertStep(w, "taken", "taken_by_worker", "execute")

\* definition.precondition and definition.execute.
Execute(w) ==
  /\ wpc[w] = "execute"
  /\ \E result \in Outcomes[ActionOf(wop[w])] :
       \/ /\ result = "ok"
          /\ Goto(w, "step")
          /\ runs' = [runs EXCEPT ![Subject(wop[w])] = @ + 1]
          /\ UNCHANGED verdict
       \/ /\ result \in {"retryable", "fatal"}
          /\ Goto(w, "fail_step")
          /\ verdict' = [verdict EXCEPT ![w] = IF result = "fatal" THEN "fatal" ELSE "retry"]
          /\ UNCHANGED runs
  /\ UNCHANGED <<input, dbVars, job, reqVars, wop, recVars, budgets>>

CompletedStep(w) == InsertStep(w, "step", "completed", "save")

\* The result is not stored before the operation is completed.
SkipSave(w) ==
  /\ wpc[w] = "save"
  /\ Goto(w, "complete")
  /\ UNCHANGED <<input, dbVars, job, reqVars, wop, verdict, recVars, runs, budgets>>

SaveRecord(w) ==
  /\ wpc[w] = "save"
  /\ WriteRecord(w)
  /\ Goto(w, "complete")
  /\ UNCHANGED <<input, job, reqVars, wop, verdict, recVars, runs, budgets>>

Complete(w) == UpdateStatus(w, "complete", "completed", "ack")

FailStep(w) == InsertStep(w, "fail_step", "failed", "fail_status")

\* retry_scheduled even when BullMQ has no attempt left for the job.
FailureStatus(w) == IF verdict[w] = "retry" THEN "retry_scheduled" ELSE "failed"
FailStatus(w) == UpdateStatus(w, "fail_status", FailureStatus(w), "nack")

\* The statement a slot awaits was committed, but its answer was lost.
AnswerLost(w) ==
  \/ wpc[w] = "hit_step"     /\ WriteStep(w, "idempotency.hit")
  \/ wpc[w] = "hit_complete" /\ WriteStatus(w, "completed")
  \/ wpc[w] = "claim"        /\ WriteStatus(w, "processing")
  \/ wpc[w] = "taken"        /\ WriteStep(w, "taken_by_worker")
  \/ wpc[w] = "step"         /\ WriteStep(w, "completed")
  \/ wpc[w] = "save"         /\ WriteRecord(w)
  \/ wpc[w] = "complete"     /\ WriteStatus(w, "completed")
  \/ wpc[w] = "fail_step"    /\ WriteStep(w, "failed")
  \/ wpc[w] = "fail_status"  /\ WriteStatus(w, FailureStatus(w))

(***************************************************************************)
(* A rejected database statement, with or without its effect.  Before the  *)
(* try block (L9-22) and in the catch block (L29-36) the rejection leaves  *)
(* the handler; L26 and L27 are caught by the handler; L28 and L20 return  *)
(* the promise without awaiting it, so the catch block does not see its    *)
(* rejection.                                                              *)
(***************************************************************************)
DbFault(w) ==
  /\ dbFaults < MaxDbFaults
  /\ dbFaults' = dbFaults + 1
  /\ UNCHANGED dbVars \/ AnswerLost(w)
  /\ \/ /\ wpc[w] \in {"load", "hit_step", "hit_complete", "claim", "taken",
                       "complete", "fail_step", "fail_status"}
        /\ Goto(w, "nack")
     \/ /\ wpc[w] \in {"step", "save"}
        /\ Goto(w, "fail_step")
  /\ verdict' = [verdict EXCEPT ![w] = "retry"]
  /\ UNCHANGED <<input, job, reqVars, wop, recVars, runs, crashes>>

(***************************************************************************)
(* What BullMQ does with the settled promise (external).                   *)
(***************************************************************************)
Release(w, pc) ==
  /\ Goto(w, pc)
  /\ wop' = [wop EXCEPT ![w] = NoOp]
  /\ verdict' = [verdict EXCEPT ![w] = "retry"]

Ack(w) ==
  /\ wpc[w] = "ack"
  /\ SetJobState(WorkerQueue[w], wop[w], "completed")
  /\ Release(w, "idle")
  /\ UNCHANGED <<input, dbVars, reqVars, recVars, runs, budgets>>

\* A failed attempt is always retried.
NackWithoutLimit(w) ==
  /\ wpc[w] = "nack"
  /\ LET q == WorkerQueue[w]  o == wop[w] IN
       SetJob(q, o, [job[q][o] EXCEPT !.made = @ + 1, !.state = "delayed"])
  /\ Release(w, "idle")
  /\ UNCHANGED <<input, dbVars, reqVars, recVars, runs, budgets>>

\* attempts are counted per failed attempt; UnrecoverableError ends the job.
Nack(w) ==
  LET q == WorkerQueue[w]
      o == wop[w]
      made == job[q][o].made + 1
      dead == verdict[w] = "fatal" \/ made = JobAttempts
  IN
  /\ wpc[w] = "nack"
  /\ SetJob(q, o, [job[q][o] EXCEPT !.made = made,
                                    !.state = IF dead THEN "failed" ELSE "delayed"])
  /\ Release(w, "idle")
  /\ UNCHANGED <<input, dbVars, reqVars, recVars, runs, budgets>>

\* The backoff of a failed attempt is over.
Promote(q, o) ==
  /\ job[q][o].state = "delayed"
  /\ SetJobState(q, o, "waiting")
  /\ UNCHANGED <<input, dbVars, reqVars, workVars, recVars, runs, budgets>>

\* The slot's process is killed; the job it holds stays active in Redis.
Crash(w) ==
  /\ Working(w)
  /\ crashes < MaxCrashes
  /\ crashes' = crashes + 1
  /\ Release(w, "dead")
  /\ UNCHANGED <<input, dbVars, job, reqVars, recVars, runs, dbFaults>>

Restart(w) ==
  /\ wpc[w] = "dead"
  /\ Release(w, "idle")
  /\ UNCHANGED <<input, dbVars, job, reqVars, recVars, runs, budgets>>

Held(q, o) == \E w \in Workers : Working(w) /\ WorkerQueue[w] = q /\ wop[w] = o

\* The stalled check: the lock of an active job nobody works on expires.
Stalled(q, o) ==
  /\ job[q][o].state = "active"
  /\ ~Held(q, o)
  /\ IF job[q][o].stalls < MaxStalls
       THEN SetJob(q, o, [job[q][o] EXCEPT !.state = "waiting", !.stalls = @ + 1])
       ELSE SetJobState(q, o, "failed")
  /\ UNCHANGED <<input, dbVars, reqVars, workVars, recVars, runs, budgets>>

\* Retention: beyond KeepTerminal finished jobs of a kind, one is removed.
Evict(q, o) ==
  /\ job[q][o].state \in {"completed", "failed"}
  /\ Cardinality({p \in Ops : job[q][p].state = job[q][o].state}) > KeepTerminal
  /\ SetJob(q, o, NoJob)
  /\ UNCHANGED <<input, dbVars, reqVars, workVars, recVars, runs, budgets>>

-----------------------------------------------------------------------------
(***************************************************************************)
(* reconcileQueuedOperations: select a batch, then look for the job of     *)
(* each row in every queue and add it to the definition's queue if there   *)
(* is none.                                                                *)
(***************************************************************************)
\* A reconciler that only looks for rows it believes are in a queue.
ReconcileQueuedOnly == {"queued", "retry_scheduled"}

Reconciled == {"pending", "queued", "retry_scheduled"}

Candidates == {o \in Ops : status[o] \in Reconciled}

Select(c) ==
  /\ cpc[c] = "idle"
  /\ \E b \in SUBSET Candidates :
       /\ b # {}
       /\ Cardinality(b) <= BatchLimit
       /\ b = Candidates \/ Cardinality(b) = BatchLimit
       /\ batch' = [batch EXCEPT ![c] = b]
  /\ cpc' = [cpc EXCEPT ![c] = "check"]
  /\ UNCHANGED <<input, dbVars, job, reqVars, workVars, cur, runs, budgets>>

\* The pass is over when the batch is empty.
Check(c, o) ==
  /\ cpc[c] = "check"
  /\ o \in batch[c]
  /\ batch' = [batch EXCEPT ![c] = @ \ {o}]
  /\ \/ /\ \E q \in Queues : HasJob(q, o)
        /\ cpc' = [cpc EXCEPT ![c] = IF batch'[c] = {} THEN "idle" ELSE "check"]
        /\ UNCHANGED cur
     \/ /\ \A q \in Queues : ~HasJob(q, o)
        /\ cpc' = [cpc EXCEPT ![c] = "add"]
        /\ cur' = [cur EXCEPT ![c] = o]
  /\ UNCHANGED <<input, dbVars, job, reqVars, workVars, runs, budgets>>

Requeue(c) ==
  /\ cpc[c] = "add"
  /\ ActionOf(cur[c]) \in Catalog
  /\ AddIfAbsent(HomeQueue[ActionOf(cur[c])], cur[c])
  /\ cpc' = [cpc EXCEPT ![c] = IF batch[c] = {} THEN "idle" ELSE "check"]
  /\ cur' = [cur EXCEPT ![c] = NoOp]
  /\ UNCHANGED <<input, dbVars, reqVars, workVars, batch, runs, budgets>>

\* An action the catalog does not define has no queue: the throw ends the
\* pass, the rest of the batch with it.
RequeueThrows(c) ==
  /\ cpc[c] = "add"
  /\ ActionOf(cur[c]) \notin Catalog
  /\ cpc' = [cpc EXCEPT ![c] = "idle"]
  /\ cur' = [cur EXCEPT ![c] = NoOp]
  /\ batch' = [batch EXCEPT ![c] = {}]
  /\ UNCHANGED <<input, dbVars, job, reqVars, workVars, runs, budgets>>

\* The worker process is killed, or a statement of the pass is rejected.
PassAborted(c) ==
  /\ cpc[c] # "idle"
  /\ dbFaults < MaxDbFaults
  /\ dbFaults' = dbFaults + 1
  /\ cpc' = [cpc EXCEPT ![c] = "idle"]
  /\ cur' = [cur EXCEPT ![c] = NoOp]
  /\ batch' = [batch EXCEPT ![c] = {}]
  /\ UNCHANGED <<input, dbVars, job, reqVars, workVars, runs, crashes>>

-----------------------------------------------------------------------------
RequestStep(r) ==
  CreateRow(r) \/ ReuseRow(r) \/ AddJob(r) \/ MarkQueued(r)

HandlerStep(w) ==
  \/ Load(w) \/ HitStep(w) \/ HitComplete(w) \/ Claim(w) \/ TakenStep(w)
  \/ Execute(w) \/ CompletedStep(w) \/ SaveRecord(w) \/ Complete(w)
  \/ FailStep(w) \/ FailStatus(w)

SlotStep(w) ==
  \/ \E o \in Ops : Take(w, o)
  \/ HandlerStep(w)
  \/ Ack(w) \/ Nack(w) \/ Restart(w)

RedisStep(q, o) == Promote(q, o) \/ Stalled(q, o)

ReconcilerStep(c) ==
  \/ Select(c)
  \/ \E o \in Ops : Check(c, o)
  \/ Requeue(c) \/ RequeueThrows(c)

Next ==
  \/ \E r \in Requests : RequestStep(r) \/ RequestDies(r)
  \/ \E w \in Workers : SlotStep(w) \/ DbFault(w) \/ Crash(w)
  \/ \E q \in Queues, o \in Ops : RedisStep(q, o) \/ Evict(q, o)
  \/ \E c \in Reconcilers : ReconcilerStep(c) \/ PassAborted(c)

Spec == Init /\ [][Next]_vars

(***************************************************************************)
(* Scheduling.  Slots are event loops that keep running their handlers and *)
(* are restarted by the container platform; BullMQ promotes delayed jobs   *)
(* and checks stalled ones periodically; the reconciler is a timer.  No    *)
(* slot or job is promised a turn of its own: the code keeps each of these *)
(* going as a whole.  Clients promise nothing.                             *)
(***************************************************************************)
Fairness ==
  /\ WF_vars(\E w \in Workers : SlotStep(w))
  /\ WF_vars(\E q \in Queues, o \in Ops : RedisStep(q, o))
  /\ WF_vars(\E c \in Reconcilers : ReconcilerStep(c))

FairSpec == Spec /\ Fairness

-----------------------------------------------------------------------------
(***************************************************************************)
(* Properties.                                                             *)
(***************************************************************************)

\* Every variable keeps its type: statuses are the ones the schema and the
\* worker write, a request that enqueues names a created row, a job never
\* makes more attempts than its options allow.
TypeOK ==
  /\ input \in [Requests -> Inputs]
  /\ status \in [Ops -> OpStatuses]
  /\ steps \in [Ops -> SUBSET StepStatuses]
  /\ recorded \subseteq Keys
  /\ job \in [Queues -> [Ops -> JobRecord]]
  /\ rpc \in [Requests -> RequestPcs]
  /\ rop \in [Requests -> Ops \cup {NoOp}]
  /\ wpc \in [Workers -> WorkerPcs]
  /\ wop \in [Workers -> Ops \cup {NoOp}]
  /\ verdict \in [Workers -> {"retry", "fatal"}]
  /\ cpc \in [Reconcilers -> ReconcilerPcs]
  /\ batch \in [Reconcilers -> SUBSET Ops]
  /\ cur \in [Reconcilers -> Ops \cup {NoOp}]
  /\ runs \in [Subjects -> Nat]
  /\ crashes \in 0..MaxCrashes
  /\ dbFaults \in 0..MaxDbFaults

\* The API and the reconciler enqueue every keyed operation into one queue:
\* bodies with one idempotency key name one queue, and it is the queue of the
\* definition.  The default queue name (createOperation L9) satisfies this for
\* actions of priority_commands and not for those of background_events.
ConsistentRouting ==
  \A i, j \in Inputs :
    /\ i.key = j.key /\ i.key # NoKey => i.queue = j.queue
    /\ EffectiveKey(i) = EffectiveKey(j) /\ EffectiveKey(i) # NoKey
         => i.queue = HomeQueue[j.action]

\* WORKER_CONCURRENCY = 1 and one worker process.
OneSlotPerQueue ==
  \A v, w \in Workers : WorkerQueue[v] = WorkerQueue[w] => v = w

\* A completed operation has its evidence: a step row that says how it
\* completed and, when it has a key, the stored result the next execution
\* with that key will be answered with (executeActionJob writes the status
\* last, L20 and L26-28), whatever crashed or failed in between.
CompletedIsBacked ==
  \A o \in Ops : status[o] = "completed" =>
    /\ steps[o] \cap {"completed", "idempotency.hit"} # {}
    /\ KeyOf(o) # NoKey => KeyOf(o) \in recorded

\* A stored result was earned: execute returned for some operation with that
\* key and its completed step was written before.  A result is never stored
\* for an execution that failed, was rejected or was only claimed.
RecordIsEarned ==
  \A k \in recorded :
    /\ runs[k] > 0
    /\ \E o \in Ops : KeyOf(o) = k /\ "completed" \in steps[o]

\* The queues that jobs of a body may get into: its own, that of a body with
\* the same idempotency key, and that of its definition.
QueuesOf(i) ==
  {HomeQueue[i.action]} \cup
  {j.queue : j \in {x \in Inputs : x = i \/ (x.key = i.key /\ i.key # NoKey)}}

\* The slots that may be given a job of a key.
SlotsOfKey(k) ==
  {w \in Workers : \E i \in Inputs : EffectiveKey(i) = k /\ WorkerQueue[w] \in QueuesOf(i)}

\* However many jobs in however many queues a key has, and although the lookup
\* (executeActionJob L19) is stale by the time of execute (L25): each slot
\* that may be given its jobs executes it at most once before a result is
\* stored and no slot begins afterwards; every other run was lost to a crash
\* or a failing statement.  For the code's default routing and any
\* WORKER_CONCURRENCY this, and nothing less, is what a key promises.
RunsWithinSlots ==
  \A k \in Keys : runs[k] <= Cardinality(SlotsOfKey(k)) + crashes + dbFaults

\* With one slot per key (ConsistentRouting and OneSlotPerQueue), every
\* repeated execution of a key is paid for by a crash or a failing statement
\* between execute and the stored result; requests, duplicates of a request,
\* re-enqueues and redeliveries alone never cause one.
RepeatsArePaidFor ==
  \A k \in Keys : runs[k] <= 1 + crashes + dbFaults

\* With one slot per key, a keyed operation leaves "completed" only because an API call marks it
\* queued (enqueueOperation L19, unconditional): a worker never reopens one.
ReopenedOnlyByApi ==
  [][\A o \in Ops :
       /\ status[o] = "completed"
       /\ status'[o] # "completed"
       /\ KeyOf(o) # NoKey
       => \E r \in Requests : rpc[r] = "mark" /\ rop[r] = o /\ rpc'[r] = "done"]_vars

\* With one slot per key the pipeline implements the promise of idempotency
\* keys: its stored results and its runs, key by key, are those of
\* IdempotentActions.
Promise == INSTANCE IdempotentActions WITH runs <- [k \in Keys |-> runs[k]]
KeepsThePromise == Promise!Spec

\* While finished jobs are retained, a row that says "queued" has a job: the
\* job is added before the row is marked (enqueueOperation L18-19), so a
\* process that dies in between leaves a row the reconciler still sees.
QueuedHasJob ==
  \A o \in Ops : status[o] = "queued" => \E q \in Queues : HasJob(q, o)

\* An operation whose action is unknown or whose input is rejected never gets
\* a step, a claim or a result: executeActionJob gives up (L13-17) without a
\* word in the database, and the row waits in pending or queued for ever.
RejectedLeavesNoTrace ==
  \A o \in Ops : ActionOf(o) \notin Accepted =>
    steps[o] = {} /\ status[o] \in {"absent", "pending", "queued"}

\* Two slots never execute one job: two slots busy with the same operation
\* hold its jobs of two different queues (the job id is unique per queue).
SlotsHoldDistinctJobs ==
  \A v, w \in Workers :
    Working(v) /\ Working(w) /\ v # w /\ wop[v] = wop[w]
      => WorkerQueue[v] # WorkerQueue[w]

\* An operation no worker gets to: a job of it died before anybody took it,
\* because its slots were killed or its statements rejected more often than
\* BullMQ redelivers.  The dead job is retained, and the reconciler takes it
\* for a sign of life.
LostToFailures(o) ==
  /\ \E q \in Queues : job[q][o].state = "failed"
  /\ crashes > MaxStalls \/ dbFaults >= JobAttempts

\* No more rows than one batch of the reconciler has room for (limit, L5): its
\* select has no order, and beyond that others may fill every batch.
RowsFitABatch == Cardinality(Requests) <= BatchLimit

\* Every created operation of a known action with an accepted input is
\* eventually taken by a worker or answered from the stored result, even if
\* the API process died before it added the job, unless its job is lost to
\* more failures than its attempts and stalls allow; and provided the
\* reconciler's batch has room for every row.
EveryOperationIsTaken ==
  RowsFitABatch =>
    \A o \in Ops :
      Created(o) /\ ActionOf(o) \in Accepted
        ~> \/ steps[o] \cap {"taken_by_worker", "idempotency.hit"} # {}
           \/ LostToFailures(o)

\* The shapes in which an operation may rest: finished; or unfinished with a
\* retained job that is dead (attempts exhausted, unrecoverable, or stalled
\* too often), which the reconciler takes for a sign of life; or finished and
\* then marked queued by a late API call; or of an unknown action and without
\* a job, at which every pass of the reconciler throws.
Settled(o) ==
  /\ \A q \in Queues : ~LiveJob(q, o)
  /\ \/ status[o] \in {"completed", "failed"}
     \/ \E q \in Queues : job[q][o].state = "failed"
     \/ status[o] = "queued" /\ \E q \in Queues : job[q][o].state = "completed"
     \/ ActionOf(o) \notin Catalog /\ status[o] = "pending"

\* Every created operation comes to rest, in one of these shapes, provided
\* the reconciler's batch has room for every row.
EveryOperationSettles ==
  RowsFitABatch => \A o \in Ops : Created(o) ~> []Settled(o)

=============================================================================
