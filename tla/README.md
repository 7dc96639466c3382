# Civitas: models, checks and proofs

This directory is the verification project of Civitas: TLA+ modules that model
the backend's protocols from its source, TLC configurations that check them on
small instances, and theorems, proved with TLAPS, that hold for every value of
the constants.  Paths below are relative to the repository's root
(`src/` in `PROJECT.json`).  `PROJECT.json` maps every definition that models
code to the lines it models, lists the runs with the properties each checks,
one mutation of the model per property that the property must notice, the
hazards the properties are for, and the theorems.

## 1. Inventory

| Component | State it keeps | Operations | What is hard | What makes it correct |
|---|---|---|---|---|
| **Operation pipeline** (`backend/services/operationalOperations.js`, `queues/actionQueue.js`, `worker/executeActionJob.js`, `worker/reconcileQueuedOperations.js`, `worker/createWorkers.js`) | rows of `operational_operations`, their steps, `idempotency_records`; BullMQ jobs in Redis | `createOperation`, `enqueueOperation`, `executeActionJob`, `reconcileQueuedOperations` | three kinds of processes interleave at every await; crashes between two writes; redelivery; jobs of one row in two queues; rejected statements inside and outside a `try` | a key's action runs at most once per slot that may be given its jobs, and with one such slot not again once its result is stored; a completed row has its evidence; what is created is taken, unless more fails than BullMQ redelivers |
| **Foundation engine** (`worker/engine.js`, `worker/foundationStore.js`, `worker/actionDefinition.js`) | operations, steps, idempotency records in memory | `executeAction` | calls of one key that overlap | an answer is the result of a success; how many runs and operations one key can cause |
| **Action definitions** (`worker/actionDefinitions/*`, `worker/actionCatalog.js`) | none | `idempotencyKey`, `precondition`, `execute` | key and queue are derived differently by API and worker | routing agrees between all who enqueue |
| **Database-polling queue** (`operationalOperations.js` 23-61) | the same rows, `attempts`, `next_attempt_at` | `claimNextOperation`, `startOperationStep`, `completeOperation`, `failOperation` | `FOR UPDATE SKIP LOCKED`, back-off, a row claimed by a process that died | attempts bounded, one claimer per row |
| **Organization provisioning** (`services/organizationProvisioning*.js`) | none of its own; organizations, memberships and roles in Logto | `runCanonicalOrganizationProvisioning` | eight or more remote calls without compensation; a repeated request | a finished provisioning has every contact a member with its role; what a failed one leaves behind |
| **Logto user resolution** (`services/logtoManagement.js` 456-522, 569-614) | users in Logto | `createOrResolveLogtoUserByEmail`, removal of prohibited global roles | two requests that look up, miss and create; conflicts on email, phone and username; lost answers | one user per email; the caller gets the user of the email it asked for |
| **Logto client** (`logtoManagement.js` 98-241, `services/timeouts.js`) | token cache | `fetchLogtoManagementApiAccessToken`, `callLogtoManagementApi`, `withTimeout` | concurrent refreshes; answer against timer | a token is never used within five minutes of its expiry; each call settles once; a caller with a good token is never told that he is unauthorized |
| **Rate limiter** (`middleware/securityPolicies.js`) | buckets per scope and identity | `createRateLimiter` | window boundaries, limiter before authentication | fewer than twice `max` in any window's length, and nobody refused early |
| **Authentication, RBAC** (`middleware/auth.js`, `rbac/matrix.js`) | none | `requireAuth`, `requirePermission`, ... | order of the middleware, the frontend's copy of the rules | what the dashboard offers the API allows |
| **Runtime health** (`services/runtime/*`, `services/operationalObservability.js`) | heartbeat key with a TTL, a snapshot cache | heartbeat, classification of worker and queues, overview | three clocks: TTL, stale threshold, cache | a worker that writes its heartbeat is seen alive by a read that succeeds, a dead one is called offline within a bound |
| **Operational contract, state assembler** (`services/operational/*`, `operationalStateAssembler.js`) | none | freshness, dominance of blocks, next action | several lists of statuses answer one question | polling, dominance, overview and blockers agree |
| **Role mapping** (`authorization/*`) | mapping store | `resolveRoleMapping` | precedence, inactive and conflicting mappings | the most specific active mapping wins |
| **Connector registry** (`connectors/*`, `services/registryStore.js`) | bindings | register, resolve, health | binding of a connector that is gone | a resolved adapter has the capability asked for |
| **API server** (`backend/index.js`) | none | routes | one clock, one token cache and one set of buckets for all requests; awaits of Redis and PostgreSQL without a timer | every request is answered, or waits where the program has no timer |
| **Frontend** (`frontend/src/pages/*`, `authz/rbacMatrix.ts`, `navigation/routes.ts`) | page state, the form of a new organization | polling of operational state, fetches, edits | answers out of order, timers of the previous page, a template that arrives in the middle of an edit | the page shows the organization it is on; what the form posts is consistent, and what the API refuses of it is known |
| **Infrastructure** (`lib/*`, `runtime/env.js`, `security/passwordHashing.js`) | pools | | library calls | |

How they interact: the API server calls the operation pipeline's producer side
and the services; the worker process holds one BullMQ `Worker` per queue, which
calls `executeActionJob`, and a timer that calls the reconciler.  API and worker
share PostgreSQL (rows, steps, records) and Redis (jobs, heartbeat) and send no
messages to each other besides.  Provisioning is called by a route, not by the
pipeline, and talks to Logto only.  The foundation engine is a second, in-memory
executor used by the foundation's actions and their tests.

## 2. Modules

| Module | What it is |
|---|---|
| `OperationPipeline` | the pipeline: API calls, worker slots, BullMQ's jobs (external), the reconciler |
| `IdempotentActions` | the abstract promise of an idempotency key: run while nothing is stored, store what was run, never run again |
| `MCOperationPipeline` | three small instances: routed, default routing, liveness |
| `OperationPipelineProofs` | theorems about the pipeline |
| `FoundationEngine`, `MCFoundationEngine`, `FoundationEngineProofs` | the in-memory engine, its instance, its theorems |
| `UserResolution` | `createOrResolveLogtoUserByEmail` of concurrent calls over Logto's accounts (external) |
| `UserDirectory` | the abstract promise: an email gets one account and keeps it, an answer is the account of its email |
| `MCUserResolution`, `UserResolutionProofs` | an instance; every property of its for every instance |
| `Provisioning`, `MCProvisioning`, `ProvisioningProofs` | `runCanonicalOrganizationProvisioning`; it extends `UserResolution`, whose calls resolve its contacts |
| `OrganizationForm`, `MCOrganizationForm`, `OrganizationFormProofs` | the page that posts a new organization, and what the API checks of the payload |
| `WorkerHeartbeat`, `WorkerHeartbeatProofs` | the worker's key in Redis and what the API reads from it, with time |
| `OperationalContract` | pure operators: blocks, summary, polling policy, overview, blockers of a set of rows |
| `OperationalConsole`, `MCOperationalConsole`, `OperationalConsoleProofs` | the rows as the worker's slots write them, the route and the polling page together (it extends `OperationalContract`) |
| `Clock` | `Date.now()` of the API process, which the next three share |
| `RateLimiter` | the store of buckets and the limiter's decision |
| `ManagementClient` | token cache, calls of the Management API, `withTimeout` |
| `Authorization` | pure operators: guards of the routes, `/me`, the frontend's rule |
| `ApiServer`, `MCApiServer`, `ApiServerProofs` | the way of a request through the three of them, and the dashboard that sends two |

Who extends whom:

    Provisioning       -> UserResolution
    OperationalConsole -> OperationalContract
    ApiServer          -> RateLimiter, ManagementClient, Authorization -> Clock
    OperationPipeline  refines IdempotentActions;  UserResolution refines UserDirectory
    ApiServer          refines RateLimiter and ManagementClient
    Provisioning       refines UserResolution and UserDirectory
    FoundationEngine   refines IdempotentActions, if its callers await each call

### OperationPipeline and the code

Every await that writes, or reads what another process writes, is an action;
reads of columns that no statement updates belong to the step that uses them.
An operation is named by the request whose INSERT created its row.

| Action | Code |
|---|---|
| `CreateRow`, `ReuseRow`, `AddJob`, `MarkQueued` | `createOperation` (INSERT ... ON CONFLICT DO NOTHING, else the row with the key), `enqueueActionOperation` into the body's queue, the unconditional `SET status = 'queued'` |
| `RequestDies` | the process ends, or an await rejects, between two of them |
| `Take` | BullMQ gives a waiting job to a slot |
| `Load` | `executeActionJob` 8-19: unknown action (plain error), rejected input (`UnrecoverableError`), lookup of the key |
| `HitStep`, `HitComplete` | 20 |
| `Claim`, `TakenStep`, `Execute` | 21, 22, 23-25 |
| `CompletedStep`, `SaveRecord`, `Complete` | 26, 27, 28 |
| `FailStep`, `FailStatus` | the catch block, 29-35 |
| `DbFault` | a rejected statement: where the catch block sees it and where it does not (20 and 28 return the promise without awaiting it; 9-22 come before the `try`). It has had no effect, or (`AnswerLost`) it was committed and only its answer was lost |
| `Ack`, `Nack`, `Promote`, `Stalled`, `Evict` | BullMQ: settled job, attempts, back-off, stalled check, retention (external) |
| `Crash`, `Restart` | a worker process is killed and started again (external; a graceful shutdown, `worker/index.js` 30-35, waits for its jobs and leaves none active) |
| `Select`, `Check`, `Requeue`, `RequeueThrows`, `PassAborted` | `reconcileQueuedOperations`, one batch |

State: `status`, `steps`, `recorded` are the three tables (a step is a member of
a set: how often it was written is not kept; a record is its key: its result is
not kept); `job[q][o]` is the job `action-operation-<id>` of queue `q`, with
attempts made and stalls; `rpc/rop`, `wpc/wop/verdict`, `cpc/batch/cur` are the
program counters and locals of API calls, slots and reconciler passes.  `runs`,
`crashes` and `dbFaults` are history.

Assumed of BullMQ and not of the code: a job id is unique in its queue; the lock
of a job is renewed while its handler runs, so a job stalls only when its slot
is dead; `attempts` are those of the queue's default options (the catalog's
`maxAttempts` is not passed to `queue.add`); a repeatable read of the row by
`executeActionJob` sees committed values.

### FoundationEngine and the code

One action per await of `executeAction`: `Begin`, `Lookup` (26-30),
`CreateOperation`, `CreateStep`, `Precondition`, `Process`, `Run`,
`StepSuccess`, `Succeed`, `SaveRecord`, and on an error `FailStep` and `Fail`. A
precondition may refuse the input for good (`refused`) or throw an error that
`isRetryableError` lets through (`unready`).  The store is the in-memory one;
its methods do not fail.  `Concurrency` is the number of calls the callers keep
in flight.

### UserResolution and the code

One action per request to Logto.  `account` is what Logto holds: email, phone
and username of each account; Logto refuses a write that would give one of them
to two accounts, or a malformed email or phone, and names one of the fields at
fault.  The program counter of a call is its next request; `found` is
`existingUser`, `omit` is `phoneConflict`.

| Action | Code (`services/logtoManagement.js`) |
|---|---|
| `FindEmail`, `FindPhoneOfFound`, `Update` | 573-583: the account of the email, the owner of the phone, the PATCH |
| `FindPhone`, `Create` | 585-593: the owner of the phone, the POST, and what its refusal names |
| `Relookup` | 593-601: the account another call has created meanwhile, or which retry |
| `RefindPhone` | 597-598: the owner of the refused phone, for a note; if there is none, `getLogtoUserId(null)` is a `TypeError` and the call throws |
| `CreateWithoutPhone`, `CreateSuffixed` | 599-600, 601-613 |
| `Fails` | 208-241: the network, the timer or a 5xx ends the call; a write may have been executed |

An account is named by the call that created it.  `disturbed` and `faulty` are
history: whose accounts another call wrote to while it was in flight, who met a
failure.  All callers pass a name (`buildUserCreatePayload`), so the branch
"found and nothing to update" (582) is not reached.

### Provisioning and the code

One action per request of `runCanonicalOrganizationProvisioning` (160-238):
`EnsureTemplate`, `Organization`, `JitRoleIds`, `JitDomains`,
`JitDefaultRoles`, then for each contact `Resolve` (starts the contact's call in
`UserResolution`), `Resolved` (it settled), `Role`, `Member`, `Grant`.
`RequestFails` ends the provisioning at any of them, with or without the effect.
`org` is what Logto holds of the organizations, `listed` is
`administrativeContactAssignments`.  `EnsureTemplate` and `Role` stand for their
reads as a whole: nothing in the code changes roles or the template.

### OrganizationForm and the code

One action per event handler and effect of `OwnerOrganizationsPage.tsx`.

| Action | Code |
|---|---|
| `LoadTemplate`, `TemplateAnswers`, `TemplateFails` | the template's effect and its answer, 222-268: blank phones are filled in and contacts numbered anew |
| `UpdateCountry`, `UpdateRegion`, `UpdateCity` | 287-359: which texts below survive a change, and `propagatePhonePrefix` over the contacts |
| `TypeEmail`, `TypePhone`, `SelectRole` | `updateContact`, 361-368: every contact with the row's id |
| `AddContact`, `RemoveContact` | 370-393 |
| `UpdateJitRole` | 605-619 |
| `Submit`, `Reject` | `validate`, `buildPayload` and `handleSubmit`, 395-499 |
| `Handle` | `normalizeProvisioningInput` and the check of the roles: refusal with errors, with missing roles, failure, or creation |
| `Answer`, `LoseAnswer` | 500-513: the promise of the POST settles, with the API's answer or without it (`api/base.ts`) |

`contacts` is keyed by a row that is never given out twice, while the `id` of a
contact is what the page keys it by; that is how two contacts with one id are
told apart.  Texts are members of small sets; of an email the model keeps what
`trim().toLowerCase()` makes of it, of a phone its prefix and the rest.

### WorkerHeartbeat, OperationalContract, OperationalConsole and the code

`WorkerHeartbeat` counts time in ticks.  `IntervalBeat` and `HealthBeat` are the
two callers of `publishWorkerHeartbeat` (`worker/index.js`), `Set` is the
`SET ... EX` when Redis executes it (also for a worker that has died meanwhile),
`BeatFails` its failure, `WorkerStops` and `WorkerStarts` the process, `Tick`
the clock, the expiry of the key and the age of its payload.  `WorkerState` is
what `loadRedisWorkerHealthSnapshot` concludes from what it reads (`Reads`): the
key, or nothing, since a GET that fails is turned into `null` (line 20) and any
other failure into the fallback of lines 114-120.

`OperationalContract` has an operator per function of `contract.js`,
`operationalStateAssembler.js` and `operationalObservability.js` that decides
something: `Blocks` (the six blocks of an organization), `DominanceRank`,
`SeverityRank`, `Summary`, `Polling`, `Listed` (the overview's operations) and
`Blocker`.  A row is its organization, kind, status, the status of its latest
step, and whether it is older than 120 s.

| Action of `OperationalConsole` | Code |
|---|---|
| `Create`, `MarkQueued` | `createOperation`, and `enqueueOperation`'s unconditional update |
| `Hit`, `Run`, `Fail` | `executeActionJob` 20, 21-28 and 29-33: each insert of a step and each update of a status is a step of the slot that has the row in hand, in the code's order, and slots interleave between them |
| `Abandon` | a rejected statement or the end of the process: the slot lets go of its row |
| `GrowsOld` | time |
| `Answer`, `CallFails` | `GET .../operational-state` (`index.js` 187-207): the reads, as of one moment, and their failure |
| `Visit` | the effect of `OwnerOrganizationOperationalPage.tsx` is cleaned up and runs again (65-70): cancelled flag, timer, and the state its closure captures |
| `Poll` | the timer of line 57 or 62 fires |
| `Receive`, `ReceiveFailure` | the two ends of `load`, 50-62 |

Any free slot may take any row: which rows have jobs, and how often, is
`OperationPipeline`'s matter.  `slots` says which row each slot has and how far it
is, `shared` (history) which rows two slots have had at once.  A health snapshot
may find the worker in any state; when it does is `WorkerHeartbeat`'s matter.

### RateLimiter, ManagementClient, Authorization, ApiServer and the code

| Action or operator | Code |
|---|---|
| `Limit`, `Incremented`, `Admits` | `MemoryRateLimitStore.increment` and the comparison with `max` (`middleware/securityPolicies.js`) |
| `Begin`, `Hit`, `TokenIssued`, `TokenRead`, `TokenFails` | `fetchLogtoManagementApiAccessToken`: the cache with its margin, the request, the body, `tokenCache = ...` |
| `HeadersArrive`, `BodyRead`, `CallFails`, `TimesOut` | `callLogtoManagementApi` under `withTimeout` (`services/timeouts.js`): the timer covers the request up to its headers, and loses or wins the race with the abort it causes |
| `RefusedAtOnce`, `Verifies`, `Forbidden`, `RequireOwner` | `requireAuth`, `requireOrganizationAccess` (`middleware/auth.js`), `requireOwner` (`index.js`) |
| `Me`, `EvaluateCapabilityRule` | `buildMeResponse`, and `authz/rbacMatrix.ts` over it |
| `Routes`, `KeyOf` | every `secureRoute` of `index.js` with its policy, guard, number of Management API calls and whether it awaits Redis or PostgreSQL (`WithBackend`); `createIdentityKey` |
| `Send` (`ParseFails`, `Passes`) | body parser, limiter, the guard's checks before its first await, for a handler without guard the handler |
| `Verified`, `VerifyFails`, `VerifyTimesOut` | `verifyJwt` settles |
| `CallMoves`, `Returns`, `Complete` | the handler's calls, one after the other, and what it does then: the answer, or the await of Redis and PostgreSQL |
| `BackendReturns` | that await settles: 200, or 500 (503 for `/health`); it need not |
| `Wants` | `Dashboard.tsx`: after `/me`, the organizations, if the rule allows |

## 3. Runs

| Run | Instance | Shows |
|---|---|---|
| `pipeline_routed` | two requests from two bodies (one with a key, one whose definition derives a key from its input), one queue, one slot, two attempts, one stall, one crash, one failing or unanswered statement, one reconciler; all but one of the finished jobs are evicted; 92 s | `TypeOK`, `CompletedIsBacked`, `RecordIsEarned`, `RepeatsArePaidFor`, `ReopenedOnlyByApi`, and that the pipeline implements `IdempotentActions` (`KeepsThePromise`) |
| `pipeline_default` | two requests that leave the queue to the default, among them a keyed action of the other queue, a rejected input and an unknown action; three slots over two queues; finished jobs are evicted; 140 s | what survives when one operation has jobs in two queues: `SlotsHoldDistinctJobs`, `RejectedLeavesNoTrace`, and how often a key is executed then (`RunsWithinSlots`) |
| `pipeline_live` | one request, of an action that succeeds, one that keeps failing, a rejected input or an unknown action; both queues, two crashes, one stall, one failing statement, two attempts; 132 s | `QueuedHasJob`, `EveryOperationIsTaken`, `EveryOperationSettles` |
| `engine_concurrent` | four calls, three of one key, two in flight, every outcome; 6 020 states | `EngineTypeOK`, `RunsWithinConcurrency`, `OperationsAccountedFor`, `AnswersAreSuccesses` |
| `engine_repeat` | the same, no call fails | `OneOperationPerKey`, the sentence of `docs/foundation/phase-0.md:55`, is **violated** (section 6) |
| `resolution` | two calls create the account of one email and want a phone and a username that another account has or gets; a third finds that account and changes it; a fourth has a malformed email and phone; suffixes up to 2; one failure; 31 765 states | `ResolutionTypeOK`, `ResolvedByEmail`, `OnlyOwnAccountTouched`, `ThrowsOnlyForNames`, and that calls implement `UserDirectory` (`ImplementsDirectory`) |
| `provisioning` | two provisionings that share a contact who is new to Logto (one of them with a second contact who exists), a third whose role the template lacks; one failure; 5 517 states | `FinishedIsComplete`, `OnlyContactsAdmitted`, `AbandonedIsPrefix`, `EveryProvisioningEnds`, `ProvisioningTypeOK` |
| `owner_form` | two countries with a region each, three emails of which two are one, phones typed or emptied, templates with and without the roles wanted; five edits, two loads, one POST; 1.75 million states | `FormTypeOK`, `PlaceIsConsistent`, `PhonesFollowTheCountry`, `PostedContactsAreDistinct`, `RefusalsAreKnown` |
| `operational_console` | a page that visits two organizations, two slots that may have the one operation (of a company or a verification) in hand, during the first visit both at once, polls that fail; 128 722 states | `ConsoleTypeOK`, `OverviewAgrees`, `ShownIsOfThisVisit`, `EndIsNoticed` |
| `worker_heartbeat` | ticks of 10 s: expiry 6, interval 3, stale after 12, writes of up to 2 ticks; 1 950 states | `HeartbeatIsTrue` |
| `polling_page` | as `operational_console` | `KeepsPolling`, the sentence of the page's contract test, is **violated** (section 6) |
| `api_server` | two dashboards (an owner's, and that of a user with an owner's scope and not the role) and a request for the worker's queues (a call of Logto, then Redis and PostgreSQL), from one address; two per window; 112 744 states | `LimitHolds`, `VerifiedIsNotUnauthorized`, `OfferedIsAllowed`, `RequestsEnd` |

Bounds, and why they are enough.  Two requests are what a key needs: every
hazard of a key is between two calls, or between a call and a redelivery of its
own job.  One crash and one failing statement together reach every pair of
"effect done" and "effect not recorded"; they stay below the attempts and stalls
of a job in `pipeline_routed`, so redelivery happens, and in `pipeline_live` two
crashes go beyond the one stall, so a job is also lost (that rejected statements
use up the attempts of a job nobody has taken is not in the run).
`KeepTerminal` is one in both runs with two requests: as soon as both have a
finished job one is evicted, while its row may still be marked queued.  No run
has two overlapping passes of the reconciler; the theorems about the pipeline
hold for any number of them. Deadlock is not checked: all these systems stop
when there is nothing left to do.  Symmetry permutes requests (all start from
the same set of bodies) and calls of one key; the liveness run uses none.  The
theorems of section 5 remove the bounds for every safety property of the
pipeline and of the engine.  For user resolution two calls of one email and one
of another are every way two calls can disturb each other; the accounts there
are bring the names into play, and `MaxSuffix` of 2 makes the loop try, fail and
run out.  The malformed phone of the fourth call, and a phone whose owner has
changed it meanwhile, reach the `TypeError` of `RefindPhone`.  One failure per
behaviour is enough because a failure ends its call or its provisioning.

`owner_form`: three edits (add a contact, remove the first, add another) make
two contacts share an id, and two more give them emails or change the country
under them; `MaxLoads` of 2 lets a reload answer in the middle of that.

`operational_console`: one operation is
enough because the page's hazards are between a visit, a poll and an answer;
rows of several operations only meet in `OperationalContract`, and
`OverviewsAgree` (section 5) has no bound on them. Two slots are what it takes
for a step of one to come between two statements of the other, and two visits
what a late answer needs; the instance has the two together only once, since rows
and page meet in answers only (`MaxContended` is 1: slots contend for a row during
the first visit, and a row they have contended for has no second visit).  The
theorems hold for every value of it.  `worker_heartbeat` has the code's numbers in ticks of
10 s: 60 s, 30 s and 120 s.

`api_server`: the window, the limit and the timers are small enough that a
window ends, a limit is reached, a token is fetched, used and fetched again, and
a timer fires; `Margin` is `Timeout + MaxBody`, the least for which the theorem
holds (the code's 5 minutes are far above its timeout). Of the handlers the run
has each kind once (no call; one call; a call and an await of Redis and
PostgreSQL); routes with two calls (`template`) are covered by the theorems
only. None of the three is checked for deadlock: a page nobody visits again and
a server nobody asks rest.

Fairness of `provisioning`: weak fairness of each provisioning's and each
call's steps.  A handler waits for one request at a time.  `withTimeout`
(`services/timeouts.js`) bounds the wait for a request's headers; a body that has
begun is outside its timer and is assumed to end, which is undici's own business
(its body timer).  A process that dies with its handlers is not part of this
module.

Fairness of `operational_console`: weak fairness of "a request ends, its end
reaches the page, or the poll's timer fires".  The route awaits Logto, Redis and
PostgreSQL.  Logto's headers have a timer of the program's; Redis has none
(`maxRetriesPerRequest: null`, `lib/redis.js`), so that the assumption is that an
outage is finite or that the browser gives the request up.  Whether requests
succeed, whether the worker ever comes back and whether rows move is left open.

Fairness of `api_server`: weak fairness of "the clock moves, or a timer or the
process's own step that is due is taken", and that the body of a token ends
within `MaxBody`.  Logto may never answer anything, and neither may Redis nor
PostgreSQL: `RequestsEnd` says that a request is answered nevertheless, unless it
waits for a body whose headers Logto has sent, or its route is one of those that
await Redis or PostgreSQL (`operational-state`, `worker-queues`, `registry`,
`operations`, `health`) and it has come to that await.

Fairness of `pipeline_live`: weak fairness of "some slot moves", "Redis
promotes a delayed job or finds a stalled one", "a reconciler pass moves".  That
is what the code keeps going: the worker's event loops, restarted by the
container platform, BullMQ's timers, `setInterval` of the reconciler.  No slot,
job or row is promised a turn of its own, and API calls promise nothing: a
client may never send the request and the process may die in it.

## 4. What the properties say

The comment before each property names the code it is about.  Two conditions
recur.  `ConsistentRouting`: whoever enqueues a keyed operation uses one queue.
The defaults break it: `createOperation` falls back to `priority_commands`
whatever the action's definition says, and the reconciler uses the definition's
queue.  `OneSlotPerQueue`: `WORKER_CONCURRENCY` is 1 and there is one worker
process.  Without them a key's action may run twice at the same time (the lookup
and the stored result are many awaits apart and nothing reserves the key):
`RunsWithinSlots` says how often, once per slot that may be given a job of the
key and once more per crash and failing statement, and that is all a key
promises under the defaults.  `SlotsHoldDistinctJobs`, `CompletedIsBacked`,
`RecordIsEarned`, `RejectedLeavesNoTrace` and `RunsWithinSlots` hold without the
two conditions; `RepeatsArePaidFor`, `ReopenedOnlyByApi` and `KeepsThePromise`
need them.

`EveryOperationIsTaken` is about operations of a known action whose input is
accepted (`RejectedLeavesNoTrace` is about the others), and has two exceptions.
`LostToFailures`: the job died before anybody took it, since its slots were
killed more often than BullMQ redelivers (`MaxStalls`) or as many statements
failed as it has attempts; the dead job is retained and the reconciler passes it
over. `RowsFitABatch`: with more rows than a batch of the reconciler (50) the
select, which has no order, may leave a row out for ever.
`EveryOperationSettles` has the second condition only; among the shapes of rest
are the dead ones, such as `retry_scheduled` after the last attempt.

`HeartbeatIsTrue` says what a key with an expiry can tell: a worker called alive
was up less than `TTL + MaxDelay` ago, and a steady one is not called offline if
the key outlives an interval and a write and the read succeeds.  (A failed GET
is taken for a missing key, so the API's error paths may call a live worker
offline.)  `OverviewAgrees` says when a row to be retried is in the overview:
through its failed step, until a new attempt finds its key stored and inserts
`idempotency.hit`, or, if two slots have had the row at once, until the other
inserts a step of its own.  `ShownIsOfThisVisit` holds because of the cancelled
flag alone: state shown and error survive a change of the URL. `LimitHolds` is
the most a fixed window can promise; that it is not `max` in any interval is the
nature of the window and is stated, not complained of.
`VerifiedIsNotUnauthorized` is about two tokens at once: the handler passes on
the status Logto gave to the *server's* token.

## 5. Proofs

All theorems are of the form "for every value of the constants that satisfies
the module's assumption".  `ConstantsAssumption` says what the constants are
(keys and ids are different things, inputs are bodies, queues are queues,
attempts are positive) and nothing about sizes: any number of requests, queues,
slots, passes, crashes and faults.

The pipeline's proof goes up in layers.

1. `Typed`: `TypeOK`, strengthened by: a working slot holds an *active* job of
   its queue, alone; a job that is not finished has an attempt left; calls and
   passes that use an operation name one.  Without "alone" the release of a
   job by one slot could take it from another; without the attempt left `Nack`
   would count past the type.  Gives `TypeCorrect` (`TypeOK`) and
   `DistinctJobs` (`SlotsHoldDistinctJobs`).
2. `Backed`: what a slot's position tells about steps, records and runs
   (`Evidence`), with `CompletedIsBacked` and `RecordIsEarned`.  Tables and
   history only grow, so only the slot that moves is looked at.  Gives
   `CompletedBacked` and `RecordEarned`, for any routing.
3. `Placed` says for any routing in which queues the jobs of an operation can
   be (`QueuesOf`).  `Fresh` and `Paid`, under `ConsistentRouting` and
   `OneSlotPerQueue`: there is one such queue, hence
   (`OneSlotPerKey`) two busy slots with one key are one slot; hence from the
   missed lookup to the stored result the key has no record (`Fresh`), and every
   run beyond the first was lost to a crash or a fault (`Paid`).  Gives
   `RepeatsPaid`, `PromiseKept` (the refinement of
   `IdempotentActions`) and, with `RowFacts` (whatever is named has been
   inserted), `OnlyApiReopens`.
4. `GivenUp` gives `RejectedUntouched`; `Enqueued`, under "finished jobs are
   retained" (`Retained`), gives `QueuedBacked`.
5. `Accounted` needs neither of the two conditions.  Until a key has a record
   every run of it is carried by a slot that has yet to store its result
   (`Carriers`) or was lost to a crash or a fault; afterwards only the slots
   already past the lookup (`Runners`) can add a run, one each.  Gives
   `RunsBoundedBySlots` (`RunsWithinSlots`): at most one run per slot of the
   queues that may hold the key's jobs, and one more per crash or fault.  That is what the default
   routing is worth, where API and reconciler choose different queues.
6. `JobsAdvance`, `AttemptsAdvance` and `RestStays`: see "Variants" below.

For the engine: `EngineTypeCorrect`; `AnswersCorrect` (a record names a
successful operation of its key); `RunsBounded` and `OperationsBounded`, which
count calls in flight: once a key has a record nobody new gets past the lookup,
so those who succeed afterwards were in flight then.  Of callers that await each
call (`Concurrency = 1`) more is true: `AwaitedCallsKeepPromise` is the
refinement of `IdempotentActions`, whatever fails, and `AwaitedCallsCreateOnce`,
if nothing fails either, is the sentence of `docs/foundation/phase-0.md:55`
that `engine_repeat` refutes in general: a call that failed is one way to break
it, an overlap the other.

For user resolution: `ResolutionTypeCorrect`, and `ResolvedCorrectly`
(`ResolvedByEmail`).  The latter is not inductive: the account returned was
found some requests earlier, and a POST names its account before it exists.
`IInv` adds that the account of a call about to update has the call's email
(`FoundFacts`), that an account made by a call has that call's email
(`CreatedFacts`), and that only calls with a username reach the suffixes
(`NameFacts`).  All writes keep emails (`StoreEffect`, `WriteStep`), so an
account once right stays right.  A step of a call reads (accounts stay as they
are) or writes (it passes Logto's validation and the call ends): `StepKinds`,
the split the others rest on.  A writing call touches the account of its email
or makes a new one (`WritingMoves`), hence `OwnAccountsOnly`.  `DirectoryInv`
adds that an email has one account, which Logto's refusals keep, and that a call
without an answer has none; a write is then a step of `UserDirectory` and a read
a stutter or an answer (`DirectoryImplemented`).  `ThrowsForNamesOnly` is about
what a call remembers: `CalmInv` says that as long as nobody else writes, no
account has its email after a lookup that missed, nobody else has its phone
unless it is omitted, and every suffix tried so far is taken (`LookupFacts`,
`UsernameFacts`).  What Logto then refuses, it refuses for the username alone
(`RefusedForItsName`, `UpdateRefused`, `CreateRefused`).  It assumes of Logto's
own accounts that they passed its validation.

For provisioning: `ProvisioningInv` takes `IInv` of user resolution over, says
that a call which no provisioning has started has written nothing
(`Unresolved`), and of each provisioning what its position tells
(`ContactFacts`, `StageFacts`, `MemberFacts`, `ListedFacts`).  Steps of other
provisionings and of calls frame it (`FrameKeeps`): an account once resolved
keeps its email, which is what `ResolvedCorrectly` is for.  Gives
`ProvisioningTypeCorrect`, `FinishedCompletely`, `ContactsOnly` and
`AbandonedInOrder`.  The composition takes over what its calls do alone: a step
of it is a step of user resolution or leaves the accounts alone
(`StepsOfComposition`), whence `ProvisioningOwnAccounts`,
`ProvisioningThrowsForNames`, `ProvisioningDirectory` and, by the refinement
`CompositionImplementsResolution`, everything else that is true of calls.  In
that refinement `faults` stands for the number of calls that failed, since the
composition also counts failed requests of the sequence; `FaultyCalls` relates
the two.

For the form: two contacts may share an id, and then every edit of one is an
edit of the other; `SharedIds` says that they therefore agree on their email
unless one has none, which keeps such a pair out of a payload
(`PostedDistinct`).  `FormRoles` and `ContactRoles` say where a role can come
from, for `RefusalsKnown`. `PlaceConsistent` and `PhonesFollow` are inductive
with the types. `ProvisioningInputs` joins the form to the sequence:
`ProvisioningAssumption` and `FinishedCompletely` say of a payload that its
contacts are there, differ and have their roles, and the payloads the API takes
up are such, because of `PostedDistinct` and of what `Handle` refuses.
`CreatedShown` (the page's "created" is about the POST it answers) and the
action property `EntriesKept` (answers change nothing the owner entered) are
about late and lost answers; `AnswersInv` keeps, for each POST, what the API has
judged of it.

For the heartbeat: `HeartbeatInv` (`Young`, `Kept`) relates `down`, the ages of
the writes under way and the key's time to live, from which both halves of
`HeartbeatIsTrue` follow for every expiry, interval and delay. `ConsoleInv` says
of the console what a slot's position tells about its row (`SlotFacts`: between
the failed step and the status of a failure the latest step is `failed`, unless
two slots have had the row), that an answer is of the organization its visit
asked for (`CallsAreTrue`), and that a row to be retried has a failed step or is
one of the two exceptions of `OverviewAgrees` (`RetryFacts`); it gives
`ConsoleTypeCorrect`, `ShownOfThisVisit` and, for any set of rows,
`OverviewsAgree`.  `polling_page` shows that the page does not keep polling
whenever the contract asks for it; `PageWatchesWhatItShows` shows that a failed
poll is the only reason: what is shown as under way has a timer, a request of
this visit, or an error on the page (`WatchInv`, which needs that responses with
active operations ask for polling).

For the API: `LimiterInvariant` (admissions of a window are the last ones of the
log, windows do not overlap) and `TokensAreLive` (a token in the cache is
believed to expire at most `MaxBody` after it does, and what is left of a
token's life on a hit is more than the timer allows) are proved of the limiter
and of the client alone (`LimiterInv`, `ClientInv`); `Spec => LimiterSpec` and
`Spec => ClientSpec` (`ApiImplementsLimiter`, `ApiImplementsClient`) carry them
over to `ApiLimits` and `ApiAuthorizesTheVerified`.  `DashboardIsNeverForbidden`
needs that the two rules about an owner agree.  The rest is about the requests
themselves: `RequestMoves` sorts the steps of a request by what they do to it
(answered, verified, a call begun, a call that goes on), and `Fits` says what is
true of a request and its call at each stage.  Together they give
`ApiAuthorizes` (work is done and answers are given on a guarded route only for
tokens the route's own rule accepts) and `RequestsAdvance`.  `ApiLogsWhatPasses`
counts: the limiter's history is a history of requests, one entry for each that
came past it, so that `ApiLimits` bounds requests and not only entries.

Variants.  Liveness under fairness is out of the prover's reach, but not the
part of it that says nothing goes round for ever.  Six action properties state
it with a number that every step of an actor moves in one direction and that is
bounded: a call of the engine makes at most 10 steps (`EngineAdvances`), one of
user resolution at most `MaxSuffix + 6` (`ResolutionAdvances`), a provisioning
of n contacts `5 n + 5` of its own (`ProvisioningAdvances`), a request of the
API 14 with all its calls and its await of Redis and PostgreSQL
(`RequestsAdvance`), an attempt of a job 10 (`AttemptsAdvance`); a job that is
in its queue has at most `4 * (JobAttempts + MaxStalls) + 2` transitions left
after it was added (`JobsAdvance`).  What has come to rest stays so but for
named causes (`RestStays`), and who waits, waits for something that has begun
(`ProvisioningNeverStuck`).  What fairness adds, that enabled steps are taken at
all, remains with TLC.

Only model-checked: the liveness properties (`EveryOperationIsTaken`,
`EveryOperationSettles`, `EveryProvisioningEnds`, `EndIsNoticed`, `RequestsEnd`:
fairness and ENABLED are out of the prover's reach); every invariant and every
action property of a passing run is a theorem.  Nothing is assumed besides
the modules' named assumptions and, where a theorem says so,
`ConsistentRouting`, `OneSlotPerQueue`, `Retained`, a finite set of slots, or
`Concurrency = 1`.

## 6. What modelling showed

* `engine_repeat`: `executeAction` reserves nothing between lookup and save, so
  two calls in flight with one key create two operations, against
  `docs/foundation/phase-0.md:55`.
* Not contradicted by any document, but visible in the model: under the default
  routing one operation can be executed by two slots at once, and a key once by
  each slot that may be given its jobs; a row whose last
  attempt failed says `retry_scheduled` and its retained, dead job makes the
  reconciler skip it; so does a job that died before it was taken; a row left in `processing` by a lost last update is not
  among the statuses the reconciler selects; a rejected or unknown action stays
  `queued` for ever; an unknown action in a batch ends the reconciler's pass;
  more than fifty rows with dead jobs can starve the rest, since the batch has
  no order; the late `SET status = 'queued'` reopens a completed row.
* A phone that Logto refuses and nobody holds (malformed, or given up meanwhile)
  ends the call with a `TypeError` (`logtoManagement.js:598`), not with the
  retry without the phone that the branch is there for.
* User resolution, likewise visible and contradicted by nothing that is written
  down: an account that was created with a suffixed username is, the next time
  its email is provisioned, PATCHed with the original username, refused, and the
  call throws; a phone refusal has no username fallback behind it; if Logto names
  the username while the phone is at fault too, all twenty suffixes are tried in
  vain, and so they are for a malformed email; a call that is overtaken inside
  the suffix loop throws although the account of its email exists.  That is why
  `ThrowsOnlyForNames` speaks of undisturbed calls.
* `polling_page`: the catch block of the page's `load` asks the `state` its
  closure holds, that of the render in which the effect ran.  A poll that fails
  after the first answer therefore ends the polling, against
  `OwnerOrganizationOperationalPage.contract.test.mjs:12`; leaving and coming
  back, the closure may hold the state of another organization.
* Around the page, contradicted by nothing that is written down: polling stops at
  `pending` and `retry_scheduled`, although the work goes on; a verification
  older than 120 s is polled every 30 s for ever; `retry_scheduled` is in
  neither of the overview's lists of statuses and is seen by its failed step, or,
  once a new attempt has found its key stored or another slot has written a step,
  not at all until its status changes;
  a completed FluentCRM company operation leaves the summary `critical`
  (`operationalStateAssembler.js:119`); the block of contacts has no runtime and
  never dominates; while a failed poll is repeated the former organization may
  be shown without its error; the reads' limits (100, 200) are over all
  organizations and can hide one's active operation; an API that cannot reach
  Redis reports the worker from environment variables, and one whose GET fails
  calls it offline.
* The form: a removed contact's id is given out again, so that two contacts can
  share an id and every edit until their emails are refused as equal; a prefix
  typed by hand that is the country's is rewritten by the next change of country;
  after a lost answer the owner can post again and create a second organization;
  the JIT role a form starts with may be missing from a template the page calls
  ready, which the API refuses.
* The API: `withTimeout` aborts before it rejects, so that a timed-out call may
  be a 500 and not a 504; bodies are read outside the timer, and commands of
  Redis have none, so that five routes may wait through an outage; a failure to fetch
  the verification keys is a 401 to a valid caller; the limiter counts before
  authentication, hence by address only, and after the body parser; buckets are
  never deleted; concurrent calls with an expired token fetch one each, and the answer that
  arrives last stays, which the margin makes harmless.
* Provisioning undoes nothing: a failed one leaves its organization, and a
  repeated POST creates a second one.

## 7. Not modelled, and abstractions

Components left out.  *Database-polling queue* (`operationalOperations.js`
23-61): nothing calls it, and a model would have to invent its caller.  *Role
mapping*: a pure choice by precedence, reached only through one action's input.
*Connector registry and adapters*: tables that are read at start, and mocks or
thin HTTP clients.  *Infrastructure access*: library calls.

Parts left out.  Pipeline: results of actions (two actions that share a key
answer each other), the number of step rows, expiry of idempotency records
(stored and never compared), time (back-off, locks and timers are
"eventually"), reads.  Engine: a store that fails.  Of Logto: searches return
the account that matches, every answer has an id, profiles and custom data, the
removal of prohibited global roles (`logtoManagement.js` 456-522), statuses other
than those the handlers tell apart, refused credentials of the server.
Observability: telemetry of the queues and the blockers made of it, the
timeline, the snapshot cache (each route loads anew), times that the environment
names for the fallback.  Authentication: `rbac/matrix.js`, `requireScope` and
`requireOrganizationRole`, which no route uses; the signature check itself.
Frontend: `OwnerWorkerQueuesPage`, `OwnerOperationalHomePage` (one read each),
`OrganizationPage` (a demo; it has no cancellation, which is listed as a
hazard), navigation tables without a reader, everything that only renders.  A
body's queue is one of `QUEUE_NAMES`.  Wording, logging and metrics everywhere.

## 8. What is left

1. `OperationalConsole` has the worker's statements and lets any slot take any
   row; composing it with `OperationPipeline` itself would let `EndIsNoticed`
   speak of a job's end.
2. The removal of prohibited global roles, as part of the member operations.
3. The queues' telemetry, once the overview decides more by it than a warning.
4. Of the proofs: liveness itself.  The variants of section 5 leave only the
   fairness argument, which TLC makes on the instances.
