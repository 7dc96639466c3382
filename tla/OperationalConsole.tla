------------------------- MODULE OperationalConsole -------------------------
(***************************************************************************)
(* The owner's page of an organization's operational state                 *)
(* (OwnerOrganizationOperationalPage.tsx) and what it polls: GET           *)
(* /owner/organizations/:organizationId/operational-state (index.js        *)
(* 187-207), while the worker changes the rows of the operations.          *)
(*                                                                         *)
(* Of the worker the statements that write steps and statuses are here, in *)
(* the order of executeActionJob and interleaved over its slots.  Which    *)
(* rows have a job, and how often, is OperationPipeline's matter: a free   *)
(* slot may take any row.  When the worker is found alive is               *)
(* WorkerHeartbeat's: a health snapshot may find it in any state.          *)
(*                                                                         *)
(* Of a response the page's behaviour depends on polling and on which      *)
(* operations are under way: the rest is left out of what is shown, and    *)
(* with it the read of the organization, which fails or changes nothing    *)
(* here.                                                                   *)
(*                                                                         *)
(* A visit is a run of the page's effect: it begins when the URL names     *)
(* another organization or the API object is a new one.                    *)
(***************************************************************************)
EXTENDS OperationalContract, Sequences

CONSTANTS
  Organizations,
  Linked,      \* organizations that have a FluentCRM company
  Slots,       \* the worker's concurrent job slots
  KindsUsed,   \* bounds the kinds of operations
  MaxOps,      \* bounds the operations
  MaxVisits,   \* bounds the visits
  MaxContended, \* bounds the visits during which two slots have a row at once
  NoState      \* nothing shown yet

ASSUME ConsoleAssumption ==
  /\ Linked \subseteq Organizations /\ KindsUsed \subseteq Kinds
  /\ MaxOps \in Nat /\ MaxVisits \in Nat \ {0} /\ MaxContended \in Nat
  /\ NoState \notin [org : Organizations, polling : {0, 3, 30}, active : SUBSET (1..MaxOps)]

VARIABLES
  ops,      \* operational_operations, each with the status of its latest step
  slots,    \* per slot: its row and how far executeActionJob has come with it
  shared,   \* history: rows that two slots have had in hand at once
  visit,    \* the number of the present visit
  org,      \* the organization in the URL
  calls,    \* requests: their visit, organization and response, or what becomes of it
  shown,    \* state: the response on the page
  captured, \* the state in this visit's closure asks for polling
  error,    \* the page shows an error
  timer     \* a poll is due (in 3 or 30 s)

pageVars == <<visit, org, shown, captured, error, timer>>
rowVars == <<ops, slots, shared>>
vars == <<rowVars, calls, pageVars>>

Positions == {"hit", "claimed", "running", "returned", "failing"}
Free == [row |-> 0, at |-> "free"]
AllFree == [s \in Slots |-> Free]
Holders(i) == {s \in Slots : slots[s].row = i}

Call(number, o) == [visit |-> number, org |-> o, stage |-> "sent", response |-> NoState]
Asks(state) == state # NoState /\ state.polling # 0

Init ==
  /\ ops = <<>> /\ slots = AllFree /\ shared = {}
  /\ visit = 1 /\ org \in Organizations
  /\ shown = NoState /\ captured = FALSE
  /\ error = FALSE /\ timer = FALSE
  /\ calls = {Call(1, org)}

-----------------------------------------------------------------------------
(* The rows: what the API and the worker do to them.                       *)

Create(o, kind) ==
  /\ Len(ops) < MaxOps
  /\ ops' = Append(ops, [org |-> o, kind |-> kind, status |-> "pending", step |-> "none", old |-> FALSE])
  /\ UNCHANGED <<slots, shared, calls, pageVars>>

(* enqueueOperation marks a row, whatever the worker has made of it.       *)
MarkQueued(i) ==
  /\ ops[i].status # "queued"
  /\ ops' = [ops EXCEPT ![i].status = "queued", ![i].old = FALSE]
  /\ UNCHANGED <<slots, shared, calls, pageVars>>

(* A slot goes on with its row; a free one may take any.                   *)
Advance(s, i, from, to) ==
  /\ from = "free" /\ Holders(i) # {} => visit <= MaxContended
  /\ slots[s] = IF from = "free" THEN Free ELSE [row |-> i, at |-> from]
  /\ slots' = [slots EXCEPT ![s] = IF to = "free" THEN Free ELSE [row |-> i, at |-> to]]
  /\ shared' = IF from = "free" /\ Holders(i) # {} THEN shared \cup {i} ELSE shared
  /\ UNCHANGED <<calls, pageVars>>

InsertStep(s, i, from, step, to) ==
  /\ Advance(s, i, from, to)
  /\ ops' = [ops EXCEPT ![i].step = step]

UpdateStatus(s, i, from, status, to) ==
  /\ Advance(s, i, from, to)
  /\ ops' = [ops EXCEPT ![i].status = status, ![i].old = FALSE]

(* The key has a stored result (line 20).                                  *)
Hit(s, i) ==
  \/ InsertStep(s, i, "free", "idempotency.hit", "hit")
  \/ UpdateStatus(s, i, "hit", "completed", "free")

(* It has none (lines 21-28).                                              *)
Run(s, i) ==
  \/ UpdateStatus(s, i, "free", "processing", "claimed")
  \/ InsertStep(s, i, "claimed", "taken_by_worker", "running")
  \/ InsertStep(s, i, "running", "completed", "returned")
  \/ UpdateStatus(s, i, "returned", "completed", "free")

(* The status of a failure is written before its step.                     *)
FailStatusFirst(s, i) ==
  \/ \E from \in {"running", "returned"}, status \in {"retry_scheduled", "failed"} :
       UpdateStatus(s, i, from, status, "failing")
  \/ InsertStep(s, i, "failing", "failed", "free")

(* The action, its step or the storing of its result fails (lines 29-33).  *)
Fail(s, i) ==
  \/ \E from \in {"running", "returned"} : InsertStep(s, i, from, "failed", "failing")
  \/ \E status \in {"retry_scheduled", "failed"} : UpdateStatus(s, i, "failing", status, "free")

(* Another statement fails and the job's promise is rejected, or the       *)
(* worker dies and every slot loses what it has in hand.                   *)
Abandon(s) ==
  /\ slots[s] # Free
  /\ slots' = [slots EXCEPT ![s] = Free]
  /\ UNCHANGED <<ops, shared, calls, pageVars>>

(* Only of a verification the age is looked at, and only while nothing is   *)
(* under way (buildPollingPolicy); each change stamps updated_at anew.     *)
GrowsOld(i) ==
  /\ ops[i].kind = "verification" /\ ops[i].status \notin ActiveOperationStatuses
  /\ ~ops[i].old
  /\ ops' = [ops EXCEPT ![i].old = TRUE]
  /\ UNCHANGED <<slots, shared, calls, pageVars>>

RowsOf(o) == [i \in {j \in DOMAIN ops : ops[j].org = o} |-> ops[i]]

-----------------------------------------------------------------------------
(* The route.                                                              *)

Proceed(c, stage, response) ==
  /\ calls' = (calls \ {c}) \cup {[c EXCEPT !.stage = stage, !.response = response]}
  /\ UNCHANGED <<rowVars, pageVars>>

Answer(c) ==
  /\ c.stage = "sent"
  /\ \E worker \in WorkerStates :
       Proceed(c, "answered",
               [org |-> c.org, active |-> Active(RowsOf(c.org)),
                polling |-> Polling(RowsOf(c.org), c.org \in Linked, worker)])

(* Logto or the database fails, or the connection: the page sees an error.  *)
CallFails(c) ==
  /\ c.stage # "failed"
  /\ Proceed(c, "failed", NoState)

-----------------------------------------------------------------------------
(* The page.                                                               *)

(* The effect's clean-up leaves the timer.                                 *)
VisitKeepsTimer(o) ==
  /\ visit < MaxVisits /\ (shared = {} \/ visit < MaxContended)
  /\ visit' = visit + 1 /\ org' = o
  /\ captured' = Asks(shown)
  /\ error' = FALSE
  /\ calls' = calls \cup {Call(visit', org')}
  /\ UNCHANGED <<rowVars, shown, timer>>

(* The effect's clean-up cancels the former visit and clears the timer;    *)
(* the state shown stays, and the new closure holds it.                    *)
Visit(o) ==
  /\ visit < MaxVisits /\ (shared = {} \/ visit < MaxContended)
  /\ visit' = visit + 1 /\ org' = o
  /\ captured' = Asks(shown)
  /\ error' = FALSE /\ timer' = FALSE
  /\ calls' = calls \cup {Call(visit', org')}
  /\ UNCHANGED <<rowVars, shown>>

Poll ==
  /\ timer
  /\ timer' = FALSE /\ error' = FALSE
  /\ UNCHANGED <<visit, org, shown, captured>>
  /\ calls' = calls \cup {Call(visit', org')}
  /\ UNCHANGED <<rowVars>>

(* An answer is taken whatever the visit.                                  *)
NeverCancelled(c) == FALSE

Cancelled(c) == c.visit # visit

(* After an answer, too, the state of the closure decides.                 *)
ReceiveByClosure(c) ==
  /\ c.stage = "answered"
  /\ calls' = calls \ {c}
  /\ IF Cancelled(c) THEN UNCHANGED pageVars
     ELSE /\ shown' = c.response
          /\ timer' = captured
          /\ UNCHANGED <<visit, org, captured, error>>
  /\ UNCHANGED <<rowVars>>

Receive(c) ==
  /\ c.stage = "answered"
  /\ calls' = calls \ {c}
  /\ IF Cancelled(c) THEN UNCHANGED pageVars
     ELSE /\ shown' = c.response
          /\ timer' = Asks(c.response)
          /\ UNCHANGED <<visit, org, captured, error>>
  /\ UNCHANGED <<rowVars>>

(* Whether to go on polling is asked of the state the closure holds.        *)
ReceiveFailure(c) ==
  /\ c.stage = "failed"
  /\ calls' = calls \ {c}
  /\ IF Cancelled(c) THEN UNCHANGED pageVars
     ELSE /\ error' = TRUE
          /\ timer' = captured
          /\ UNCHANGED <<visit, org, shown, captured>>
  /\ UNCHANGED <<rowVars>>

-----------------------------------------------------------------------------
Rows ==
  \/ \E o \in Organizations, kind \in KindsUsed : Create(o, kind)
  \/ \E i \in DOMAIN ops :
       \/ GrowsOld(i) \/ MarkQueued(i)
       \/ \E s \in Slots : Hit(s, i) \/ Run(s, i) \/ Fail(s, i)
  \/ \E s \in Slots : Abandon(s)

Receiving(c) == Receive(c) \/ ReceiveFailure(c)

Next ==
  \/ Rows
  \/ \E c \in calls : Answer(c) \/ CallFails(c) \/ Receiving(c)
  \/ \E o \in Organizations : Visit(o)
  \/ Poll

Spec == Init /\ [][Next]_vars

(* While a request or a timer is there, one of them goes on: Logto's        *)
(* timeouts, the driver's and an end to any outage of Redis, for which     *)
(* ioredis waits without one (lib/redis.js:8), or else the browser's limit *)
(* end the request, one way or the other; the end reaches its page and a   *)
(* browser's timer fires.  The worker may stop for ever.                   *)
Progress == Poll \/ \E c \in calls : CallFails(c) \/ Receiving(c) \/ Answer(c)

FairSpec == Spec /\ WF_<<calls, timer>>(Progress)

-----------------------------------------------------------------------------
(* Properties.                                                             *)

Row == [org : Organizations, kind : Kinds, status : Statuses, step : StepStatuses, old : BOOLEAN]
States == [org : Organizations, polling : {0, 3, 30}, active : SUBSET (1..MaxOps)]
Calls == [visit : 1..MaxVisits, org : Organizations,
          stage : {"sent", "answered", "failed"}, response : States \cup {NoState}]

(* The variables keep their types; a visit has one call or one timer at a   *)
(* time.                                                                   *)
ConsoleTypeOK ==
  /\ ops \in Seq(Row) /\ Len(ops) <= MaxOps
  /\ slots \in [Slots -> {Free} \cup [row : 1..MaxOps, at : Positions]]
  /\ \A s \in Slots : slots[s] # Free => slots[s].row \in DOMAIN ops
  /\ shared \subseteq DOMAIN ops
  /\ visit \in 1..MaxVisits /\ org \in Organizations
  /\ \A c \in calls : c \in Calls
  /\ shown \in States \cup {NoState}
  /\ {captured, timer} \subseteq BOOLEAN
  /\ error \in BOOLEAN
  /\ \A c, d \in calls : c.visit = d.visit => c = d
  /\ timer => \A c \in calls : c.visit # visit

(* The three answers to one question agree, although each has its own list *)
(* of statuses and asks for the worker itself: while an operation is   *)
(* under way, the page polls quickly, worker_runtime dominates and a live  *)
(* check otherwise (the rules of docs/architecture/                        *)
(* operational-contract-phase-1.md:27), the overview lists it, and its     *)
(* organization is blocked if the overview does not find the worker alive. *)
(* An operation to be retried is in neither list of statuses: its failed   *)
(* step, which is written before, keeps it in the overview until its key   *)
(* is found to have a stored result or, if two slots have had it in hand   *)
(* at once, until the other one writes a step.                             *)
OverviewAgrees ==
  /\ \A o \in Organizations, worker \in WorkerStates :
       LET active == Active(RowsOf(o))
           polling == Polling(RowsOf(o), o \in Linked, worker)
           dominant == Summary(Blocks(RowsOf(o), o \in Linked, worker)).dominant
       IN IF active # {}
          THEN /\ polling = 3 /\ dominant = "worker_runtime"
               /\ active \subseteq Listed(ops)
               /\ worker # "alive" => Blocker(ops, o, o \in Linked, worker) = worker
          ELSE polling # 3 /\ dominant = "live_provider_check"
  /\ \A i \in DOMAIN ops \ Listed(ops) : ops[i].status = "retry_scheduled" =>
       /\ ops[i].step # "none"
       /\ i \notin shared => ops[i].step = "idempotency.hit"

(* Once it has an answer the page shows the organization in the URL or an   *)
(* error, whichever answers of former visits arrive in between; only while *)
(* it repeats a poll that failed is the error gone, and a former           *)
(* organization may be shown without it (line 50).                         *)
ShownIsOfThisVisit ==
  (\A c \in calls : c.visit # visit) =>
    error \/ (shown # NoState /\ shown.org = org)

(* An operation shown as under way that no longer is will not be shown so   *)
(* for ever, unless the page shows an error.                               *)
UnderWay(i) == i \in DOMAIN ops /\ ops[i].status \in ActiveOperationStatuses
ShownUnderWay(i) == shown # NoState /\ shown.org = org /\ i \in shown.active
EndIsNoticed ==
  \A i \in 1..MaxOps :
    (ShownUnderWay(i) /\ ~UnderWay(i)) ~> (~ShownUnderWay(i) \/ error \/ UnderWay(i))

(* OwnerOrganizationOperationalPage.contract.test.mjs:12: the page "keeps   *)
(* polling when the contract asks for it".                                 *)
KeepsPolling ==
  (\A c \in calls : c.visit # visit) /\ Asks(shown) => timer
=============================================================================
