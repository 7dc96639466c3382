------------------------- MODULE OperationalContract -------------------------
(***************************************************************************)
(* What the API makes of rows, organization and worker: the consolidated   *)
(* state of an organization (services/operational/contract.js,             *)
(* services/operationalStateAssembler.js) and the overview of worker and   *)
(* queues (services/operationalObservability.js).                          *)
(*                                                                         *)
(* A row of operational_operations is [org, kind, status, step, old]: kind  *)
(* is what its entityType and operationType match, step the status of the  *)
(* latest of its steps, old whether it was updated over 120 s ago.         *)
(* The rows a route reads are a function from their numbers, the newest    *)
(* with the greatest; there are fewer than the routes' limits (100, 200).  *)
(*                                                                         *)
(* Raw rows have no retryState, stepName or providerStatus, and raw audit  *)
(* rows no operationType, so the branches that read them are not taken.    *)
(***************************************************************************)
EXTENDS Integers, FiniteSets

Statuses == {"pending", "queued", "processing", "completed", "failed", "retry_scheduled"}
StepStatuses == {"none", "idempotency.hit", "taken_by_worker", "completed", "failed"}
Kinds == {"company", "contact", "verification", "plain"}
WorkerStates == {"alive", "worker_offline", "worker_heartbeat_stale"}

Newest(S) == CHOOSE i \in S : \A j \in S : j <= i
OfKind(rows, kind) == {i \in DOMAIN rows : rows[i].kind = kind}

-----------------------------------------------------------------------------
(* The consolidated state of an organization.                              *)

ActiveOperationStatuses == {"queued", "processing"}
Active(rows) == {i \in DOMAIN rows : rows[i].status \in ActiveOperationStatuses}

(* A block: only live checks and worker blocks refresh themselves when they *)
(* are stale, and a worker block stands for an operation under way.        *)
Block(status, severity, source, stale, running) ==
  [status |-> status, severity |-> severity, source |-> source, stale |-> stale, running |-> running]

(* getLogtoOrganizationById throws when it cannot confirm the organization. *)
Canonical == Block("ok", "success", "live_provider_check", FALSE, FALSE)

FluentCrm(rows, linked) ==
  LET companies == OfKind(rows, "company")
      company == Newest(companies)
      active == companies # {} /\ company \in Active(rows)
      source == IF active THEN "worker_runtime"
                ELSE IF linked THEN "local_reconciled" ELSE "persisted_snapshot"
  IN IF companies # {}
     THEN Block(rows[company].status, "critical", source, FALSE, active)
     ELSE IF linked THEN Block("linked", "success", source, FALSE, FALSE)
     ELSE Block("missing_company", "warning", source, FALSE, FALSE)

Provider(rows) == OfKind(rows, "verification")

Wordpress(rows) ==
  IF Provider(rows) # {}
  THEN Block("verification_observed", "warning", "live_provider_check",
             rows[Newest(Provider(rows))].old, FALSE)
  ELSE Block("not_live_verified", "info", "persisted_snapshot", FALSE, FALSE)

(* readiness is degraded unless the worker is alive.                       *)
Worker(rows, workerState) ==
  Block(IF workerState = "alive" THEN "ready" ELSE "degraded",
        IF workerState = "alive" THEN "success" ELSE "warning",
        IF Active(rows) # {} THEN "worker_runtime" ELSE "local_reconciled",
        FALSE, Active(rows) # {})

LiveVerification(rows) ==
  IF Provider(rows) # {}
  THEN LET provider == rows[Newest(Provider(rows))]
       IN Block(provider.status, "warning", "live_provider_check", provider.old, FALSE)
  ELSE Block("not_checked", "info", "persisted_snapshot", FALSE, FALSE)

(* The block has no runtime: it never counts as running.                   *)
ContactProgress(rows) ==
  LET contacts == OfKind(rows, "contact")
      contact == Newest(contacts)
  IN IF contacts = {} THEN Block("not_started", "info", "local_reconciled", FALSE, FALSE)
     ELSE Block(rows[contact].status,
                IF rows[contact].status = "failed" THEN "warning" ELSE "info",
                IF contact \in Active(rows) THEN "worker_runtime" ELSE "local_reconciled",
                FALSE, FALSE)

(* In the order of Object.values, which decides between equals.            *)
Blocks(rows, linked, workerState) ==
  <<Canonical, FluentCrm(rows, linked), Wordpress(rows), Worker(rows, workerState),
    LiveVerification(rows), ContactProgress(rows)>>

DominanceRank(b) ==
  CASE b.source = "worker_runtime" /\ b.running -> 400
    [] b.source = "live_provider_check"         -> 300
    [] b.source = "local_reconciled"            -> 200
    [] b.source = "persisted_snapshot"          -> 100
    [] OTHER                                    -> 0

SeverityRank(b) ==
  CASE b.severity = "critical" -> 4 [] b.severity = "warning" -> 3
    [] b.severity = "info" -> 2     [] b.severity = "success" -> 1

Best(blocks, Rank(_)) ==
  blocks[CHOOSE i \in DOMAIN blocks :
           \A j \in DOMAIN blocks : /\ Rank(blocks[j]) <= Rank(blocks[i])
                                    /\ Rank(blocks[j]) = Rank(blocks[i]) => i <= j]

Summary(blocks) ==
  LET worst == Best(blocks, SeverityRank)
      active == \E i \in DOMAIN blocks :
                  /\ blocks[i].source = "worker_runtime"
                  /\ blocks[i].running \/ blocks[i].status \in {"queued", "degraded"}
  IN [status   |-> IF worst.severity = "critical" THEN "requires_action"
                   ELSE IF active THEN "in_progress" ELSE worst.status,
      severity |-> worst.severity,
      dominant |-> Best(blocks, DominanceRank).source]

(* buildPollingPolicy over buildPolling: the seconds to the next poll, or 0. *)
Polling(rows, linked, workerState) ==
  LET blocks == Blocks(rows, linked, workerState)
  IN IF Active(rows) # {} THEN 3
     ELSE IF \E i \in DOMAIN blocks :
               blocks[i].source \in {"live_provider_check", "worker_runtime"} /\ blocks[i].stale
          THEN 30 ELSE 0

-----------------------------------------------------------------------------
(* The overview.                                                           *)

Problem(status) == status = "failed"

Listed(rows) ==
  {i \in DOMAIN rows :
     \/ rows[i].status \in ActiveOperationStatuses
     \/ Problem(rows[i].status) \/ Problem(rows[i].step)}

(* What blocks an organization, or "none".  The queues' own blockers (their *)
(* backlog and failed jobs) are left out.                                  *)
Blocker(rows, org, linked, workerState) ==
  IF workerState # "alive" /\ \E i \in Listed(rows) : rows[i].org = org THEN workerState
  ELSE IF ~linked THEN "missing_company" ELSE "none"
=============================================================================
