------------------------ MODULE MCOperationPipeline ------------------------
(***************************************************************************)
(* Small instances of OperationPipeline.  The catalog entries are those of *)
(* worker/actionDefinitions: echo and health stand for system.echo         *)
(* (priority_commands, keyed by the body) and connector.healthcheck        *)
(* (background_events, keyed by its input); bad is an action whose input   *)
(* is rejected, unknown one the catalog does not define.                   *)
(***************************************************************************)
EXTENDS OperationPipeline, TLC

Body(a, k, q) == [action |-> a, key |-> k, queue |-> q]

MCQueues == {"priority_commands", "background_events"}
MCActions == {"echo", "resolve", "health", "down", "bad", "unknown"}
MCKeys == {"k1", "k2"}

MCHomeQueue ==
  [a \in MCActions |-> IF a \in {"health", "down"} THEN "background_events" ELSE "priority_commands"]
MCDerivedKey ==
  [a \in MCActions |-> IF a \in {"health", "down", "resolve"} THEN "k2" ELSE NoKey]
MCCatalog == MCActions \ {"unknown"}
MCAccepted == MCCatalog \ {"bad"}
MCOutcomes ==
  [a \in MCActions |-> CASE a = "resolve" -> {"ok", "fatal"}
                         [] a = "health" -> {"ok", "retryable"}
                         [] OTHER -> {"ok"}]

\* A health check always answers or always fails: one choice less per attempt.
LiveOutcomes == [a \in MCActions |-> IF a = "down" THEN {"retryable"} ELSE {"ok"}]

\* One slot per queue: WORKER_CONCURRENCY defaults to 1.
MCWorkers == {"wp", "wb"}
MCWorkerQueue ==
  [w \in MCWorkers |-> IF w = "wp" THEN "priority_commands" ELSE "background_events"]

\* WORKER_CONCURRENCY = 2 on the priority queue.
ThreeSlots == {"wp", "wq", "wb"}
ThreeSlotsQueue ==
  [w \in ThreeSlots |-> IF w = "wb" THEN "background_events" ELSE "priority_commands"]

\* One queue and its slot, shared by every request.
PriorityOnly == {"priority_commands"}
PrioritySlot == {"wp"}
PrioritySlotQueue == [w \in PrioritySlot |-> "priority_commands"]
PriorityHome == [a \in MCActions |-> "priority_commands"]

\* Requests of actions whose queue is the default one: duplicates of a body
\* with a key, and keyless rows whose definitions derive one key.
RoutedInputs ==
  {Body("echo", "k1", "priority_commands"),
   Body("resolve", NoKey, "priority_commands")}

\* Requests that leave the queue to the default, among them an action of the
\* other queue, a rejected input and an unknown action.
DefaultInputs ==
  {Body("health", NoKey, "priority_commands"),
   Body("bad", NoKey, "priority_commands"),
   Body("unknown", NoKey, "priority_commands")}

\* The liveness instance: one operation with jobs in the default queue and,
\* through the reconciler, in the definition's; or of a rejected or an unknown
\* action.
LiveInputs ==
  {Body("health", "k1", "priority_commands"),
   Body("down", "k1", "priority_commands"),
   Body("bad", "k1", "priority_commands"),
   Body("unknown", "k1", "priority_commands")}

Symmetry == Permutations(Requests)
=============================================================================
