\* Liveness: failures within the limits of attempts and stalls; no eviction.
SPECIFICATION FairSpec
CONSTANTS
  Requests = {r1}
  NoOp = NoOp
  NoKey = NoKey
  Queues <- MCQueues
  Actions <- MCActions
  Keys <- MCKeys
  Inputs <- LiveInputs
  HomeQueue <- MCHomeQueue
  DerivedKey <- MCDerivedKey
  Catalog <- MCCatalog
  Accepted <- MCAccepted
  Outcomes <- LiveOutcomes
  Workers <- MCWorkers
  WorkerQueue <- MCWorkerQueue
  Reconcilers = {c1}
  JobAttempts = 2
  MaxStalls = 1
  KeepTerminal = 1
  BatchLimit = 1
  MaxCrashes = 2
  MaxDbFaults = 1
INVARIANTS
  QueuedHasJob
PROPERTIES
  EveryOperationIsTaken
  EveryOperationSettles
CHECK_DEADLOCK FALSE
