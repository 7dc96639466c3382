\* Requests use the default queue: duplicate jobs, rejected and unknown actions, eviction.
SPECIFICATION Spec
CONSTANTS
  Requests = {r1, r2}
  NoOp = NoOp
  NoKey = NoKey
  Queues <- MCQueues
  Actions <- MCActions
  Keys <- MCKeys
  Inputs <- DefaultInputs
  HomeQueue <- MCHomeQueue
  DerivedKey <- MCDerivedKey
  Catalog <- MCCatalog
  Accepted <- MCAccepted
  Outcomes <- MCOutcomes
  Workers <- ThreeSlots
  WorkerQueue <- ThreeSlotsQueue
  Reconcilers = {c1}
  JobAttempts = 1
  MaxStalls = 1
  KeepTerminal = 1
  BatchLimit = 1
  MaxCrashes = 0
  MaxDbFaults = 0
SYMMETRY Symmetry
INVARIANTS
  SlotsHoldDistinctJobs
  RejectedLeavesNoTrace
  RunsWithinSlots
CHECK_DEADLOCK FALSE
