\* Every keyed operation has one queue; crashes, faults, duplicates.
SPECIFICATION Spec
CONSTANTS
  Requests = {r1, r2}
  NoOp = NoOp
  NoKey = NoKey
  Queues <- PriorityOnly
  Actions <- MCActions
  Keys <- MCKeys
  Inputs <- RoutedInputs
  HomeQueue <- PriorityHome
  DerivedKey <- MCDerivedKey
  Catalog <- MCCatalog
  Accepted <- MCAccepted
  Outcomes <- MCOutcomes
  Workers <- PrioritySlot
  WorkerQueue <- PrioritySlotQueue
  Reconcilers = {c1}
  JobAttempts = 2
  MaxStalls = 1
  KeepTerminal = 1
  BatchLimit = 1
  MaxCrashes = 1
  MaxDbFaults = 1
SYMMETRY Symmetry
INVARIANTS
  TypeOK
  CompletedIsBacked
  RecordIsEarned
  RepeatsArePaidFor
PROPERTIES
  ReopenedOnlyByApi
  KeepsThePromise
CHECK_DEADLOCK FALSE
