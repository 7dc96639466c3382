\* Two calls in flight, every way a call may end.
SPECIFICATION Spec
CONSTANTS
  c1 = c1
  c2 = c2
  c3 = c3
  c4 = c4
  NoResult = NoResult
  Calls <- MCCalls
  Keys <- MCKeys
  KeyOf <- MCKeyOf
  Outcomes <- AnyOutcome
  MaxAttempts = 2
  Concurrency = 2
SYMMETRY Symmetry
INVARIANTS
  EngineTypeOK
  RunsWithinConcurrency
  OperationsAccountedFor
  AnswersAreSuccesses
CHECK_DEADLOCK FALSE
