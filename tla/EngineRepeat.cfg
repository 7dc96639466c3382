\* Two calls in flight, none of them fails.
SPECIFICATION Spec
CONSTANTS
  c1 = c1
  c2 = c2
  c3 = c3
  c4 = c4
  NoResult = NoResult
  Calls <- MCCalls
  Keys <- MCKeys
  KeyOf <- MCKeyOf
  Outcomes <- OnlyOk
  MaxAttempts = 2
  Concurrency = 2
SYMMETRY Symmetry
INVARIANTS
  OneOperationPerKey
CHECK_DEADLOCK FALSE
