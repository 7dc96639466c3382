\* The contract test's sentence, after a poll that fails.
SPECIFICATION Spec
CONSTANTS
  Organizations = {"o1", "o2"}
  Linked = {"o1"}
  Slots = {"s1", "s2"}
  KindsUsed = {"company", "verification"}
  MaxOps = 1
  MaxVisits = 2
  MaxContended = 1
  NoState = NoState
INVARIANTS
  KeepsPolling
CHECK_DEADLOCK FALSE
