\* A page that visits two organizations, two slots of the worker.
SPECIFICATION FairSpec
CONSTANTS
  Organizations = {"o1", "o2"}
  Linked = {"o1"}
  Slots = {"s1", "s2"}
  KindsUsed = {"company", "verification"}
  MaxOps = 1
  MaxVisits = 2
  MaxContended = 1
  NoState = NoState
INVARIANTS
  ConsoleTypeOK
  OverviewAgrees
  ShownIsOfThisVisit
PROPERTIES
  EndIsNoticed
CHECK_DEADLOCK FALSE
