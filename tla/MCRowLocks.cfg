SPECIFICATION Spec
CONSTANTS
  None = None
  Visitors = {"v1", "v2"}
  Sessions = {"s1", "s2"}
  Leads = {"l1"}
  Orders = {"o1"}
  Sales = {"m1"}
  Facts = {"f2", "f8", "f9", "f10"}
  Workloads <- MCWorkloads
INVARIANTS
  TypeOK
  ReferencesFound
  DeadlockBySessionStub
CHECK_DEADLOCK FALSE
