SPECIFICATION Spec
CONSTANTS
  None = None
  t = t a = a b = b
  People = {t, a, b}
  Grants <- SomeGrants
  Requests = {1}
  MaxTime = 4
  MaxRevision = 3
INVARIANTS AccessEarned EditFences AgreesWithEvaluate ReleaseInv
CHECK_DEADLOCK FALSE
