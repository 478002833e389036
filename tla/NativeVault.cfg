SPECIFICATION Spec
CONSTANTS
  i1 = i1
  i2 = i2
  k1 = k1
  k2 = k2
  p1 = p1
  p2 = p2
  None = None
  Items = {i1, i2}
  Files <- ThreeFiles
  Keys = {k1, k2}
  Passphrases = {p1, p2}
  MaxItems = 1
  HistoryPerItem = 2
  HistoryRows = 3
  MaxFileObjects = 3
  FileBudget = 1
  Sessions = {s1, s2}
  Foreign <- OtherVault
  MaxRevision = 4
  MaxBodies = 2
  MaxFiles = 3
  MaxInstalls = 1
CONSTRAINT Bounded
SYMMETRY Symmetry
INVARIANTS VaultInv BudgetOvershoot
PROPERTIES NoLostUpdate HistoryKeepsNewest InstallsWhatWasValidated
CHECK_DEADLOCK FALSE
