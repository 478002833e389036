SPECIFICATION Spec
CONSTANTS
  None = None
  o1 = o1
  o2 = o2
  opA = opA
  opB = opB
  opC = opC
  opD = opD
  c1 = c1
  c2 = c2
  c3 = c3
  c4 = c4
  Objects = {o1, o2}
  OperationIds = {opA, opB, opC}
  Ciphertexts = {c1, c2, c3, c4}
  Devices = {d1, d2}
  Readers = {d1}
  Handlers = {h1, h2}
  StorageKeys = {k1, k2, k3}
  PageLimit = 1
  MaxWireRevision = 3
  Mutations <- SharedMutations
  Topologies <- SeveralTopologies
SYMMETRY RequestSymmetry
INVARIANTS FeedComplete StoreIsLog
PROPERTIES HouseholdWritesAuthorized
