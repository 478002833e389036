SPECIFICATION FairSpec
CONSTANTS
  None = None
  o1 = o1
  o2 = o2
  opA = opA
  opB = opB
  opC = opC
  opD = opD
  c1 = c1
  c2 = c2
  c3 = c3
  c4 = c4
  Objects = {o1}
  OperationIds = {opA, opB, opC, opD}
  Ciphertexts = {c1, c2, c3, c4}
  Devices = {d1}
  Readers = {}
  Handlers = {h1, h2}
  StorageKeys = {k1, k2, k3}
  PageLimit = 1
  MaxWireRevision = 3
  Mutations <- RacingMutations
  Topologies <- SingleTopology
INVARIANTS StoreInv NoDanglingMetadata NoOrphanWithoutFault NoLostUpdate RetryOfCommittedIsReplayed
PROPERTIES ImplementsVersionedObjects RequestsEnd
