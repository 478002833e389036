SPECIFICATION Spec
CONSTANTS
  None = None
  p = p q = q d1 = d1 d2 = d2 d3 = d3 s1 = s1 h1 = h1 h2 = h2
  Accounts = {p, q}
  DeviceIds = {d1, d2, d3}
  Requests = {d2, d3}
  Secrets = {s1}
  Calls <- RegistryCalls
  Handlers = {h1, h2}
  MaxDevices = 2
  TimeToLive = 1
  MaxClock = 1
SYMMETRY RegistrySymmetry
INVARIANTS NoLockCycle NeverLockedOut RevocationCancels EnrollmentsSound RetriesReplayed RegistryInv
