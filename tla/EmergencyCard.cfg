SPECIFICATION Spec
CONSTANTS
  s1 = s1  s2 = s2  p1 = p1  d1 = d1  d2 = d2
  k1 = k1  k2 = k2  g1 = g1  weak = weak
  Session <- MCSession
  Principal <- MCPrincipal
  Device <- MCDevice
  EncryptionKey <- MCEncryptionKey
  SigningKey <- MCSigningKey
  App <- MCApp
  NoKey = NoKey
  Idle = Idle
  Nil = Nil
  DegenerateKeys = {}
  WeakSigningKeys = {weak}
  MAX_TRUSTED_PRINCIPALS = 1
  MAX_TRUSTED_DEVICES_PER_PRINCIPAL = 2
  MAX_RETIRED_TRUSTED_PRINCIPALS = 1
  MAX_RETIRED_TRUSTED_DEVICES = 2
  MAX_RETIRED_TRUSTED_SIGNING_KEYS = 1
  MAX_PENDING_TRUSTED_DEVICE_PAIRINGS = 1
  MaxRevision = 4
  MaxRequests = 2
  MIN_SECRET_SHARES_LEN = 2
  MaxSpaceMembers = 2
  MaxWireInteger = 3
SYMMETRY MCSymmetry
INVARIANT CardInv
PROPERTY CardContinues
