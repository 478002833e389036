SPECIFICATION Spec
CONSTANTS
  a = a b = b x = x x2 = x2 y = y
  o1 = o1 o2 = o2 o3 = o3
  Objects = {o1}
  Devices <- OneDevice
  Editors <- OneDevice
  Cycles = {x}
  DeviceOf <- OneCycleEach
  PageLimit = 1
  FlushLimit = 2
  OutboxLimit = 4
  MaxVersions = 2
  MaxFailures = 0
  None = None
INVARIANT ConflictIsConcurrent
CHECK_DEADLOCK FALSE
