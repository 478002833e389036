SPECIFICATION Spec
CONSTANTS
  a = a b = b x = x x2 = x2 y = y
  Objects = {o1}
  o1 = o1 o2 = o2 o3 = o3
  Devices <- TwoDevices
  Editors <- TwoDevices
  Cycles = {x, y}
  DeviceOf <- OneCycleEach
  PageLimit = 1
  FlushLimit = 2
  OutboxLimit = 4
  MaxVersions = 4
  MaxFailures = 1
  None = None
INVARIANTS CursorComplete SyncInv
PROPERTIES LocalFastForwards ServerFastForwards AcknowledgedTookEffect
CHECK_DEADLOCK FALSE
