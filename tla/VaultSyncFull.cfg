SPECIFICATION FairSpec
CONSTANTS
  a = a b = b x = x x2 = x2 y = y
  o1 = o1 o2 = o2 o3 = o3
  Objects = {o1, o2, o3}
  Devices <- OneDevice
  Editors <- OneDevice
  Cycles = {x}
  DeviceOf <- OneCycleEach
  PageLimit = 2
  FlushLimit = 2
  OutboxLimit = 2
  MaxVersions = 3
  MaxFailures = 0
  None = None
PROPERTY CreatedIsUploaded
CHECK_DEADLOCK FALSE
