SPECIFICATION FairSpec
CONSTANTS
  a = a b = b x = x x2 = x2 y = y
  o1 = o1 o2 = o2 o3 = o3
  Objects = {o1}
  Devices <- TwoDevices
  Editors <- OtherDevice
  Cycles = {x,x2,y}
  DeviceOf <- OneCycleEach
  PageLimit = 1
  FlushLimit = 1
  OutboxLimit = 2
  MaxVersions = 2
  MaxFailures = 1
  None = None
PROPERTIES BaselineAdvances CreatedReachesAll
CHECK_DEADLOCK FALSE
