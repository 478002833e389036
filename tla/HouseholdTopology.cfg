SPECIFICATION FairSpec
CONSTANTS
  None = None
  Household = Household
  m1 = m1
  m2 = m2
  s1 = s1
  Accounts = {1, 2}
  Devices = {11, 12, 21, 22}
  Memberships = {m1, m2}
  Spaces = {s1}
  MaxAccounts = 2
  MaxDevices = 2
  MaxWireInteger = 3
  MaxMigratedObjects = 2
  Handlers = {h1, h2, h3}
  Registered = {1, 2}
  Calls <- SmallCalls
  Owner <- RegisteredFor
  Initial <- Found
INVARIANTS TopologyInv
PROPERTIES HouseholdLine TransactionsEnd
CHECK_DEADLOCK FALSE
