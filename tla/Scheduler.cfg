CONSTANTS
  n1 = n1
  s1 = s1
  s2 = s2
  k1 = k1
  k2 = k2
  NoSchedule = NoSchedule
  Tenants <- MCTenants
  Schedules <- MCSchedules
  TenantOf <- MCTenantOf
  Callers <- MCCallers
  Settings <- MCSettings
  FlipBound = 2
SPECIFICATION FairSpec
PROPERTIES
  ImplementsGate
  RunsAreRecorded
CHECK_DEADLOCK FALSE
