CONSTANTS
  n1 = n1
  r1 = r1
  r2 = r2
  Tenants <- MCTenants
  Callers <- MCCallers
  TenantOf <- MCTenantOf
  maxDepth <- MCDepth
  maxAgents <- MCAgents
  budget <- MCBudget
  PlanBound = 3
  Settings <- MCSettings
  FlipBound = 2
SPECIFICATION FairSpec
INVARIANTS
  StepsWithinLimits
  RecordTellsTheRun
PROPERTIES
  RunsAreRecorded
CHECK_DEADLOCK FALSE
