CONSTANTS
  c1 = c1
  c2 = c2
  r1 = r1
  r2 = r2
  r3 = r3
  w1 = w1
  w2 = w2
  v1 = v1
  v2 = v2
  Calls <- MCCalls
  Labels <- MCLabels
  DeployBound <- MCDeployBound
  Settings <- MCSettings
  Requests <- MCRequests
  MaxCost = 2
  Budgets <- MCBudgets
  ActualBound = 1
  Writers <- MCWriters
  Contents <- MCContents
  CorrectionBound = 3
  a1 = a1
  a2 = a2
  Asks <- MCAsks
  Prompts <- MCPrompts
  Chunks <- MCChunks
  ModelRows <- MCModelRows
  RoutingPolicies <- MCPolicies
  Statuses <- MCStatuses
  Library <- MCLibrary
  Registered <- MCRegistered
  Grants <- MCGrants
  Recalled = 3
  Asker = "reader"
  Memories <- MCMemories
  Remembered <- MCRemembered
  Platforms <- MCPlatforms
  Limits <- MCLimits
SPECIFICATION MCSpec
INVARIANTS
  LiveIsDeployed
  OverspendBounded
  VersionsChain
  ModelWasAllowed
  AnswersAreGrounded
PROPERTIES
  RollbackReverts
SYMMETRY Symmetry
CHECK_DEADLOCK FALSE
