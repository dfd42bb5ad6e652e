CONSTANTS
  e1 = e1
  e2 = e2
  r1 = r1
  r2 = r2
  NoEvent = NoEvent
  Events <- MCEvents
  Relays <- MCRelays
  MaxAttempts = 2
  BatchLimit = 2
  ClaimBound = 3
  CrashBound = 1
  Settings <- MCSettings
CHECK_DEADLOCK FALSE
SPECIFICATION FairSpec
INVARIANTS
  OutcomesAreEarned
  DeliveredAtMostOnce
PROPERTIES
  EventuallySettled
