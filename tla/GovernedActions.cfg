CONSTANTS
  r1 = r1
  boss = boss
  clerk = clerk
  d1 = d1
  k1 = k1
  k2 = k2
  c1 = c1
  c2 = c2
  NoUser = NoUser
  NoRequest = NoRequest
  NoKey = NoKey
  NoDoc = NoDoc
  Requests <- MCRequests
  Users <- MCUsers
  Authority <- MCAuthority
  Docs <- MCDocs
  Keys <- MCKeys
  Callers <- MCCallers
  NeedsApproval <- MCNeedsApproval
  s1 = s1
  s2 = s2
  q1 = q1
  q2 = q2
  q3 = q3
  w1 = w1
  w2 = w2
  i1 = i1
  i2 = i2
  Slots <- MCSlots
  FailureLimit = 2
  RateLimit = 4
  LockTime = 1
  Window = 2
  SessionTime = 2
  RequestBound = 4
  TimeBound = 2
  DeskCalls <- MCDeskCalls
  Workflows <- MCWorkflows
  Supervised <- MCSupervised
  RequestIds <- MCRequestIds
  Settings <- MCSettings
SPECIFICATION MCSpec
INVARIANTS
  EffectsOnce
  ExecutedWasApproved
  GuessesBounded
  EndedSessionsServeNothing
  WorkIsAuthorised
SYMMETRY Symmetry
PROPERTIES
  VerdictIsFinal
  ApprovedOnce
  ImplementsDecisionBook
CHECK_DEADLOCK FALSE
