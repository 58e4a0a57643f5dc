CONSTANTS
  Plans = {p1, p2}
  Requests = {r1}
  None = None
  MaxSessions = 2
  DefaultTTL = 2
  Expiries <- MCExpiries
  MaxResources = 3
  MaxTime = 1
SPECIFICATION Spec
INVARIANTS SessionsBelongToHolder LeaseNeverRenewed
PROPERTIES PublishedPlanIsWhole RevokedTransfersStop ImplementsLease
CHECK_DEADLOCK FALSE
