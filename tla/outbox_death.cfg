\* An invocation dies holding a row.
SPECIFICATION FairSpec
CONSTANTS
  s1 = s1  s2 = s2  m1 = m1  m2 = m2  d1 = d1  d2 = d2
  None = None
  Subs = {s1}
  Hooked = {s1}
  Deliveries <- OneDelivery
  Drainers = {d1}
  MaxAttempts = 2
  DeadStrikes = 2
  ClaimLimit = 2
  MaxDeaths = 1
PROPERTY EverySettles
