\* Two overlapping drainers over three deliveries of two subscriptions, with a death.
SPECIFICATION FairSpec
CONSTANTS
  s1 = s1  s2 = s2  m1 = m1  m2 = m2  d1 = d1  d2 = d2
  None = None
  Subs = {s1, s2}
  Hooked = {s1}
  Deliveries <- MCDeliveries
  Drainers = {d1, d2}
  MaxAttempts = 2
  DeadStrikes = 1
  ClaimLimit = 2
  MaxDeaths = 1
INVARIANTS TypeOK HeldByOne
PROPERTIES KeepsPromise OnlyLostStay
