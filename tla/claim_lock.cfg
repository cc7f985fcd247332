\* Two claims at once over an owner's two refusals and grant, and another owner's grant whose
\* lock key collides with the breaker's; with a cap and a breaker of one.
SPECIFICATION FairSpec
CONSTANTS
  o1 = o1  o2 = o2
  l1 = l1  l2 = l2  f1 = f1  f2 = f2  g1 = g1  g2 = g2
  t1 = t1  t2 = t2  t3 = t3
  NoRow = NoRow  NoTx = NoTx
  Owners = {o1, o2}
  Links = {}
  Refusals = {f1, f2}
  Grants = {g1, g2}
  OwnerOf <- MCOwnerOf
  HashOf <- MCHashOf
  Txs = {t1, t2}
  MaxPerDay = 1
  GlobalHourlyMax = 1
  Hour = 1
  Day = 1
  LinkEpisode = 2
  RefusalEpisode = 2
  MaxNow = 1
  Time <- MCTime
INVARIANTS Serialized CapOnStamps RefusalEpisodesOnStamps
PROPERTIES ImplementsClaims EveryClaimFinishes
