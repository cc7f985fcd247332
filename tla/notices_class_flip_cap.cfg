\* A grant fails for the other class: its stamp, and so the mail it stood for, is forgotten.
SPECIFICATION Spec
CONSTANTS
  o1 = o1  o2 = o2
  l1 = l1  l2 = l2  f1 = f1  f2 = f2  g1 = g1  g2 = g2
  a1 = a1  a2 = a2  a3 = a3  c1 = c1  c2 = c2
  None = None  dead = dead  scope = scope
  Owners = {o1, o2}
  Addresses = {a1, a2, a3}
  Links = {l1}
  Refusals = {f1}
  Grants = {g1}
  Calls = {c1, c2}
  Delegates = {}
  Classes = {dead, scope}
  ClassesOf <- MCClassesOf
  OwnerOf <- MCOwnerOf
  EmailOf <- MCEmailOf
  MailboxOf <- MCMailboxOf
  MaxPerDay = 2
  GlobalHourlyMax = 2
  Hour = 1
  Day = 2
  LinkEpisode = 2
  RefusalEpisode = 2
  GrantEpisode = 2
  MinGap = 1
  NotifyAfter = 1
  CallLife = 1
  MaxNow = 2
  MaxTurns = 1
  MaxBounces = 0
  Time <- MCTime
SYMMETRY CallSymmetry
INVARIANT DailyCapOfAll
