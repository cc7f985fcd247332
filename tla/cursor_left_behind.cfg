\* Violated: mail for a subscription whose connection has a live key, but that was suspended, or
\* cancelled before the connection was attached again, is acknowledged and not enqueued.
SPECIFICATION FairSpec
CONSTANTS
  s1 = s1  s2 = s2  h1 = h1  h2 = h2  j1 = j1  j2 = j2
  Subs = {s1}
  Handlers = {h1}
  Jobs = {j1}
  Readable = {1}
  Established = {s1}
  MaxKeys = 2
  MaxHistory = 1
  MaxFaults = 1
CHECK_DEADLOCK FALSE
PROPERTY LiveKeyServed
