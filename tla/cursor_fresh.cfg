\* A first consent races the first notification: both set the cursor.
SPECIFICATION Spec
CONSTANTS
  s1 = s1  s2 = s2  h1 = h1  h2 = h2  j1 = j1  j2 = j2
  Subs = {s1}
  Handlers = {h1}
  Jobs = {j1}
  Readable = {1, 2}
  Established = {}
  MaxKeys = 1
  MaxHistory = 2
  MaxFaults = 0
INVARIANT NothingPassedOverAtFirst
