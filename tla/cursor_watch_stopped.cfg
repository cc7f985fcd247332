\* A cancellation stops the watch another subscription's consent has just armed.
SPECIFICATION Spec
CONSTANTS
  s1 = s1  s2 = s2  h1 = h1  h2 = h2  j1 = j1  j2 = j2
  Subs = {s1, s2}
  Handlers = {}
  Jobs = {j1, j2}
  Readable = {1}
  Established = {s1}
  MaxKeys = 2
  MaxHistory = 1
  MaxFaults = 0
INVARIANT WatchedWhileActive
