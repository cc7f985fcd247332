\* Two requests of one instance walk up from a file while two moves happen in the person's sight.
CONSTANTS
  u1 = u1
  file = file
  inner = inner
  outer = outer
  w1 = w1
  w2 = w2
  Users = {u1}
  Nodes <- MCNodes
  Files = {file}
  Walkers = {w1, w2}
  CACHE_TTL = 2
  Latency = 1
  MAX_LINEAGE_HOPS = 3
  Seen <- MCSeen
  Settings <- MCSettings
  Moves <- MCMoves
  MaxMoves = 2
SYMMETRY Interchangeable
SPECIFICATION LineageSpec
INVARIANTS LineageTypeOK SettledIsSeen
