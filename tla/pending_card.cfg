\* Two requests for one file, dismissed, approved, granted and revoked while the card of one is put together.
CONSTANTS
  expose = expose
  write = write
  read = read
  readWrite = readWrite
  Requests = {expose, write}
  Grants = {read, readWrite}
  Wants <- MCWants
  Picks <- MCPicks
  Covers <- MCCovers
  PendingWindow = 0
  PENDING_LIMIT = 1
  MaxClock = 1
SPECIFICATION CardSpec
PROPERTIES AskedAgainIsListed
