\* The owner deletes their account and signs up again; no call is killed.
CONSTANTS
  Own = Own
  Ids <- MCOwnersIds
  Addresses <- MCFirstAddresses
  MaxKeys = 3
  MaxChanges = 2
  MaxDeaths = 0
  Killable = {}
  Calm = TRUE
SPECIFICATION Spec
INVARIANT GrantsReach
\* The system may stop: every call ends, and the profiles and what Clerk does are bounded.
CHECK_DEADLOCK FALSE
