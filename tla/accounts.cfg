\* An owner and a delegate; Clerk does three things to the accounts; the webhook may be killed once.
CONSTANTS
  Own = Own
  Ids <- MCIds
  Addresses <- MCAddresses
  MaxKeys = 3
  MaxChanges = 3
  MaxDeaths = 1
  Killable = {"webhook"}
  Calm = TRUE
SPECIFICATION Spec
INVARIANTS OnlyGrantReaches OwnMailboxKept RetiredIsInert OwnRowsAreOwn
\* The system may stop: every call ends, and the profiles and what Clerk does are bounded.
CHECK_DEADLOCK FALSE
