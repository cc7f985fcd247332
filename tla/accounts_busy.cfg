\* Clerk, the webhook and another's grant may do what they do while a call is at work.
CONSTANTS
  Own = Own
  Ids <- MCIds
  Addresses <- MCAddresses
  MaxKeys = 3
  MaxChanges = 2
  MaxDeaths = 0
  Killable = {}
  Calm = FALSE
SPECIFICATION Spec
INVARIANT RetiredIsInert
CHECK_DEADLOCK FALSE
