\* A subscription with a cursor and the first consent of another; a handler, redelivery, renewals,
\* blocks, attachments, suspensions, history gaps, watches that end; two faults of any kind.
SPECIFICATION FairSpec
CONSTANTS
  s1 = s1  s2 = s2  h1 = h1  h2 = h2  j1 = j1  j2 = j2
  Subs = {s1, s2}
  Handlers = {h1}
  Jobs = {j1}
  Readable = {1}
  Established = {s1}
  MaxKeys = 2
  MaxHistory = 1
  MaxFaults = 2
\* The system may stop: the mailbox's mail and the consents are bounded.
CHECK_DEADLOCK FALSE
INVARIANT NothingPassedOver
PROPERTIES EveryMessageEnqueued DetachedGetsNothing
