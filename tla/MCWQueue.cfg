CONSTANTS
  Ids = {1, 2}
  Usage = {1}
  Handlers = {h1}
  Drainers = {d1}
  Batch = 2
  MaxAttempts = 3
  MaxFailures = 4
SPECIFICATION FairSpec
INVARIANTS
  QueueTypeOK
  NothingLost
  UsageCountedOnce
  DeadOnlyAtCeiling
PROPERTIES
  ImplementsOutbox
  Settled
\* The queue may be empty, with every id used up.
CHECK_DEADLOCK FALSE
