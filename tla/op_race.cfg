\* Stream and retry invocations race for one row that tolerates three failures.
CONSTANTS
  Worker = {w1, w2}
  NoToken = NoToken
  MaxRetries = 3
SPECIFICATION LiveSpec
INVARIANTS
  TypeOK
  PublishedWasSent
  AckedWasPublished
PROPERTIES
  NeverDowngraded
  OnlyOwnerCommits
  EventuallyDone
CHECK_DEADLOCK FALSE
