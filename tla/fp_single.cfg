\* One event of any type, with the outbox or direct publishing, delivered up to three
\* times to two workers.
CONSTANTS
  Worker = {w1, w2}
  NoEvent = NoEvent
  MaxReceive = 3
  Event = {e1}
SPECIFICATION LiveSpec
INVARIANTS
  OutboxMatchesResults
  AckedAfterCompletion
  SourceKeptUntilQuarantined
  CanonicalObjectExists
  SettledOnce
  OnlyInvalidRejected
  AnnouncedWasSaved
  ErrorOnlyWhenFailed
PROPERTY EventuallySettled
CHECK_DEADLOCK FALSE
