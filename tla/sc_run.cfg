\* Three messages, batches of two, a signal at any moment.
CONSTANTS
  Message = {m1, m2, m3}
  NoMessage = NoMessage
  MaxMessages = 2
SPECIFICATION LiveSpec
INVARIANTS
  TypeOK
  DeletedWasHandled
  OneLateHandler
PROPERTY StopEndsLoop
CHECK_DEADLOCK FALSE
