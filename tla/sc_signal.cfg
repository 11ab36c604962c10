\* A signal before _running is set is lost.
CONSTANTS
  Message = {m1, m2, m3}
  NoMessage = NoMessage
  MaxMessages = 2
SPECIFICATION LiveSpec
PROPERTY SignalEndsLoop
CHECK_DEADLOCK FALSE
