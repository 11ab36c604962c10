\* Failed polls do not stop the consumer.
CONSTANTS
  Message = {m1, m2, m3}
  NoMessage = NoMessage
  MaxMessages = 2
SYMMETRY MessageSymmetry
SPECIFICATION Spec
INVARIANT StopsAfterErrors
CHECK_DEADLOCK FALSE
