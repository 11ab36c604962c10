\* Two events of the same file: CompletedRecognised does not hold.
CONSTANTS
  Worker = {w1, w2}
  NoEvent = NoEvent
  MaxReceive = 2
  e1 = e1
  e2 = e2
  Event = {e1, e2}
SYMMETRY WorkerSymmetry
SPECIFICATION PairSpec
PROPERTY CompletedRecognised
CHECK_DEADLOCK FALSE
