\* An upload and another event of the same file, each delivered up to twice.
CONSTANTS
  Worker = {w1, w2}
  NoEvent = NoEvent
  MaxReceive = 2
  e1 = e1
  e2 = e2
  Event = {e1, e2}
SYMMETRY WorkerSymmetry
SPECIFICATION PairSpec
INVARIANT OneCompletionEvent
PROPERTY LeaseProtocol
CHECK_DEADLOCK FALSE
