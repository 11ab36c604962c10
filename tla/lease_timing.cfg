\* The default settings in units of 30 s: visibility timeout 300 s, lease 330 s,
\* function limit 270 s; four receives.
CONSTANTS
  Worker = {w1, w2, w3}
  NoWorker = NoWorker
  Visibility = 10
  Lease = 11
  Timeout = 9
  MaxReceive = 4
SPECIFICATION LiveSpec
INVARIANTS
  LambdaKeepsLease
  FewRefusals
  UnprocessedMeansFault
PROPERTIES
  Recovers
CHECK_DEADLOCK FALSE
