\* Three rows in two shards, at most three wanted per status, hence two per shard;
\* other publishers take up to two steps during the cycle.
CONSTANTS
  Rows = 3
  Shards = 2
  Limit = 3
  MaxMoves = 2
SPECIFICATION LiveSpec
INVARIANTS
  TypeOK
  TriedOnce
  OnlyMalformedStops
PROPERTIES
  FoundUnlessOlderFill
  CycleEnds
CHECK_DEADLOCK FALSE
