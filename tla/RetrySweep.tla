----------------------------- MODULE RetrySweep -----------------------------
(***************************************************************************)
(* One cycle of the retry Lambda: retry_pending_events queries the outbox  *)
(* rows of each retryable status, shard by shard and page by page, removes *)
(* the duplicates and tries to publish each row, while other publishers    *)
(* claim, settle and abandon rows.                                         *)
(* DynamoDB applies Limit before the filter, so a page may be empty and    *)
(* still not be the last.                                                  *)
(***************************************************************************)
EXTENDS Naturals, FiniteSets, FiniteSetsExt

CONSTANTS
  Rows,          \* rows are 1..Rows, numbered by createdAt
  Shards,        \* OUTBOX_SHARD_COUNT; shards are 0..Shards-1
  Limit,         \* limit of one _query_retryable
  MaxMoves       \* bound: steps other publishers take during the cycle

ASSUME SweepAssumption ==
  /\ Rows \in Nat
  /\ Shards \in Nat \ {0}
  /\ Limit \in Nat \ {0}
  /\ MaxMoves \in Nat

Row   == 1..Rows
Shard == 0..(Shards - 1)

\* Status and, where the filters or the claim look at them, retry count (below
\* the limit or not) and publisher lease (expired or not).
State == {"PENDING", "FAILED", "FAILED exhausted", "PUBLISHING", "PUBLISHING expired",
          "PUBLISHED"}

Query == 1..3        \* the three calls of _query_retryable, in order

VARIABLES
  shardOf,       \* outboxShard of each row
  malformed,     \* rows from_dynamodb_item cannot convert
  state,         \* state of each row
  moves,         \* steps of other publishers so far
  query,         \* the call of _query_retryable being made; 4 once all returned
  shard,         \* its shard number
  startKey,      \* ExclusiveStartKey, 0 for None
  count,         \* shard_count
  items,         \* rows found by this call so far
  steady,        \* history: rows this call had to find ever since it started
  unique,        \* <<call, row>> for the rows to try
  taken,         \* those the loop has come to
  outcome        \* "running", "returned" or "raised"

data == <<shardOf, malformed>>
walk == <<query, shard, startKey, count, items, steady, unique>>
vars == <<data, state, moves, walk, taken, outcome>>

-----------------------------------------------------------------------------
(* _query_retryable                                                         *)

\* The GSI1 partitions of the status a call queries.
Partition(q) == CASE q = 1 -> {"PENDING"}
                  [] q = 2 -> {"FAILED", "FAILED exhausted"}
                  [] q = 3 -> {"PUBLISHING", "PUBLISHING expired"}

\* The filter expression: retryCount < :maxRetries, publisherClaimExpiresAt < :now.
Passing(q) == Partition(q) \ {"FAILED exhausted", "PUBLISHING"}

Matching(q, st) == IF q \in Query THEN {r \in Row : st[r] \in Passing(q)} ELSE {}

\* max(1, ceil(limit / OUTBOX_SHARD_COUNT))
PerShardLimit == (Limit + Shards - 1) \div Shards

\* The n smallest rows of a set.
Oldest(n, S) == {r \in S : Cardinality({q \in S : q < r}) < n}

Init ==
  /\ shardOf \in [Row -> Shard]
  /\ malformed \in SUBSET Row
  /\ state \in [Row -> State]
  /\ moves = 0
  /\ query = 1
  /\ shard = 0
  /\ startKey = 0
  /\ count = 0
  /\ items = {}
  /\ steady = Matching(1, state)
  /\ unique = {}
  /\ taken = {}
  /\ outcome = "running"

Querying == outcome = "running" /\ query \in Query

\* One DynamoDB query: at most n rows of the shard after the start key are
\* evaluated, oldest first; LastEvaluatedKey is set when n were.
Evaluated(n) ==
  Oldest(n, {r \in Row : state[r] \in Partition(query) /\ shardOf[r] = shard /\ r > startKey})

\* Fault: a page the filter shortened is taken for the last.
MorePagesIfFull(n) == Cardinality(Evaluated(n) \cap Matching(query, state)) = n

MorePages(n) == Cardinality(Evaluated(n)) = n

\* Fault: the next page starts over.
ResumeKeyLost(n) == 0

ResumeKey(n) == Max(Evaluated(n))

\* Fault: the limit is counted over all shards, not in each.
NextShardKeepsCount ==
  /\ shard' = shard + 1
  /\ startKey' = 0
  /\ count' = count + 1

NextShard ==
  /\ shard' = shard + 1
  /\ startKey' = 0
  /\ count' = 0

QueryPage ==
  LET n    == PerShardLimit - count
      page == Evaluated(n) \cap Matching(query, state)
      full == count + Cardinality(page) >= PerShardLimit
  IN
  /\ Querying /\ shard < Shards
  /\ items' = items \cup page
  /\ IF MorePages(n) /\ ~full
     THEN /\ startKey' = ResumeKey(n)
          /\ count' = count + Cardinality(page)
          /\ UNCHANGED shard
     ELSE NextShard
  /\ UNCHANGED <<data, state, moves, query, steady, unique, taken, outcome>>

\* The query raises, and nothing catches it.
QueryRaises ==
  /\ Querying /\ shard < Shards
  /\ outcome' = "raised"
  /\ UNCHANGED <<data, state, moves, walk, taken>>

\* Fault: the lists of the three calls are concatenated.
AddAll(found) == unique \cup {<<query, r>> : r \in found}

\* The dictionary keeps one item per key, at the place of the first.
AddUnique(found) ==
  unique \cup {<<query, r>> : r \in {f \in found : \A u \in unique : u[2] # f}}

\* A call returns what it found, sorted by createdAt and cut to the limit.
EndQuery ==
  /\ Querying /\ shard = Shards
  /\ unique' = AddUnique(Oldest(Limit, items))
  /\ query' = query + 1
  /\ steady' = Matching(query + 1, state)
  /\ shard' = 0
  /\ items' = {}
  /\ UNCHANGED <<data, state, moves, startKey, count, taken, outcome>>

-----------------------------------------------------------------------------
(* The loop of retry_pending_events over the rows found.                    *)

Before(u, v) == u[1] < v[1] \/ (u[1] = v[1] /\ u[2] < v[2])

\* The first item not yet taken, in the order of the dictionary.
IsNext(u) ==
  /\ outcome = "running" /\ query \notin Query
  /\ u \in unique \ taken
  /\ \A v \in unique \ taken : v = u \/ Before(u, v)

Claimable(r) == state[r] \in {"PENDING", "FAILED", "PUBLISHING expired"}

\* from_dynamodb_item is outside the try.
ConvertRaises(u) ==
  /\ IsNext(u) /\ u[2] \in malformed
  /\ taken' = taken \cup {u}
  /\ outcome' = "raised"
  /\ UNCHANGED <<data, state, moves, walk>>

\* claim_event_for_publish, publish_to_sns and mark_event_published succeed, or
\* the claim finds the row PUBLISHED.
TrySucceeds(u) ==
  /\ IsNext(u) /\ u[2] \notin malformed
  /\ Claimable(u[2]) \/ state[u[2]] = "PUBLISHED"
  /\ taken' = taken \cup {u}
  /\ state' = [state EXCEPT ![u[2]] = "PUBLISHED"]
  /\ UNCHANGED <<data, moves, walk, outcome>>

\* What a failed attempt leaves: the claim was refused or had no effect, the
\* lease stays, the failure was marked, or the mark's answer was lost.
AfterError(r) ==
  {state[r]} \cup
  (IF Claimable(r) THEN {"PUBLISHING", "FAILED", "FAILED exhausted", "PUBLISHED"} ELSE {})

\* Fault: an error of one row leaves the loop.
TryFailsAndRaises(u) ==
  /\ IsNext(u) /\ u[2] \notin malformed
  /\ taken' = taken \cup {u}
  /\ outcome' = "raised"
  /\ UNCHANGED <<data, state, moves, walk>>

\* The error is counted and logged; so is one of mark_event_failed.
TryFails(u) ==
  /\ IsNext(u) /\ u[2] \notin malformed
  /\ taken' = taken \cup {u}
  /\ \E st \in AfterError(u[2]) : state' = [state EXCEPT ![u[2]] = st]
  /\ UNCHANGED <<data, moves, walk, outcome>>

Return ==
  /\ outcome = "running" /\ query \notin Query
  /\ unique = taken
  /\ outcome' = "returned"
  /\ UNCHANGED <<data, state, moves, walk, taken>>

-----------------------------------------------------------------------------
(* Other publishers.                                                        *)

Move(r, states) ==
  /\ outcome = "running"
  /\ moves < MaxMoves
  /\ moves' = moves + 1
  /\ \E st \in states : state' = [state EXCEPT ![r] = st]
  /\ steady' = steady \cap Matching(query, state')
  /\ UNCHANGED <<data, query, shard, startKey, count, items, unique, taken, outcome>>

OtherClaims(r) == Claimable(r) /\ r \notin malformed /\ Move(r, {"PUBLISHING"})

OtherSettles(r) == state[r] = "PUBLISHING" /\ Move(r, {"PUBLISHED", "FAILED", "FAILED exhausted"})

LeaseExpires(r) == state[r] = "PUBLISHING" /\ Move(r, {"PUBLISHING expired"})

-----------------------------------------------------------------------------
Loop == \E u \in unique : ConvertRaises(u) \/ TrySucceeds(u) \/ TryFails(u)

Cycle == QueryPage \/ EndQuery \/ Loop \/ Return

Others == \E r \in Row : OtherClaims(r) \/ OtherSettles(r) \/ LeaseExpires(r)

Next == Cycle \/ QueryRaises \/ Others

Spec == Init /\ [][Next]_vars

\* The cycle keeps going; queries need not fail.
LiveSpec == Spec /\ WF_vars(Cycle)

-----------------------------------------------------------------------------
TypeOK ==
  /\ shardOf \in [Row -> Shard]
  /\ malformed \subseteq Row
  /\ state \in [Row -> State]
  /\ moves \in 0..MaxMoves
  /\ query \in 1..4
  /\ shard \in 0..Shards
  /\ startKey \in 0..Rows
  /\ count \in 0..(PerShardLimit - 1)
  /\ items \subseteq Row
  /\ steady \subseteq Row
  /\ unique \subseteq Query \X Row
  /\ taken \subseteq unique
  /\ outcome \in {"running", "returned", "raised"}

\* Nothing starves behind rows the filter drops: a row that stays retryable while
\* its status is queried is found, unless as many older ones fill the limit of
\* its shard or of the call, whatever other publishers move meanwhile.
FoundUnlessOlderFill ==
  [][query' # query =>
       \A r \in steady :
         \/ \E u \in unique' : u[2] = r
         \/ Cardinality({i \in items : shardOf[i] = shardOf[r] /\ i < r}) >= PerShardLimit
         \/ Cardinality({i \in items : i < r}) >= Limit]_vars

\* A row that moves from status to status while they are queried is found twice
\* and tried once: a cycle spends at most one of its retries.
TriedOnce == \A u, v \in taken : u[2] = v[2] => u = v

\* Only a row that does not convert ends the loop early: failures to claim, to
\* publish or to mark a row never cost the rows behind it their turn.
OnlyMalformedStops ==
  outcome # "running" /\ query \notin Query =>
    \A u \in unique \ taken : \E v \in taken : v[2] \in malformed /\ Before(v, u)

\* The cycle ends although pages may be empty.
CycleEnds == <>(outcome # "running")
=============================================================================
