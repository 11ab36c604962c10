-------------------------- MODULE RetrySweepProofs --------------------------
(***************************************************************************)
(* Proofs about RetrySweep, for any numbers of rows, shards and steps of   *)
(* other publishers, and any limit: a cycle tries no row twice, only a row *)
(* that does not convert keeps those behind it from being tried, and a row *)
(* that stays retryable is found unless older ones fill the shard's share. *)
(***************************************************************************)
EXTENDS RetrySweep, FiniteSetTheorems, TLAPS

\* No two of the rows to try have the same key.
Distinct == \A u, v \in unique : u[2] = v[2] => u = v

SweepInv ==
  /\ Distinct
  /\ taken \subseteq unique
  /\ OnlyMalformedStops

LEMMA SweepInit == Init => SweepInv
BY DEF Init, SweepInv, Distinct, OnlyMalformedStops

\* A row found again, by a later call, keeps its place.
LEMMA AddsDistinct ==
  ASSUME Distinct, NEW found, unique' = AddUnique(found)
  PROVE  Distinct' /\ unique \subseteq unique'
<1>1. unique' = unique \cup {<<query, r>> : r \in {f \in found : \A u \in unique : u[2] # f}}
  BY DEF AddUnique
<1> QED
  BY <1>1 DEF Distinct

LEMMA EndQueryKeeps ==
  ASSUME SweepInv, EndQuery
  PROVE  SweepInv'
<1>1. Distinct' /\ unique \subseteq unique'
  BY AddsDistinct DEF SweepInv, EndQuery
<1>2. outcome' = "running" /\ taken' = taken
  BY DEF EndQuery, Querying
<1> QED
  BY <1>1, <1>2 DEF SweepInv, OnlyMalformedStops

LEMMA LoopKeeps ==
  ASSUME SweepInv, NEW u \in unique, ConvertRaises(u) \/ TrySucceeds(u) \/ TryFails(u)
  PROVE  SweepInv'
<1>1. /\ taken' = taken \cup {u} /\ unique' = unique /\ malformed' = malformed
      /\ \A v \in unique \ taken : v = u \/ Before(u, v)
  BY DEF ConvertRaises, TrySucceeds, TryFails, IsNext, walk, data
<1>2. outcome' # "running" => u[2] \in malformed
  BY DEF ConvertRaises, TrySucceeds, TryFails, IsNext
<1> QED
  BY <1>1, <1>2 DEF SweepInv, Distinct, OnlyMalformedStops

LEMMA OthersKeep ==
  ASSUME SweepInv, Others
  PROVE  SweepInv'
<1>1. outcome' = "running" /\ UNCHANGED <<unique, taken>>
  BY DEF Others, OtherClaims, OtherSettles, LeaseExpires, Move
<1> QED
  BY <1>1 DEF SweepInv, Distinct, OnlyMalformedStops

LEMMA SweepStep == SweepInv /\ [Next]_vars => SweepInv'
<1> SUFFICES ASSUME SweepInv, [Next]_vars PROVE SweepInv'
  OBVIOUS
<1>1. CASE QueryPage \/ QueryRaises
  <2>1. UNCHANGED <<unique, taken, query>> /\ query \in Query
    BY <1>1 DEF QueryPage, QueryRaises, Querying, walk
  <2> QED
    BY <2>1 DEF SweepInv, Distinct, OnlyMalformedStops
<1>2. CASE EndQuery
  BY <1>2, EndQueryKeeps
<1>3. CASE Loop
  BY <1>3, LoopKeeps DEF Loop
<1>4. CASE Return
  BY <1>4 DEF Return, walk, data, SweepInv, Distinct, OnlyMalformedStops
<1>5. CASE Others
  BY <1>5, OthersKeep
<1>6. CASE UNCHANGED vars
  BY <1>6 DEF vars, walk, data, SweepInv, Distinct, OnlyMalformedStops
<1> QED
  BY <1>1, <1>2, <1>3, <1>4, <1>5, <1>6 DEF Next, Cycle

THEOREM SweepInvariant == Spec => []SweepInv
BY SweepInit, SweepStep, PTL DEF Spec

\* However rows move between the statuses while these are queried, a cycle tries
\* none of them twice.
THEOREM RowTriedOnce == Spec => []TriedOnce
<1>1. SweepInv => TriedOnce
  BY DEF SweepInv, Distinct, TriedOnce
<1> QED
  BY <1>1, SweepInvariant, PTL

\* The loop is left early for a row that does not convert, and for nothing else.
THEOREM MalformedAloneStops == Spec => []OnlyMalformedStops
<1>1. SweepInv => OnlyMalformedStops
  BY DEF SweepInv
<1> QED
  BY <1>1, SweepInvariant, PTL

-----------------------------------------------------------------------------
(* The operators the pages are made of.                                     *)

LEMMA RowsNatural == \A r \in Row : r \in Nat /\ Rows - r \in Nat
BY SweepAssumption DEF SweepAssumption, Row

LEMMA LeastNatural ==
  ASSUME NEW S, S \subseteq Nat, S # {}
  PROVE  \E m \in S : \A x \in S : m <= x
<1>1. PICK m \in S : \A x \in S : ~(<<x, m>> \in OpToRel(<, Nat))
  BY NatLessThanWellFounded, WFMin
<1>2. \A x \in S : ~(x < m)
  BY <1>1 DEF OpToRel
<1> QED
  BY <1>2

\* The last row of a page, which LastEvaluatedKey names.
LEMMA MaxRow ==
  ASSUME NEW S, S \subseteq Row, S # {}
  PROVE  Max(S) \in S /\ \A x \in S : x <= Max(S)
<1> DEFINE Rest == {Rows - x : x \in S}
<1>1. Rest \subseteq Nat /\ Rest # {}
  <2>1. \A x \in S : Rows - x \in Nat
    BY RowsNatural
  <2> QED
    BY <2>1
<1>2. PICK m \in Rest : \A y \in Rest : m <= y
  BY <1>1, LeastNatural
<1>3. PICK last \in S : m = Rows - last
  BY <1>2
<1>4. \A x \in S : last >= x
  <2> SUFFICES ASSUME NEW x \in S PROVE last >= x
    OBVIOUS
  <2>1. m <= Rows - x
    BY <1>2
  <2> QED
    BY <1>3, <2>1, SweepAssumption DEF SweepAssumption, Row
<1>5. Max(S) \in S /\ \A y \in S : Max(S) >= y
  BY <1>4 DEF Max
<1> QED
  BY <1>5, SweepAssumption DEF SweepAssumption, Row

LEMMA RowsFinite ==
  ASSUME NEW S, S \subseteq Row
  PROVE  /\ IsFiniteSet(S) /\ Cardinality(S) \in Nat
         /\ \A T : T \subseteq S => IsFiniteSet(T) /\ Cardinality(T) <= Cardinality(S)
                                  /\ Cardinality(T) \in Nat
<1>1. IsFiniteSet(Row)
  BY FS_Interval, SweepAssumption DEF SweepAssumption, Row
<1>2. IsFiniteSet(S)
  BY <1>1, FS_Subset
<1> QED
  BY <1>2, FS_Subset, FS_CardinalityType

\* What Limit leaves out is younger than all it lets through.
LEMMA OldestFirst ==
  ASSUME NEW S, S \subseteq Row, NEW n \in Nat
  PROVE  /\ Oldest(n, S) \subseteq S
         /\ \A e \in Oldest(n, S), r \in S \ Oldest(n, S) : e < r
<1> SUFFICES ASSUME NEW e \in Oldest(n, S), NEW r \in S \ Oldest(n, S) PROVE e < r
  BY DEF Oldest
<1> DEFINE Below(x) == {q \in S : q < x}
<1>1. e \in Nat /\ r \in Nat
  BY SweepAssumption DEF SweepAssumption, Row, Oldest
<1>2. Cardinality(Below(e)) < n /\ ~(Cardinality(Below(r)) < n)
  BY DEF Oldest
<1>3. SUFFICES ASSUME r <= e PROVE FALSE
  BY <1>1
<1>4. Below(r) \subseteq Below(e)
  <2> SUFFICES ASSUME NEW q \in S, q < r PROVE q < e
    OBVIOUS
  <2>1. q \in Nat
    BY RowsNatural
  <2> QED
    BY <1>1, <1>3, <2>1
<1>5. Below(e) \subseteq Row
  OBVIOUS
<1>6. /\ Cardinality(Below(r)) <= Cardinality(Below(e))
      /\ Cardinality(Below(r)) \in Nat /\ Cardinality(Below(e)) \in Nat
  BY <1>4, <1>5, RowsFinite
<1> HIDE DEF Below
<1> QED
  BY <1>2, <1>6

\* A page that leaves a row out is full.
LEMMA FullPage ==
  ASSUME NEW S, S \subseteq Row, NEW n \in Nat, NEW r \in S \ Oldest(n, S)
  PROVE  Cardinality(Oldest(n, S)) >= n
<1> DEFINE Young == S \ Oldest(n, S)
<1>1. Young \subseteq Nat /\ Young # {}
  BY RowsNatural
<1>2. PICK m \in Young : \A x \in Young : m <= x
  BY <1>1, LeastNatural
<1>3. Oldest(n, S) = {q \in S : q < m}
  <2>1. \A q \in Oldest(n, S) : q < m
    BY OldestFirst
  <2>2. \A q \in S : q < m => q \in Oldest(n, S)
    BY <1>1, <1>2, SweepAssumption DEF SweepAssumption, Row
  <2>3. Oldest(n, S) \subseteq S
    BY OldestFirst
  <2> QED
    BY <2>1, <2>2, <2>3
<1>4. ~(Cardinality({q \in S : q < m}) < n)
  BY DEF Oldest
<1>5. Cardinality(Oldest(n, S)) \in Nat
  BY RowsFinite, OldestFirst
<1> QED
  BY <1>3, <1>4, <1>5

\* No page holds more rows than its limit.
LEMMA PageLimit ==
  ASSUME NEW S, S \subseteq Row, NEW n \in Nat
  PROVE  Cardinality(Oldest(n, S)) <= n
<1>1. Oldest(n, S) \subseteq Row
  BY OldestFirst
<1>2. CASE Oldest(n, S) = {}
  BY <1>2, FS_EmptySet
<1>3. CASE Oldest(n, S) # {}
  <2> DEFINE last == Max(Oldest(n, S))
             Below == {q \in S : q < last}
  <2>1. last \in Oldest(n, S) /\ \A q \in Oldest(n, S) : q <= last
    BY <1>1, <1>3, MaxRow
  <2>2. Cardinality(Below) < n
    BY <2>1 DEF Oldest
  <2>3. Oldest(n, S) \subseteq Below \cup {last}
    <3> SUFFICES ASSUME NEW q \in Oldest(n, S), q # last PROVE q \in S /\ q < last
      OBVIOUS
    <3>1. q \in S /\ q \in Nat /\ last \in Nat
      BY <1>1, <2>1, OldestFirst, RowsNatural
    <3>2. q <= last
      BY <2>1
    <3> HIDE DEF last
    <3> QED
      BY <3>1, <3>2
  <2>4. IsFiniteSet(Below) /\ Cardinality(Below) \in Nat
    BY RowsFinite
  <2>5. /\ IsFiniteSet(Below \cup {last})
        /\ Cardinality(Below \cup {last}) <= Cardinality(Below) + 1
    <3> HIDE DEF Below, last
    <3>1. Cardinality(Below \cup {last}) \in {Cardinality(Below), Cardinality(Below) + 1}
      BY <2>4, FS_AddElement
    <3> QED
      BY <2>4, <3>1, FS_AddElement
  <2>6. Cardinality(Oldest(n, S)) <= Cardinality(Below \cup {last})
    BY <2>3, <2>5, FS_Subset
  <2>7. Cardinality(Oldest(n, S)) \in Nat /\ Cardinality(Below \cup {last}) \in Nat
    BY <1>1, <2>5, RowsFinite, FS_CardinalityType
  <2> HIDE DEF Below, last
  <2> QED
    BY <2>2, <2>4, <2>5, <2>6, <2>7
<1> QED
  BY <1>2, <1>3

\* Every shard is asked for at least one row.
LEMMA ShardLimitPositive == PerShardLimit \in Nat \ {0}
<1>1. ASSUME NEW l \in Nat, l > 0, NEW s \in Nat, s > 0
      PROVE  ((l + s - 1) \div s) \in Nat /\ ((l + s - 1) \div s) > 0
  BY <1>1, Z3T(20)
<1>2. Limit \in Nat /\ Limit > 0 /\ Shards \in Nat /\ Shards > 0
  BY SweepAssumption DEF SweepAssumption
<1> QED
  BY <1>1, <1>2 DEF PerShardLimit

-----------------------------------------------------------------------------
(* Types.                                                                   *)

LEMMA MatchingRows ==
  ASSUME NEW q, NEW st
  PROVE  Matching(q, st) \subseteq Row
BY DEF Matching

LEMMA SweepInitTypes == Init => TypeOK
<1> SUFFICES ASSUME Init PROVE TypeOK
  OBVIOUS
<1>1. shard \in 0..Shards /\ startKey \in 0..Rows /\ moves \in 0..MaxMoves
  BY SweepAssumption DEF SweepAssumption, Init
<1>2. count \in 0..(PerShardLimit - 1)
  BY ShardLimitPositive DEF Init
<1>3. steady \subseteq Row
  BY MatchingRows DEF Init
<1> QED
  BY <1>1, <1>2, <1>3 DEF Init, TypeOK

\* What a query returns: n is positive, and its page is a part of what it evaluates.
LEMMA PageFacts ==
  ASSUME TypeOK, Querying, shard < Shards,
         NEW n, n = PerShardLimit - count,
         NEW page, page = Evaluated(n) \cap Matching(query, state)
  PROVE  /\ n \in Nat /\ n > 0
         /\ count \in Nat /\ shard \in Nat /\ shard + 1 \in 0..Shards
         /\ Evaluated(n) \subseteq Row /\ page \subseteq Row
         /\ \A i \in Evaluated(n) : shardOf[i] = shard /\ i > startKey
         /\ Cardinality(page) \in Nat
         /\ MorePages(n) => /\ ResumeKey(n) \in Evaluated(n)
                           /\ \A i \in Evaluated(n) : i <= ResumeKey(n)
<1> DEFINE shardRows ==
      {r \in Row : state[r] \in Partition(query) /\ shardOf[r] = shard /\ r > startKey}
<1>1. n \in Nat /\ n > 0 /\ count \in Nat
  BY ShardLimitPositive DEF TypeOK
<1>2. shard \in Nat /\ shard + 1 \in 0..Shards
  BY SweepAssumption DEF SweepAssumption, TypeOK
<1>3. Evaluated(n) = Oldest(n, shardRows) /\ shardRows \subseteq Row
  BY DEF Evaluated
<1>4. Evaluated(n) \subseteq shardRows
  BY <1>1, <1>3, OldestFirst
<1>5. Cardinality(page) \in Nat
  BY <1>4, RowsFinite
<1>6. ASSUME MorePages(n)
      PROVE  ResumeKey(n) \in Evaluated(n) /\ \A i \in Evaluated(n) : i <= ResumeKey(n)
  <2>1. Evaluated(n) # {}
    BY <1>1, <1>6, FS_EmptySet DEF MorePages
  <2> QED
    BY <1>3, <1>4, <2>1, MaxRow DEF ResumeKey
<1> QED
  BY <1>1, <1>2, <1>4, <1>5, <1>6

LEMMA PageTypes ==
  ASSUME TypeOK, QueryPage
  PROVE  TypeOK'
<1> DEFINE n    == PerShardLimit - count
           page == Evaluated(n) \cap Matching(query, state)
           full == count + Cardinality(page) >= PerShardLimit
<1>1. /\ n \in Nat /\ n > 0 /\ count \in Nat /\ shard + 1 \in 0..Shards
      /\ Evaluated(n) \subseteq Row /\ page \subseteq Row /\ Cardinality(page) \in Nat
      /\ MorePages(n) => ResumeKey(n) \in Evaluated(n)
  BY PageFacts DEF QueryPage
<1>2. items' = items \cup page
  BY DEF QueryPage
<1>3. shard' \in 0..Shards /\ startKey' \in 0..Rows /\ count' \in 0..(PerShardLimit - 1)
  <2> HIDE DEF n, page
  <2>1. CASE MorePages(n) /\ ~full
    <3>1. startKey' = ResumeKey(n) /\ count' = count + Cardinality(page) /\ shard' = shard
      BY <2>1 DEF QueryPage, n, page
    <3>2. startKey' \in 0..Rows
      BY <1>1, <2>1, <3>1, RowsNatural, SweepAssumption DEF SweepAssumption, Row
    <3> QED
      BY <1>1, <2>1, <3>1, <3>2, ShardLimitPositive DEF TypeOK
  <2>2. CASE ~(MorePages(n) /\ ~full)
    <3>1. NextShard
      BY <2>2 DEF QueryPage, n, page
    <3> QED
      BY <1>1, <3>1, ShardLimitPositive, SweepAssumption DEF SweepAssumption, NextShard
  <2> QED
    BY <2>1, <2>2
<1> QED
  BY <1>1, <1>2, <1>3 DEF QueryPage, TypeOK, data

LEMMA LoopTypes ==
  ASSUME TypeOK, Loop
  PROVE  TypeOK'
<1>1. PICK u \in unique : ConvertRaises(u) \/ TrySucceeds(u) \/ TryFails(u)
  BY DEF Loop
<1>2. u[2] \in Row
  BY DEF TypeOK
<1>3. AfterError(u[2]) \subseteq State
  BY <1>2 DEF AfterError, TypeOK, State
<1>4. state' \in [Row -> State]
  BY <1>1, <1>2, <1>3 DEF ConvertRaises, TrySucceeds, TryFails, TypeOK, State
<1>5. taken' = taken \cup {u} /\ outcome' \in {"running", "returned", "raised"}
  BY <1>1 DEF ConvertRaises, TrySucceeds, TryFails, TypeOK
<1>6. UNCHANGED <<data, moves, walk>>
  BY <1>1 DEF ConvertRaises, TrySucceeds, TryFails
<1> QED
  BY <1>4, <1>5, <1>6 DEF TypeOK, data, walk

LEMMA OthersTypes ==
  ASSUME TypeOK, Others
  PROVE  TypeOK'
<1>1. PICK r \in Row, states \in SUBSET State : Move(r, states)
  <2>1. PICK r \in Row : OtherClaims(r) \/ OtherSettles(r) \/ LeaseExpires(r)
    BY DEF Others
  <2>2. {"PUBLISHING"} \subseteq State /\ {"PUBLISHED", "FAILED", "FAILED exhausted"} \subseteq State
        /\ {"PUBLISHING expired"} \subseteq State
    BY DEF State
  <2> QED
    BY <2>1, <2>2 DEF OtherClaims, OtherSettles, LeaseExpires
<1>2. state' \in [Row -> State] /\ moves' \in 0..MaxMoves /\ steady' \subseteq Row
  BY <1>1, SweepAssumption DEF SweepAssumption, Move, TypeOK
<1> QED
  BY <1>1, <1>2 DEF Move, TypeOK, data

LEMMA SweepTypes == TypeOK /\ [Next]_vars => TypeOK'
<1> SUFFICES ASSUME TypeOK, [Next]_vars PROVE TypeOK'
  OBVIOUS
<1>1. CASE QueryPage
  BY <1>1, PageTypes
<1>2. CASE EndQuery
  <2>1. unique' \subseteq Query \X Row
    <3>1. Oldest(Limit, items) \subseteq Row
      BY OldestFirst, SweepAssumption DEF SweepAssumption, TypeOK
    <3> QED
      BY <1>2, <3>1 DEF EndQuery, Querying, AddUnique, TypeOK
  <2>2. query' \in 1..4 /\ steady' \subseteq Row /\ shard' \in 0..Shards
    BY <1>2, MatchingRows, SweepAssumption DEF SweepAssumption, EndQuery, Querying, Query
  <2>3. taken' \subseteq unique'
    BY <1>2 DEF EndQuery, AddUnique, TypeOK
  <2> QED
    BY <1>2, <2>1, <2>2, <2>3 DEF EndQuery, TypeOK, data
<1>3. CASE Loop
  BY <1>3, LoopTypes
<1>4. CASE Return \/ QueryRaises \/ UNCHANGED vars
  BY <1>4 DEF Return, QueryRaises, vars, walk, data, TypeOK
<1>5. CASE Others
  BY <1>5, OthersTypes
<1> QED
  BY <1>1, <1>2, <1>3, <1>4, <1>5 DEF Next, Cycle

\* Every variable of the cycle keeps its type: the count of a shard stays below
\* its limit, so each query asks for at least one row.
THEOREM SweepTypeCorrect == Spec => []TypeOK
BY SweepInitTypes, SweepTypes, PTL DEF Spec

-----------------------------------------------------------------------------
(* No row is skipped: what the pages of a call have passed, they have found, *)
(* or the limit of its shard was filled by older rows.                       *)

Older(r) == {i \in items : shardOf[i] = shardOf[r] /\ i < r}

Found(r) == r \in items \/ Cardinality(Older(r)) >= PerShardLimit

\* The rows the next page of the call does not look at any more.
Passed(r) == shardOf[r] < shard \/ (shardOf[r] = shard /\ r <= startKey)

InShard == {i \in items : shardOf[i] = shard}

WalkInv ==
  query \in Query =>
    /\ steady \subseteq Matching(query, state)
    /\ \A i \in items : Passed(i)
    /\ count = Cardinality(InShard)
    /\ \A r \in steady : Passed(r) => Found(r)
    /\ shard = Shards => startKey = 0

LEMMA WalkInit == Init => WalkInv
<1> SUFFICES ASSUME Init PROVE WalkInv
  OBVIOUS
<1>1. \A r \in Row : ~Passed(r)
  BY RowsNatural DEF Init, Passed, Shard, Row
<1>2. count = Cardinality(InShard)
  BY FS_EmptySet DEF Init, InShard
<1>3. Matching(1, state) \subseteq Row
  BY MatchingRows
<1> QED
  BY <1>1, <1>2, <1>3 DEF Init, WalkInv

\* More items take nothing away from what was found.
LEMMA FoundForGood ==
  ASSUME TypeOK, items \subseteq items', items' \subseteq Row, shardOf' = shardOf, NEW r, Found(r)
  PROVE  Found(r)'
<1>1. Older(r) \subseteq Older(r)' /\ Older(r)' \subseteq Row
  BY DEF Older
<1>2. /\ Cardinality(Older(r)) <= Cardinality(Older(r)')
      /\ Cardinality(Older(r)) \in Nat /\ Cardinality(Older(r)') \in Nat
  BY <1>1, RowsFinite
<1> QED
  BY <1>2, ShardLimitPositive DEF Found

\* A page adds only rows of its shard that the shard has not given before.
LEMMA PageAdds ==
  ASSUME TypeOK, WalkInv, Querying, shard < Shards,
         NEW n, n = PerShardLimit - count,
         NEW page, page = Evaluated(n) \cap Matching(query, state)
  PROVE  Cardinality(InShard \cup page) = count + Cardinality(page)
<1>1. InShard \subseteq Row /\ page \subseteq Row
  BY PageFacts DEF InShard, TypeOK
<1>2. IsFiniteSet(InShard) /\ IsFiniteSet(page)
  BY <1>1, RowsFinite
<1>3. InShard \cap page = {}
  <2> SUFFICES ASSUME NEW i \in InShard, i \in page PROVE FALSE
    OBVIOUS
  <2>1. i > startKey
    BY PageFacts
  <2>2. shardOf[i] = shard /\ Passed(i)
    BY DEF InShard, WalkInv, Querying
  <2>3. i \in Nat /\ startKey \in Nat /\ shard \in Nat
    BY <1>1, RowsNatural, SweepAssumption DEF SweepAssumption, TypeOK
  <2> QED
    BY <2>1, <2>2, <2>3 DEF Passed
<1>4. Cardinality(InShard \cup page) = Cardinality(InShard) + Cardinality(page) - Cardinality({})
  BY <1>2, <1>3, FS_Union
<1>5. Cardinality(InShard) \in Nat /\ Cardinality(page) \in Nat /\ Cardinality({}) = 0
  BY <1>2, FS_CardinalityType, FS_EmptySet
<1>6. Cardinality(InShard) = count
  BY DEF WalkInv, Querying
<1> QED
  BY <1>4, <1>5, <1>6

\* A row the call has to find is among those a page passes, is kept for a later
\* page, or is kept out by older rows that fill the limit.
LEMMA PageFinds ==
  ASSUME TypeOK, WalkInv, QueryPage, NEW r \in steady, Passed(r)'
  PROVE  Found(r)'
<1> DEFINE n    == PerShardLimit - count
           page == Evaluated(n) \cap Matching(query, state)
           full == count + Cardinality(page) >= PerShardLimit
           shardRows ==
             {q \in Row : state[q] \in Partition(query) /\ shardOf[q] = shard /\ q > startKey}
<1>a. Querying /\ shard < Shards /\ shardOf' = shardOf /\ items' = items \cup page
  BY DEF QueryPage, data
<1>b. r \in Row /\ r \in Nat /\ startKey \in Nat /\ shard \in Nat /\ shardOf[r] \in Nat
  BY RowsNatural, SweepAssumption DEF SweepAssumption, TypeOK, Shard
<1>c. items' \subseteq Row /\ items \subseteq items'
  BY <1>a, PageTypes DEF TypeOK
<1>1. CASE Passed(r)
  <2>1. Found(r)
    BY <1>1, <1>a DEF WalkInv, Querying
  <2> QED
    BY <1>a, <1>c, <2>1, FoundForGood
<1>2. CASE r \in page
  BY <1>2, <1>a DEF Found
<1>3. CASE ~Passed(r) /\ r \notin page
  <2>1. shardOf[r] = shard
    <3>1. shard' = shard \/ (shard' = shard + 1 /\ startKey' = 0)
      BY DEF QueryPage, NextShard
    <3>2. r > 0
      BY <1>b DEF Row
    <3> HIDE DEF n, page, full, shardRows
    <3>3. shardOf[r] < shard' \/ (shardOf[r] = shard' /\ startKey' # 0)
      BY <1>a, <1>b, <3>2 DEF Passed
    <3> QED
      BY <1>3, <1>b, <3>1, <3>3 DEF Passed
  <2>2. r > startKey
    BY <1>3, <1>b, <2>1 DEF Passed
  <2>3. r \in Matching(query, state)
    BY <1>a DEF WalkInv, Querying
  <2>4. r \in shardRows
    BY <1>a, <1>b, <2>1, <2>2, <2>3 DEF Matching, Passing
  <2>5. r \notin Evaluated(n)
    BY <1>3, <2>3
  <2>6. Evaluated(n) = Oldest(n, shardRows) /\ shardRows \subseteq Row /\ n \in Nat
    BY <1>a, PageFacts DEF Evaluated
  <2>7. Cardinality(Evaluated(n)) = n
    <3>1. Cardinality(Evaluated(n)) \in Nat
      BY <1>a, PageFacts, RowsFinite
    <3> HIDE DEF shardRows, n
    <3> QED
      BY <2>4, <2>5, <2>6, <3>1, FullPage, PageLimit
  <2>8. MorePages(n) /\ \A i \in Evaluated(n) : i < r
    <3> HIDE DEF shardRows, n
    <3> QED
      BY <2>4, <2>5, <2>6, <2>7, OldestFirst DEF MorePages
  <2>9. full
    <3> SUFFICES ASSUME ~full PROVE FALSE
      OBVIOUS
    <3>1. startKey' = ResumeKey(n) /\ shard' = shard
      BY <2>8 DEF QueryPage
    <3>2. ResumeKey(n) \in Evaluated(n) /\ Evaluated(n) \subseteq Row
      BY <1>a, <2>8, PageFacts
    <3>3. ResumeKey(n) < r /\ ResumeKey(n) \in Nat
      BY <2>8, <3>2, RowsNatural
    <3> HIDE DEF n, page, full, shardRows
    <3> QED
      BY <1>a, <1>b, <2>1, <3>1, <3>3 DEF Passed
  <2>10. InShard \cup page \subseteq Older(r)'
    <3>1. \A i \in page : i \in items' /\ shardOf[i] = shard /\ i < r
      BY <1>a, <2>8, PageFacts
    <3>2. ASSUME NEW i \in InShard PROVE i \in items' /\ shardOf[i] = shard /\ i < r
      <4>1. i \in items /\ shardOf[i] = shard /\ Passed(i)
        BY <1>a DEF InShard, WalkInv, Querying
      <4>2. i \in Nat
        BY <4>1, RowsNatural DEF TypeOK
      <4>3. i <= startKey
        BY <1>b, <4>1 DEF Passed
      <4> HIDE DEF n, page, full, shardRows
      <4> QED
        BY <1>a, <1>b, <2>2, <4>1, <4>2, <4>3
    <3> HIDE DEF n, page, full, shardRows
    <3> QED
      BY <1>a, <2>1, <3>1, <3>2 DEF Older
  <2>11. Older(r)' \subseteq Row
    BY <1>c DEF Older
  <2>12. /\ Cardinality(InShard \cup page) <= Cardinality(Older(r)')
         /\ Cardinality(Older(r)') \in Nat
    BY <2>10, <2>11, RowsFinite
  <2>13. Cardinality(InShard \cup page) = count + Cardinality(page) /\ Cardinality(page) \in Nat
         /\ count \in Nat
    BY <1>a, PageAdds, PageFacts
  <2> HIDE DEF n, page
  <2> QED
    BY <2>9, <2>12, <2>13, ShardLimitPositive DEF Found
<1> QED
  BY <1>1, <1>2, <1>3

LEMMA PageWalks ==
  ASSUME TypeOK, WalkInv, QueryPage
  PROVE  WalkInv'
<1> DEFINE n    == PerShardLimit - count
           page == Evaluated(n) \cap Matching(query, state)
           full == count + Cardinality(page) >= PerShardLimit
<1>a. /\ Querying /\ shard < Shards /\ items' = items \cup page
      /\ UNCHANGED <<shardOf, state, query, steady>>
  BY DEF QueryPage, data
<1>b. startKey \in Nat /\ shard \in Nat /\ Shards \in Nat
  BY SweepAssumption DEF SweepAssumption, TypeOK
<1>c. \A i \in items : i \in Nat /\ shardOf[i] \in Nat /\ Passed(i)
  BY <1>a, RowsNatural DEF WalkInv, Querying, TypeOK, Shard
<1>d. \A i \in page : i \in Nat /\ shardOf[i] = shard /\ i > startKey
  BY <1>a, PageFacts, RowsNatural
<1>1. CASE MorePages(n) /\ ~full
  <2>1. startKey' = ResumeKey(n) /\ count' = count + Cardinality(page) /\ shard' = shard
    BY <1>1 DEF QueryPage
  <2>2. \A i \in page : i <= startKey'
    BY <1>a, <1>1, <2>1, PageFacts
  <2>3. startKey' > startKey /\ startKey' \in Nat
    <3>1. ResumeKey(n) \in Evaluated(n) /\ Evaluated(n) \subseteq Row
      BY <1>a, <1>1, PageFacts
    <3>2. ResumeKey(n) > startKey
      BY <1>a, <3>1, PageFacts
    <3> QED
      BY <2>1, <3>1, <3>2, RowsNatural
  <2>4. InShard' = InShard \cup page
    <3> HIDE DEF n, page, full
    <3> QED
      BY <1>a, <1>d, <2>1 DEF InShard
  <2>5. count' = Cardinality(InShard')
    BY <1>a, <2>1, <2>4, PageAdds
  <2>6. \A i \in items' : Passed(i)'
    <3> HIDE DEF n, page, full
    <3> SUFFICES ASSUME NEW i \in items' PROVE Passed(i)'
      OBVIOUS
    <3>1. CASE i \in page
      BY <1>a, <1>d, <2>1, <2>2, <3>1 DEF Passed
    <3>2. CASE i \in items
      BY <1>a, <1>b, <1>c, <2>1, <2>3, <3>2 DEF Passed
    <3> QED
      BY <1>a, <3>1, <3>2
  <2>7. shard' # Shards
    BY <1>a, <1>b, <2>1
  <2> HIDE DEF n, page, full
  <2> QED
    BY <1>a, <2>5, <2>6, <2>7, PageFinds DEF WalkInv, Querying
<1>2. CASE ~(MorePages(n) /\ ~full)
  <2>1. shard' = shard + 1 /\ startKey' = 0 /\ count' = 0
    BY <1>2 DEF QueryPage, NextShard
  <2> HIDE DEF n, page, full
  <2>2. \A i \in items' : shardOf[i] \in Nat /\ shardOf[i] <= shard
    BY <1>a, <1>b, <1>c, <1>d DEF Passed
  <2>3. \A i \in items' : Passed(i)'
    BY <1>a, <1>b, <2>1, <2>2 DEF Passed
  <2>4. InShard' = {}
    BY <1>a, <1>b, <2>1, <2>2 DEF InShard
  <2>5. count' = Cardinality(InShard')
    BY <2>1, <2>4, FS_EmptySet
  <2> QED
    BY <1>a, <2>1, <2>3, <2>5, PageFinds DEF WalkInv, Querying
<1> QED
  BY <1>1, <1>2

LEMMA EndQueryWalks ==
  ASSUME TypeOK, WalkInv, EndQuery
  PROVE  WalkInv'
<1>1. \A i \in items : shardOf[i] < shard /\ shardOf[i] \in Nat
  BY SweepAssumption DEF SweepAssumption, EndQuery, TypeOK, Shard
<1>2. InShard = {} /\ shard \in Nat
  BY <1>1, SweepAssumption DEF SweepAssumption, InShard, TypeOK
<1>3. count = 0 /\ startKey = 0
  BY <1>2, FS_EmptySet DEF WalkInv, EndQuery, Querying
<1>4. count' = Cardinality(InShard')
  BY <1>3, FS_EmptySet DEF EndQuery, InShard
<1>5. \A r \in steady' : ~Passed(r)'
  <2> SUFFICES ASSUME NEW r \in steady' PROVE ~Passed(r)'
    OBVIOUS
  <2>1. r \in Row
    BY MatchingRows DEF EndQuery
  <2>2. r > 0 /\ r \in Nat /\ shardOf[r] \in Nat
    BY <2>1, RowsNatural DEF Row, TypeOK, Shard
  <2>3. shardOf' = shardOf /\ shard' = 0 /\ startKey' = 0
    BY <1>3 DEF EndQuery, data
  <2> QED
    BY <2>2, <2>3 DEF Passed
<1>6. /\ items' = {} /\ startKey' = 0
      /\ steady' \subseteq Matching(query', state')
  BY <1>3 DEF EndQuery
<1> QED
  BY <1>4, <1>5, <1>6 DEF WalkInv

LEMMA WalkStep == TypeOK /\ WalkInv /\ [Next]_vars => WalkInv'
<1> SUFFICES ASSUME TypeOK, WalkInv, [Next]_vars PROVE WalkInv'
  OBVIOUS
<1>1. CASE QueryPage
  BY <1>1, PageWalks
<1>2. CASE EndQuery
  BY <1>2, EndQueryWalks
<1>3. CASE Loop \/ Return
  <2>1. query' \notin Query
    BY <1>3 DEF Loop, ConvertRaises, TrySucceeds, TryFails, IsNext, Return, walk
  <2> QED
    BY <2>1 DEF WalkInv
<1>4. CASE Others
  <2>1. /\ UNCHANGED <<shardOf, query, shard, startKey, count, items>>
        /\ steady' = steady \cap Matching(query, state')
    BY <1>4 DEF Others, OtherClaims, OtherSettles, LeaseExpires, Move, data
  <2> QED
    BY <2>1 DEF WalkInv, Passed, Found, Older, InShard
<1>5. CASE QueryRaises \/ UNCHANGED vars
  BY <1>5 DEF QueryRaises, vars, walk, data, WalkInv, Passed, Found, Older, InShard, Matching
<1> QED
  BY <1>1, <1>2, <1>3, <1>4, <1>5 DEF Next, Cycle

THEOREM WalkInvariant == Spec => [](TypeOK /\ WalkInv)
BY SweepInitTypes, SweepTypes, WalkInit, WalkStep, PTL DEF Spec

\* What a call returns, for a row it had to find.
LEMMA CallFinds ==
  ASSUME TypeOK, WalkInv, EndQuery, NEW r \in steady
  PROVE  \/ \E u \in unique' : u[2] = r
         \/ Cardinality(Older(r)) >= PerShardLimit
         \/ Cardinality({i \in items : i < r}) >= Limit
<1>1. Passed(r)
  BY SweepAssumption DEF SweepAssumption, EndQuery, Passed, TypeOK, Shard
<1>2. Found(r)
  BY <1>1 DEF EndQuery, Querying, WalkInv
<1>3. CASE r \in Oldest(Limit, items)
  <2>1. CASE \A u \in unique : u[2] # r
    <3>1. <<query, r>> \in unique'
      BY <1>3, <2>1 DEF EndQuery, AddUnique
    <3> QED
      BY <3>1
  <2>2. CASE \E u \in unique : u[2] = r
    BY <2>2 DEF EndQuery, AddUnique
  <2> QED
    BY <2>1, <2>2
<1>4. CASE r \in items \ Oldest(Limit, items)
  <2>1. Cardinality({i \in items : i < r}) \in Nat
    BY RowsFinite DEF TypeOK
  <2> QED
    BY <1>4, <2>1, SweepAssumption DEF SweepAssumption, Oldest
<1> QED
  BY <1>2, <1>3, <1>4 DEF Found

\* _query_retryable starves no row: one that stays retryable while its status is
\* queried is found, whatever others move, unless older rows fill a limit.
THEOREM NoRowStarves == Spec => FoundUnlessOlderFill
<1> DEFINE Finds ==
      query' # query =>
        \A r \in steady :
          \/ \E u \in unique' : u[2] = r
          \/ Cardinality({i \in items : shardOf[i] = shardOf[r] /\ i < r}) >= PerShardLimit
          \/ Cardinality({i \in items : i < r}) >= Limit
<1>1. TypeOK /\ WalkInv /\ [Next]_vars => [Finds]_vars
  <2> SUFFICES ASSUME TypeOK, WalkInv, Next, query' # query PROVE Finds
    OBVIOUS
  <2>1. EndQuery
    BY DEF Next, Cycle, Loop, ConvertRaises, TrySucceeds, TryFails, Return, QueryPage,
           QueryRaises, Others, OtherClaims, OtherSettles, LeaseExpires, Move, walk
  <2> QED
    BY <2>1, CallFinds DEF Older
<1> QED
  BY <1>1, WalkInvariant, PTL DEF Spec, FoundUnlessOlderFill
=============================================================================
