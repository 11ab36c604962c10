------------------------- MODULE LeaseTimingProofs -------------------------
(***************************************************************************)
(* Proofs about LeaseTiming, for any number of workers and receives and    *)
(* any times of which the function's limit is the shortest: a running      *)
(* Lambda invocation keeps the claim it has.  The lease and the age of the *)
(* invocation that holds it always make up the whole lease, so that it     *)
(* cannot run out within an invocation; one it leaves behind costs few     *)
(* receives; and without a fault no message is lost.                       *)
(***************************************************************************)
EXTENDS LeaseTiming, FiniteSetTheorems, TLAPS

Active == {w \in Worker : phase[w] # "idle"}

\* What has the type of a state, without the histories.
StateTypeOK ==
  /\ mode \in {"lambda", "ecs"}
  /\ place \in {"queue", "deleted", "dlq"}
  /\ hidden \in 0..Visibility
  /\ receives \in 0..MaxReceive
  /\ receiver \in Worker \cup {NoWorker}
  /\ phase \in [Worker -> {"idle", "received", "working"}]
  /\ age \in [Worker -> 0..Timeout]
  /\ status \in {"NONE", "PROCESSING", "FAILED", "COMPLETED"}
  /\ owner \in Worker \cup {NoWorker}
  /\ lease \in 0..Lease

\* Every receive ends in one refusal or one fault at most.
AttemptsCounted ==
  /\ refusals \in Nat /\ faults \in Nat
  /\ refusals + faults + Cardinality(Active) <= receives

\* The claim of a Lambda lasts as long as the invocation may still take, and longer.
LeaseCovers ==
  mode = "lambda" =>
    \A w \in Worker : phase[w] = "working" => owner = w /\ lease + age[w] >= Lease

TimingInv == StateTypeOK /\ AttemptsCounted /\ LeaseCovers

-----------------------------------------------------------------------------
(* The set of workers at an attempt.                                        *)

LEMMA ActiveFinite ==
  /\ IsFiniteSet(Active) /\ Cardinality(Active) \in Nat
  /\ IsFiniteSet(Active') /\ Cardinality(Active') \in Nat
<1>1. IsFiniteSet(Worker)
  BY TimingAssumption DEF TimingAssumption
<1>2. Active \subseteq Worker /\ Active' \subseteq Worker
  BY DEF Active
<1> QED
  BY <1>1, <1>2, FS_Subset, FS_CardinalityType

LEMMA WorkerStarts ==
  ASSUME StateTypeOK, NEW w \in Worker, phase[w] = "idle",
         phase' = [phase EXCEPT ![w] = "received"]
  PROVE  Cardinality(Active') = Cardinality(Active) + 1
<1>1. Active' = Active \cup {w} /\ w \notin Active
  BY DEF Active, StateTypeOK
<1> QED
  BY <1>1, ActiveFinite, FS_AddElement

LEMMA WorkerStops ==
  ASSUME StateTypeOK, NEW w \in Worker, phase[w] # "idle", Idle(w)
  PROVE  Cardinality(Active') = Cardinality(Active) - 1
<1>1. Active' = Active \ {w} /\ w \in Active
  BY DEF Active, StateTypeOK, Idle
<1> QED
  BY <1>1, ActiveFinite, FS_RemoveElement

-----------------------------------------------------------------------------
(* The invariant holds initially, and every step keeps it.                  *)

LEMMA TimingInit == Init => TimingInv
<1> SUFFICES ASSUME Init PROVE TimingInv
  OBVIOUS
<1>1. StateTypeOK
  BY TimingAssumption DEF TimingAssumption, Init, StateTypeOK
<1>2. Cardinality(Active) = 0
  <2>1. Active = {}
    BY DEF Init, Active
  <2> QED
    BY <2>1, FS_EmptySet
<1>3. AttemptsCounted
  BY <1>2 DEF Init, AttemptsCounted
<1>4. LeaseCovers
  BY DEF Init, LeaseCovers
<1> QED
  BY <1>1, <1>3, <1>4 DEF TimingInv

\* What the end of an attempt does to the worker and the invariant, whatever it
\* does to the message.
LEMMA IdleKeeps ==
  ASSUME TimingInv, NEW w \in Worker, phase[w] # "idle", Idle(w), UNCHANGED <<mode, receives>>
  PROVE  /\ phase' \in [Worker -> {"idle", "received", "working"}]
         /\ age' \in [Worker -> 0..Timeout]
         /\ Cardinality(Active') = Cardinality(Active) - 1
         /\ \A v \in Worker :
              phase'[v] = "working" => phase[v] = "working" /\ age'[v] = age[v] /\ v # w
<1>1. 0 \in 0..Timeout
  BY TimingAssumption DEF TimingAssumption
<1> QED
  BY <1>1, WorkerStops DEF TimingInv, StateTypeOK, Idle

LEMMA AnswersType ==
  ASSUME StateTypeOK, NEW w \in Worker, Delete(w) \/ Reject(w)
  PROVE  /\ place' \in {"queue", "deleted", "dlq"}
         /\ hidden' \in 0..Visibility
         /\ UNCHANGED <<receives, receiver>>
<1>1. 0 \in 0..Visibility
  BY TimingAssumption DEF TimingAssumption
<1>2. CASE Delete(w)
  BY <1>2 DEF Delete, StateTypeOK
<1>3. CASE Reject(w)
  BY <1>1, <1>3 DEF Reject, StateTypeOK
<1> QED
  BY <1>2, <1>3

LEMMA ReceiveKeeps ==
  ASSUME TimingInv, NEW w \in Worker, Receive(w)
  PROVE  TimingInv'
<1>1. StateTypeOK'
  BY TimingAssumption DEF TimingAssumption, TimingInv, StateTypeOK, Receive, row
<1>2. AttemptsCounted'
  <2>1. phase[w] = "idle" /\ phase' = [phase EXCEPT ![w] = "received"] /\ StateTypeOK
    BY DEF TimingInv, Receive
  <2>2. Cardinality(Active') = Cardinality(Active) + 1
    BY <2>1, WorkerStarts
  <2>3. Cardinality(Active) \in Nat
    BY ActiveFinite
  <2> QED
    BY <2>2, <2>3 DEF TimingInv, StateTypeOK, AttemptsCounted, Receive, history
<1>3. LeaseCovers'
  BY DEF TimingInv, StateTypeOK, LeaseCovers, Receive, row
<1> QED
  BY <1>1, <1>2, <1>3 DEF TimingInv

LEMMA ClaimKeeps ==
  ASSUME TimingInv, NEW w \in Worker, Claim(w)
  PROVE  TimingInv'
<1>1. StateTypeOK'
  BY TimingAssumption DEF TimingAssumption, TimingInv, StateTypeOK, Claim, ClaimTime, queue
<1>2. AttemptsCounted'
  <2>1. Active' = Active
    BY DEF TimingInv, StateTypeOK, Active, Claim
  <2> QED
    BY <2>1, ActiveFinite DEF TimingInv, StateTypeOK, AttemptsCounted, Claim, queue
<1>3. LeaseCovers'
  <2> SUFFICES ASSUME mode = "lambda", NEW v \in Worker, phase'[v] = "working"
               PROVE  owner' = v /\ lease' + age'[v] >= Lease
    BY DEF LeaseCovers, Claim
  \* Whoever else worked would own a lease that has not expired.
  <2>1. v = w
    <3> SUFFICES ASSUME v # w PROVE FALSE
      OBVIOUS
    <3>1. phase[v] = "working" /\ v # NoWorker
      BY TimingAssumption DEF TimingAssumption, TimingInv, StateTypeOK, Claim
    <3>2. owner = v /\ lease + age[v] >= Lease /\ age[v] \in 0..Timeout
      BY <3>1 DEF TimingInv, StateTypeOK, LeaseCovers
    <3>3. lease = 0
      BY <3>1, <3>2 DEF Claim, Claimable
    <3> QED
      BY <3>2, <3>3, TimingAssumption DEF TimingAssumption
  <2>2. owner' = w /\ lease' = Lease /\ age' = age /\ age[w] \in 0..Timeout
    BY DEF Claim, ClaimTime, TimingInv, StateTypeOK
  <2> QED
    BY <2>1, <2>2, TimingAssumption DEF TimingAssumption
<1> QED
  BY <1>1, <1>2, <1>3 DEF TimingInv

\* An attempt that ends leaves the row alone, or was the only one to work on it.
LEMMA EndKeeps ==
  ASSUME TimingInv, NEW w \in Worker,
         Refused(w) \/ AlreadyCompleted(w) \/ Complete(w) \/ Fail(w) \/ Fenced(w) \/ Crash(w)
  PROVE  TimingInv'
<1>1. /\ phase[w] # "idle" /\ Idle(w)
      /\ UNCHANGED <<mode, receives>>
  BY DEF Refused, AlreadyCompleted, Complete, Fail, Fenced, Crash, Delete, Reject, queue
<1>2. /\ place' \in {"queue", "deleted", "dlq"}
      /\ hidden' \in 0..Visibility
      /\ UNCHANGED receiver
  BY AnswersType
  DEF TimingInv, StateTypeOK, Refused, AlreadyCompleted, Complete, Fail, Fenced, Crash, queue
<1>3. \/ UNCHANGED row
      \/ owner = w /\ status' \in {"COMPLETED", "FAILED"} /\ owner' = NoWorker /\ lease' = 0
  BY DEF Refused, AlreadyCompleted, Complete, Fail, Fenced, Crash, row, history
<1>4. /\ refusals' \in {refusals, refusals + 1} /\ faults' \in {faults, faults + 1}
      /\ refusals' = refusals \/ faults' = faults
  BY DEF Refused, AlreadyCompleted, Complete, Fail, Fenced, Crash, history
<1>5. StateTypeOK'
  <2>1. status' \in {"NONE", "PROCESSING", "FAILED", "COMPLETED"}
        /\ owner' \in Worker \cup {NoWorker} /\ lease' \in 0..Lease
    BY <1>3, TimingAssumption DEF TimingAssumption, TimingInv, StateTypeOK, row
  <2> QED
    BY <1>1, <1>2, <2>1, IdleKeeps DEF TimingInv, StateTypeOK
<1>6. AttemptsCounted'
  BY <1>1, <1>4, IdleKeeps, ActiveFinite DEF TimingInv, StateTypeOK, AttemptsCounted
<1>7. LeaseCovers'
  <2> SUFFICES ASSUME mode = "lambda", NEW v \in Worker, phase'[v] = "working"
               PROVE  owner' = v /\ lease' + age'[v] >= Lease
    BY <1>1 DEF LeaseCovers
  <2>1. phase[v] = "working" /\ age'[v] = age[v] /\ v # w
    BY <1>1, IdleKeeps
  <2>2. owner = v /\ lease + age[v] >= Lease
    BY <2>1 DEF TimingInv, LeaseCovers
  <2> QED
    BY <1>3, <2>1, <2>2 DEF row
<1> QED
  BY <1>5, <1>6, <1>7 DEF TimingInv

LEMMA TickKeeps ==
  ASSUME TimingInv, Tick
  PROVE  TimingInv'
<1>1. ASSUME NEW w \in Worker
      PROVE  /\ age'[w] \in 0..Timeout
             /\ mode = "lambda" /\ phase[w] = "working" => age'[w] = age[w] + 1
  BY TimingAssumption DEF TimingAssumption, TimingInv, StateTypeOK, Tick, Overdue
<1>2. StateTypeOK'
  <2>1. age' \in [Worker -> 0..Timeout]
    <3>1. age' = [w \in Worker |-> age'[w]]
      BY DEF Tick
    <3> QED
      BY <1>1, <3>1
  <2>2. hidden' \in 0..Visibility /\ lease' \in 0..Lease
    BY TimingAssumption DEF TimingAssumption, TimingInv, StateTypeOK, Tick, Less
  <2> QED
    BY <2>1, <2>2 DEF TimingInv, StateTypeOK, Tick
<1>3. AttemptsCounted'
  <2>1. Active' = Active
    BY DEF Active, Tick
  <2> QED
    BY <2>1 DEF TimingInv, AttemptsCounted, Tick, history
<1>4. LeaseCovers'
  <2> SUFFICES ASSUME mode = "lambda", NEW v \in Worker, phase[v] = "working"
               PROVE  owner = v /\ lease' + age'[v] >= Lease
    BY DEF LeaseCovers, Tick
  <2>1. owner = v /\ lease + age[v] >= Lease /\ age[v] \in 0..Timeout /\ lease \in 0..Lease
    BY DEF TimingInv, StateTypeOK, LeaseCovers
  <2>2. age'[v] = age[v] + 1
    BY <1>1
  <2>3. lease' = IF lease = 0 THEN 0 ELSE lease - 1
    BY DEF Tick, Less
  <2> QED
    BY <2>1, <2>2, <2>3, TimingAssumption DEF TimingAssumption
<1> QED
  BY <1>2, <1>3, <1>4 DEF TimingInv

LEMMA TimingStep == TimingInv /\ [Next]_vars => TimingInv'
<1> SUFFICES ASSUME TimingInv, [Next]_vars PROVE TimingInv'
  OBVIOUS
<1>1. CASE \E w \in Worker : Receive(w) \/ Claim(w) \/ Answer(w) \/ Fail(w) \/ Crash(w)
  <2>1. PICK w \in Worker : Receive(w) \/ Claim(w) \/ Answer(w) \/ Fail(w) \/ Crash(w)
    BY <1>1
  <2>2. CASE Receive(w)
    BY <2>2, ReceiveKeeps
  <2>3. CASE Claim(w)
    BY <2>3, ClaimKeeps
  <2>4. CASE Answer(w) \/ Fail(w) \/ Crash(w)
    BY <2>4, EndKeeps DEF Answer
  <2> QED
    BY <2>1, <2>2, <2>3, <2>4
<1>2. CASE Redrive
  <2>1. Active' = Active
    BY <1>2 DEF Redrive, Active
  <2> QED
    BY <1>2, <2>1 DEF Redrive, TimingInv, StateTypeOK, AttemptsCounted, LeaseCovers, row, history
<1>3. CASE Tick
  BY <1>3, TickKeeps
<1>4. CASE UNCHANGED vars
  <2>1. Active' = Active
    BY <1>4 DEF vars, Active
  <2> QED
    BY <1>4, <2>1
    DEF vars, queue, row, history, TimingInv, StateTypeOK, AttemptsCounted, LeaseCovers
<1> QED
  BY <1>1, <1>2, <1>3, <1>4 DEF Next

THEOREM TimingInvariant == Spec => []TimingInv
BY TimingInit, TimingStep, PTL DEF Spec

\* Types, and no more refusals or faults than the message was received.
THEOREM TimingTypeCorrect == Spec => []TypeOK
<1>1. TimingInv => TypeOK
  <2> SUFFICES ASSUME TimingInv PROVE TypeOK
    OBVIOUS
  <2>1. refusals \in 0..MaxReceive /\ faults \in 0..MaxReceive
    BY ActiveFinite, TimingAssumption
    DEF TimingAssumption, TimingInv, StateTypeOK, AttemptsCounted
  <2> QED
    BY <2>1 DEF TimingInv, StateTypeOK, TypeOK
<1> QED
  BY <1>1, TimingInvariant, PTL

\* No running Lambda loses its lease, when its limit is shorter than the lease.
THEOREM LambdaLeaseKept == Spec => []LambdaKeepsLease
<1>1. TimingInv => LambdaKeepsLease
  <2> SUFFICES ASSUME TimingInv, mode = "lambda", NEW w \in Worker, phase[w] = "working"
               PROVE  owner = w /\ lease > 0
    BY DEF LambdaKeepsLease
  <2>1. owner = w /\ lease + age[w] >= Lease /\ age[w] \in 0..Timeout /\ lease \in 0..Lease
    BY DEF TimingInv, StateTypeOK, LeaseCovers
  <2> QED
    BY <2>1, TimingAssumption DEF TimingAssumption
<1> QED
  BY <1>1, TimingInvariant, PTL

-----------------------------------------------------------------------------
(* Without a fault no attempt but one that completes, or that leaves another *)
(* at work, ends: the last worker never goes without the result.             *)

\* As long as nothing went wrong, who owns the row is at work on it, and since
\* the first receive somebody is.
Busy ==
  /\ owner = NoWorker => \A w \in Worker : phase[w] # "working"
  /\ owner # NoWorker => phase[owner] = "working"
  /\ receives > 0 => \E w \in Worker : phase[w] # "idle"

FaultInv ==
  /\ status = "COMPLETED" => owner = NoWorker
  /\ place = "dlq" => receives > 0
  /\ faults = 0 /\ status # "COMPLETED" => Busy

LEMMA FaultInit == Init => FaultInv
BY DEF Init, FaultInv, Busy

LEMMA ReceiveKeepsBusy ==
  ASSUME TimingInv, FaultInv, NEW w \in Worker, Receive(w)
  PROVE  FaultInv'
<1>1. phase' = [phase EXCEPT ![w] = "received"] /\ phase[w] = "idle" /\ UNCHANGED <<row, history, place>>
  BY DEF Receive
<1>2. receives' > 0
  BY DEF Receive, TimingInv, StateTypeOK
<1>3. Busy => Busy'
  BY <1>1, TimingAssumption DEF TimingAssumption, TimingInv, StateTypeOK, Busy, row
<1> QED
  BY <1>1, <1>2, <1>3 DEF FaultInv, row, history

LEMMA ClaimKeepsBusy ==
  ASSUME TimingInv, FaultInv, NEW w \in Worker, Claim(w)
  PROVE  FaultInv'
<1>1. /\ phase' = [phase EXCEPT ![w] = "working"] /\ phase[w] = "received"
      /\ owner' = w /\ w # NoWorker /\ status' = "PROCESSING"
      /\ UNCHANGED <<place, receives>>
  BY TimingAssumption DEF TimingAssumption, Claim, queue
<1>2. Busy'
  BY <1>1 DEF TimingInv, StateTypeOK, Busy
<1> QED
  BY <1>1, <1>2 DEF FaultInv

\* Who is refused or fenced leaves the owner at work.
LEMMA LeavesKeepsBusy ==
  ASSUME TimingInv, FaultInv, NEW w \in Worker, Refused(w) \/ Fenced(w)
  PROVE  FaultInv'
<1>1. /\ phase' = [phase EXCEPT ![w] = "idle"] /\ phase[w] # "idle"
      /\ UNCHANGED <<row, faults, place, receives>>
  BY DEF Refused, Fenced, Idle, Reject, row, history
<1>2. ASSUME faults = 0, status # "COMPLETED", Busy
      PROVE  Busy'
  <2>1. owner # NoWorker /\ owner # w /\ owner \in Worker
    BY <1>2 DEF Busy, Refused, Fenced, Claimable, TimingInv, StateTypeOK
  <2>2. phase[owner] = "working" /\ phase'[owner] = "working"
    BY <1>1, <1>2, <2>1 DEF Busy, TimingInv, StateTypeOK
  <2> QED
    BY <1>1, <2>1, <2>2 DEF Busy, row
<1> QED
  BY <1>1, <1>2 DEF FaultInv, row

LEMMA CompletesKeepsBusy ==
  ASSUME TimingInv, FaultInv, NEW w \in Worker, AlreadyCompleted(w) \/ Complete(w)
  PROVE  FaultInv'
<1>1. status' = "COMPLETED" /\ owner' = NoWorker
  BY DEF AlreadyCompleted, Complete, FaultInv, row
<1>2. (place' = "dlq" => place = "dlq") /\ UNCHANGED receives
  BY DEF AlreadyCompleted, Complete, Delete
<1> QED
  BY <1>1, <1>2 DEF FaultInv

LEMMA FaultsKeepBusy ==
  ASSUME TimingInv, FaultInv, NEW w \in Worker, Fail(w) \/ Crash(w)
  PROVE  FaultInv'
<1>1. faults' # 0 /\ UNCHANGED <<place, receives>>
  BY DEF Fail, Crash, Reject, queue, TimingInv, AttemptsCounted
<1>2. status' = "COMPLETED" => owner' = NoWorker
  BY DEF Fail, Crash, row, FaultInv
<1> QED
  BY <1>1, <1>2 DEF FaultInv

LEMMA FaultStep == TimingInv /\ FaultInv /\ [Next]_vars => FaultInv'
<1> SUFFICES ASSUME TimingInv, FaultInv, [Next]_vars PROVE FaultInv'
  OBVIOUS
<1>1. CASE \E w \in Worker : Receive(w) \/ Claim(w) \/ Answer(w) \/ Fail(w) \/ Crash(w)
  BY <1>1, ReceiveKeepsBusy, ClaimKeepsBusy, LeavesKeepsBusy, CompletesKeepsBusy, FaultsKeepBusy
  DEF Answer
<1>2. CASE Redrive
  BY <1>2, TimingAssumption DEF TimingAssumption, Redrive, FaultInv, Busy, row, history
<1>3. CASE Tick
  BY <1>3 DEF Tick, FaultInv, Busy, history
<1>4. CASE UNCHANGED vars
  BY <1>4 DEF vars, queue, row, history, FaultInv, Busy
<1> QED
  BY <1>1, <1>2, <1>3, <1>4 DEF Next

\* A message that is dead-lettered unprocessed met a fault, unless somebody is
\* still at it: whatever workers lose to each other, they lose to one that goes on.
THEOREM UnprocessedOnlyByFault == Spec => []UnprocessedMeansFault
<1>1. TimingInv /\ FaultInv => UnprocessedMeansFault
  BY DEF TimingInv, AttemptsCounted, FaultInv, Busy, UnprocessedMeansFault
<1> QED
  BY <1>1, FaultInit, FaultStep, TimingInvariant, PTL DEF Spec
-----------------------------------------------------------------------------
(* What an orphaned lease costs.  A Lambda message is hidden for a whole     *)
(* Visibility by every receive, so the receives since the last claim use up  *)
(* the time that lease and age of its claimant made up.                      *)

Cost(n) == n * Visibility

\* Only the last receiver of a Lambda message is at it, and it has been for as
\* long as the message is hidden.
OneAtATime ==
  /\ \A w \in Worker : phase[w] # "idle" => hidden + age[w] = Visibility
  /\ \A v, w \in Worker : phase[v] # "idle" /\ phase[w] # "idle" => v = w

\* A receive that has led neither to a refusal nor to a claim counts already.
LeaseSpent ==
  lease > 0 =>
    /\ lease + Cost(refusals) + (Visibility - hidden) <= Timeout + Lease
    /\ \A w \in Worker : phase[w] = "received" =>
         lease + Cost(refusals + 1) + (Visibility - hidden) <= Timeout + Lease

CostInv == mode = "lambda" => OneAtATime /\ LeaseSpent /\ refusals <= LeaseCost

LEMMA CostStep ==
  ASSUME NEW n \in Nat
  PROVE  Cost(0) = 0 /\ Cost(n) \in Nat /\ Cost(n + 1) = Cost(n) + Visibility
BY TimingAssumption DEF TimingAssumption, Cost

LEMMA Quotient ==
  ASSUME NEW a \in Nat, NEW b \in Nat \ {0}, NEW n \in Nat, n * b <= a
  PROVE  n <= a \div b
BY Z3T(20)

LEMMA CostBound ==
  ASSUME NEW n \in Nat, Cost(n) < Timeout + Lease
  PROVE  n <= LeaseCost
<1>1. Timeout + Lease - 1 \in Nat /\ Visibility \in Nat \ {0}
  BY TimingAssumption DEF TimingAssumption
<1>2. n * Visibility <= Timeout + Lease - 1
  BY CostStep, TimingAssumption DEF TimingAssumption, Cost
<1> QED
  BY <1>1, <1>2, Quotient DEF LeaseCost

LEMMA CostInit == Init => CostInv
<1> SUFFICES ASSUME Init PROVE CostInv
  OBVIOUS
<1>1. OneAtATime /\ LeaseSpent
  BY DEF Init, OneAtATime, LeaseSpent
<1>2. 0 <= LeaseCost
  BY CostStep, CostBound, TimingAssumption DEF TimingAssumption
<1> QED
  BY <1>1, <1>2 DEF Init, CostInv

\* A message that is received was visible, so nobody was at it any more.
LEMMA ReceiveSpends ==
  ASSUME TimingInv, CostInv, NEW w \in Worker, Receive(w)
  PROVE  CostInv'
<1> SUFFICES ASSUME mode = "lambda" PROVE OneAtATime' /\ LeaseSpent' /\ (refusals <= LeaseCost)'
  BY DEF CostInv, Receive
<1>1. hidden = 0 /\ hidden' = Visibility /\ UNCHANGED <<lease, refusals>>
      /\ phase' = [phase EXCEPT ![w] = "received"] /\ age' = [age EXCEPT ![w] = 0]
  BY DEF Receive, Visible, row, history
<1>2. ASSUME NEW v \in Worker PROVE phase[v] = "idle"
  <2>1. age[v] \in 0..Timeout /\ Timeout < Visibility /\ Timeout \in Nat /\ Visibility \in Nat
    BY TimingAssumption DEF TimingAssumption, TimingInv, StateTypeOK
  <2>2. phase[v] # "idle" => 0 + age[v] = Visibility
    BY <1>1 DEF CostInv, OneAtATime
  <2> QED
    BY <2>1, <2>2
<1>3. OneAtATime'
  <2>1. \A v \in Worker : phase'[v] # "idle" => v = w
    BY <1>1, <1>2 DEF TimingInv, StateTypeOK
  <2>2. age'[w] = 0 /\ Visibility \in Nat
    BY <1>1, TimingAssumption DEF TimingAssumption, TimingInv, StateTypeOK
  <2> QED
    BY <1>1, <2>1, <2>2 DEF OneAtATime
<1>4. LeaseSpent'
  <2>1. lease > 0 => lease + Cost(refusals) + (Visibility - 0) <= Timeout + Lease
    BY <1>1 DEF CostInv, LeaseSpent
  <2>2. Cost(refusals) \in Nat /\ Cost(refusals + 1) = Cost(refusals) + Visibility
    BY CostStep DEF TimingInv, AttemptsCounted
  <2> QED
    BY <1>1, <2>1, <2>2, TimingAssumption
    DEF TimingAssumption, LeaseSpent, TimingInv, StateTypeOK
<1> QED
  BY <1>1, <1>3, <1>4 DEF CostInv

LEMMA ClaimSpends ==
  ASSUME TimingInv, CostInv, NEW w \in Worker, Claim(w)
  PROVE  CostInv'
<1> SUFFICES ASSUME mode = "lambda" PROVE OneAtATime' /\ LeaseSpent' /\ (refusals <= LeaseCost)'
  BY DEF CostInv, Claim
<1>1. /\ phase[w] = "received" /\ phase' = [phase EXCEPT ![w] = "working"]
      /\ lease' = Lease /\ refusals' = 0 /\ UNCHANGED <<hidden, age>>
  BY DEF Claim, ClaimTime, queue
<1>2. \A v \in Worker : phase'[v] # "idle" => phase[v] # "idle"
  BY <1>1 DEF TimingInv, StateTypeOK
<1>3. OneAtATime'
  BY <1>1, <1>2 DEF CostInv, OneAtATime
<1>4. LeaseSpent'
  <2>1. \A v \in Worker : phase'[v] # "received"
    BY <1>1 DEF CostInv, OneAtATime, TimingInv, StateTypeOK
  <2>2. hidden + age[w] = Visibility /\ age[w] \in 0..Timeout /\ hidden \in 0..Visibility
    BY <1>1 DEF CostInv, OneAtATime, TimingInv, StateTypeOK
  <2>3. Cost(0) = 0
    BY CostStep
  <2>4. Visibility - hidden <= Timeout
    BY <2>2, TimingAssumption DEF TimingAssumption
  <2> QED
    BY <1>1, <2>1, <2>2, <2>3, <2>4, TimingAssumption DEF TimingAssumption, LeaseSpent
<1>5. 0 <= LeaseCost
  BY CostStep, CostBound, TimingAssumption DEF TimingAssumption
<1> QED
  BY <1>1, <1>3, <1>4, <1>5

\* Only a lease that lasts refuses, and the receive was counted against it.
LEMMA EndSpends ==
  ASSUME TimingInv, CostInv, NEW w \in Worker,
         Refused(w) \/ AlreadyCompleted(w) \/ Complete(w) \/ Fail(w) \/ Fenced(w) \/ Crash(w)
  PROVE  CostInv'
<1>1. phase[w] # "idle" /\ Idle(w) /\ mode' = mode
  BY DEF Refused, AlreadyCompleted, Complete, Fail, Fenced, Crash
<1> SUFFICES ASSUME mode = "lambda" PROVE OneAtATime' /\ LeaseSpent' /\ (refusals <= LeaseCost)'
  BY <1>1 DEF CostInv
<1>2. hidden' = hidden
  <2>1. Reject(w) => hidden' = hidden
    BY DEF Reject
  <2> QED
    BY <2>1 DEF Refused, AlreadyCompleted, Complete, Fail, Fenced, Crash, Delete, queue
<1>3. \A v \in Worker : phase'[v] # "idle" => phase'[v] = phase[v] /\ age'[v] = age[v]
  BY <1>1 DEF Idle, TimingInv, StateTypeOK
<1>4. OneAtATime'
  BY <1>2, <1>3 DEF CostInv, OneAtATime
<1>5. \A v \in Worker : phase'[v] = "idle"
  <2>1. phase'[w] = "idle"
    BY <1>1 DEF Idle, TimingInv, StateTypeOK
  <2> QED
    BY <1>1, <1>3, <2>1 DEF CostInv, OneAtATime
<1>6. lease' = lease \/ lease' = 0
  BY DEF Refused, AlreadyCompleted, Complete, Fail, Fenced, Crash, row
<1>7. CASE refusals' = refusals
  BY <1>2, <1>4, <1>5, <1>6, <1>7 DEF CostInv, LeaseSpent
<1>8. CASE refusals' # refusals
  <2>1. phase[w] = "received" /\ lease # 0 /\ lease' = lease /\ refusals' = refusals + 1
    BY <1>8 DEF Refused, AlreadyCompleted, Complete, Fail, Fenced, Crash, Claimable, row, history
  <2>2. lease > 0 /\ lease \in Nat /\ hidden \in 0..Visibility
    BY <2>1, TimingAssumption DEF TimingAssumption, TimingInv, StateTypeOK
  <2>3. lease + Cost(refusals + 1) + (Visibility - hidden) <= Timeout + Lease
    BY <2>1, <2>2 DEF CostInv, LeaseSpent
  <2>4. refusals + 1 \in Nat /\ Cost(refusals + 1) \in Nat
    BY CostStep DEF TimingInv, AttemptsCounted
  <2>5. Cost(refusals + 1) < Timeout + Lease
    BY <2>2, <2>3, <2>4, TimingAssumption DEF TimingAssumption
  <2>6. refusals + 1 <= LeaseCost
    BY <2>4, <2>5, CostBound
  <2>7. LeaseSpent'
    BY <1>2, <1>5, <2>1, <2>3 DEF LeaseSpent
  <2> QED
    BY <1>4, <2>1, <2>6, <2>7
<1> QED
  BY <1>7, <1>8

LEMMA TickSpends ==
  ASSUME TimingInv, CostInv, Tick
  PROVE  CostInv'
<1> SUFFICES ASSUME mode = "lambda" PROVE OneAtATime' /\ LeaseSpent' /\ (refusals <= LeaseCost)'
  BY DEF CostInv, Tick
<1>1. /\ phase' = phase /\ refusals' = refusals
      /\ hidden' = Less(hidden) /\ lease' = Less(lease)
  BY DEF Tick, history
<1>2. OneAtATime'
  <2>1. ASSUME NEW w \in Worker, phase[w] # "idle"
        PROVE  hidden' + age'[w] = Visibility
    <3>1. age[w] < Timeout /\ age'[w] = age[w] + 1
      BY <2>1, TimingAssumption DEF TimingAssumption, Tick, Overdue, TimingInv, StateTypeOK
    <3>2. hidden + age[w] = Visibility
      BY <2>1 DEF CostInv, OneAtATime
    <3>3. hidden \in Nat /\ age[w] \in Nat /\ hidden # 0
      BY <3>1, <3>2, TimingAssumption DEF TimingAssumption, TimingInv, StateTypeOK
    <3> QED
      BY <1>1, <3>1, <3>2, <3>3, TimingAssumption DEF TimingAssumption, Less
  <2> QED
    BY <1>1, <2>1 DEF CostInv, OneAtATime
<1>3. LeaseSpent'
  <2>1. Cost(refusals) \in Nat /\ Cost(refusals + 1) \in Nat
    BY CostStep DEF TimingInv, AttemptsCounted
  <2>2. /\ lease \in Nat /\ hidden \in Nat /\ Visibility \in Nat /\ Timeout + Lease \in Nat
    BY TimingAssumption DEF TimingAssumption, TimingInv, StateTypeOK
  <2>3. ASSUME lease' > 0, NEW c \in Nat, lease + c + (Visibility - hidden) <= Timeout + Lease
        PROVE  lease' + c + (Visibility - hidden') <= Timeout + Lease
    BY <1>1, <2>2, <2>3 DEF Less
  <2>4. lease' > 0 => lease > 0
    BY <1>1, <2>2 DEF Less
  <2> QED
    BY <1>1, <2>1, <2>3, <2>4 DEF CostInv, LeaseSpent
<1> QED
  BY <1>1, <1>2, <1>3 DEF CostInv

LEMMA CostKept == TimingInv /\ CostInv /\ [Next]_vars => CostInv'
<1> SUFFICES ASSUME TimingInv, CostInv, [Next]_vars PROVE CostInv'
  OBVIOUS
<1>1. CASE \E w \in Worker : Receive(w) \/ Claim(w) \/ Answer(w) \/ Fail(w) \/ Crash(w)
  BY <1>1, ReceiveSpends, ClaimSpends, EndSpends DEF Answer
<1>2. CASE Redrive
  BY <1>2 DEF Redrive, CostInv, OneAtATime, LeaseSpent, row, history
<1>3. CASE Tick
  BY <1>3, TickSpends
<1>4. CASE UNCHANGED vars
  BY <1>4 DEF vars, queue, row, history, CostInv, OneAtATime, LeaseSpent
<1> QED
  BY <1>1, <1>2, <1>3, <1>4 DEF Next

\* An orphaned lease costs a Lambda message no more receives than LeaseCost, for any
\* times, because a refused claim leaves the message hidden.
THEOREM LeaseCostsFewReceives == Spec => []FewRefusals
<1>1. CostInv => FewRefusals
  BY DEF CostInv, FewRefusals
<1> QED
  BY <1>1, CostInit, CostKept, TimingInvariant, PTL DEF Spec
=============================================================================
