---------------------------- MODULE LeaseTiming ----------------------------
(***************************************************************************)
(* One message against the clock: the queue hides it for a time after each *)
(* receive and gives up after so many, the row of its file is leased to    *)
(* the worker that claimed it, and a Lambda invocation may not outlive its *)
(* limit while a container worker may.  Steps take no time; Tick is the    *)
(* time between them, in units of the constants.                           *)
(***************************************************************************)
EXTENDS Naturals, FiniteSets

CONSTANTS
  Worker,
  NoWorker,
  Visibility,     \* sqs_visibility_timeout
  Lease,          \* processing_claim_ttl_seconds
  Timeout,        \* time limit of the Lambda function
  MaxReceive      \* maxReceiveCount of the queue's redrive policy

\* An invocation ends before its message is visible again (the event source
\* mapping refuses other queues) and before the lease it may take expires.
ASSUME TimingAssumption ==
  /\ NoWorker \notin Worker /\ IsFiniteSet(Worker)
  /\ Visibility \in Nat /\ Lease \in Nat /\ Timeout \in Nat \ {0}
  /\ Timeout < Visibility
  /\ Timeout < Lease
  /\ MaxReceive \in Nat \ {0}

VARIABLES
  mode,           \* "lambda" or "ecs"
  place,          \* the message: "queue", "deleted" or "dlq"
  hidden,         \* time until it is visible again
  receives,       \* its ApproximateReceiveCount
  receiver,       \* the worker that received it last: its receipt is valid
  phase,          \* of each worker: "idle", "received" or "working"
  age,            \* of each invocation, since it received the message
  status,         \* of the row: "NONE", "PROCESSING", "FAILED" or "COMPLETED"
  owner,          \* the worker whose token is in the row
  lease,          \* time until that claim expires
  refusals,       \* history: claims refused since the last one granted
  faults          \* history: attempts that crashed, timed out or failed

queue   == <<place, hidden, receives, receiver>>
row     == <<status, owner, lease>>
history == <<refusals, faults>>
vars    == <<mode, queue, phase, age, row, history>>

Init ==
  /\ mode \in {"lambda", "ecs"}
  /\ place = "queue"
  /\ hidden = 0
  /\ receives = 0
  /\ receiver = NoWorker
  /\ phase = [w \in Worker |-> "idle"]
  /\ age = [w \in Worker |-> 0]
  /\ status = "NONE"
  /\ owner = NoWorker
  /\ lease = 0
  /\ refusals = 0
  /\ faults = 0

-----------------------------------------------------------------------------
(* The queue.                                                               *)

Visible == place = "queue" /\ hidden = 0

Receive(w) ==
  /\ Visible /\ receives < MaxReceive
  /\ phase[w] = "idle"
  /\ hidden' = Visibility
  /\ receives' = receives + 1
  /\ receiver' = w
  /\ phase' = [phase EXCEPT ![w] = "received"]
  /\ age' = [age EXCEPT ![w] = 0]
  /\ UNCHANGED <<mode, place, row, history>>

Redrive ==
  /\ Visible /\ receives = MaxReceive
  /\ place' = "dlq"
  /\ UNCHANGED <<mode, hidden, receives, receiver, phase, age, row, history>>

\* delete_message: an outdated receipt may or may not delete.
Delete(w) ==
  /\ IF place = "queue"
     THEN place' \in IF receiver = w THEN {"deleted"} ELSE {"deleted", "queue"}
     ELSE UNCHANGED place
  /\ UNCHANGED <<hidden, receives, receiver>>

\* Fault: a Lambda record that failed is made visible at once, too.
RejectVisible(w) ==
  /\ hidden' \in IF receiver = w THEN {0} ELSE {0, hidden}
  /\ UNCHANGED <<place, receives, receiver>>

\* The consumer sets the visibility timeout to 0, which an outdated receipt may
\* not do; a Lambda batch item failure leaves the message hidden.
Reject(w) ==
  /\ hidden' \in (CASE mode = "lambda" -> {hidden}
                    [] mode = "ecs" -> IF receiver = w THEN {0} ELSE {0, hidden})
  /\ UNCHANGED <<place, receives, receiver>>

-----------------------------------------------------------------------------
(* The worker, from its claim to its answer.                                *)

Idle(w) ==
  /\ phase' = [phase EXCEPT ![w] = "idle"]
  /\ age' = [age EXCEPT ![w] = 0]

Claimable == status # "COMPLETED" /\ (owner = NoWorker \/ lease = 0)

\* Fault: the lease lasts for half the time the function may take.
HalfTimeout == Timeout \div 2

\* now + lease_seconds
ClaimTime == Lease

Claim(w) ==
  /\ phase[w] = "received"
  /\ Claimable
  /\ status' = "PROCESSING"
  /\ owner' = w
  /\ lease' = ClaimTime
  /\ refusals' = 0
  /\ phase' = [phase EXCEPT ![w] = "working"]
  /\ UNCHANGED <<mode, queue, age, faults>>

\* ProcessingClaimUnavailableError
Refused(w) ==
  /\ phase[w] = "received"
  /\ status # "COMPLETED" /\ ~Claimable
  /\ refusals' = refusals + 1
  /\ Reject(w)
  /\ Idle(w)
  /\ UNCHANGED <<mode, row, faults>>

\* The result of an earlier attempt is returned and the message deleted.
AlreadyCompleted(w) ==
  /\ phase[w] = "received"
  /\ status = "COMPLETED"
  /\ Delete(w)
  /\ Idle(w)
  /\ UNCHANGED <<mode, row, history>>

Complete(w) ==
  /\ phase[w] = "working" /\ owner = w
  /\ status' = "COMPLETED"
  /\ owner' = NoWorker
  /\ lease' = 0
  /\ Delete(w)
  /\ Idle(w)
  /\ UNCHANGED <<mode, history>>

\* A retryable failure is persisted, which releases the claim; an error of that
\* write is swallowed.
Fail(w) ==
  /\ phase[w] = "working" /\ owner = w
  /\ \/ status' = "FAILED" /\ owner' = NoWorker /\ lease' = 0
     \/ UNCHANGED row
  /\ faults' = faults + 1
  /\ Reject(w)
  /\ Idle(w)
  /\ UNCHANGED <<mode, refusals>>

\* Fault: the failure is written over the claim of the other worker.
FencedReleases(w) ==
  /\ phase[w] = "working" /\ owner # w
  /\ status' = IF status = "COMPLETED" THEN status ELSE "FAILED"
  /\ owner' = NoWorker
  /\ lease' = 0
  /\ Reject(w)
  /\ Idle(w)
  /\ UNCHANGED <<mode, history>>

\* Another worker took the claim over: the fenced write is refused.
Fenced(w) ==
  /\ phase[w] = "working" /\ owner # w
  /\ Reject(w)
  /\ Idle(w)
  /\ UNCHANGED <<mode, row, history>>

\* The process dies, or the invocation is stopped at its limit.
Crash(w) ==
  /\ phase[w] # "idle"
  /\ faults' = faults + 1
  /\ Idle(w)
  /\ UNCHANGED <<mode, queue, row, refusals>>

-----------------------------------------------------------------------------
Less(n) == IF n = 0 THEN 0 ELSE n - 1

Overdue(w) == mode = "lambda" /\ phase[w] # "idle" /\ age[w] >= Timeout

Tick ==
  /\ \A w \in Worker : ~Overdue(w)
  /\ hidden' = Less(hidden)
  /\ lease' = Less(lease)
  /\ age' = [w \in Worker |-> IF mode = "lambda" /\ phase[w] # "idle" THEN age[w] + 1 ELSE age[w]]
  /\ UNCHANGED <<mode, place, receives, receiver, phase, status, owner, history>>

Answer(w) == Refused(w) \/ AlreadyCompleted(w) \/ Complete(w) \/ Fenced(w)

Next ==
  \/ \E w \in Worker : Receive(w) \/ Claim(w) \/ Answer(w) \/ Fail(w) \/ Crash(w)
  \/ Redrive
  \/ Tick

Spec == Init /\ [][Next]_vars

\* Time passes, the queue delivers, and a worker that is not stopped goes on.
LiveSpec ==
  /\ Spec
  /\ WF_vars(Tick) /\ WF_vars(Redrive)
  /\ WF_vars(\E w \in Worker : Receive(w))
  /\ \A w \in Worker : WF_vars(Claim(w)) /\ WF_vars(Answer(w)) /\ WF_vars(Crash(w) /\ Overdue(w))

-----------------------------------------------------------------------------
TypeOK ==
  /\ mode \in {"lambda", "ecs"}
  /\ place \in {"queue", "deleted", "dlq"}
  /\ hidden \in 0..Visibility
  /\ receives \in 0..MaxReceive
  /\ receiver \in Worker \cup {NoWorker}
  /\ phase \in [Worker -> {"idle", "received", "working"}]
  /\ age \in [Worker -> 0..Timeout]
  /\ status \in {"NONE", "PROCESSING", "FAILED", "COMPLETED"}
  /\ owner \in Worker \cup {NoWorker}
  /\ lease \in 0..Lease
  /\ refusals \in 0..MaxReceive
  /\ faults \in 0..MaxReceive

\* Nobody takes the claim of a running Lambda invocation over, however late in
\* its time it claimed: the lease outlasts the invocation.
LambdaKeepsLease ==
  mode = "lambda" =>
    \A w \in Worker : phase[w] = "working" => owner = w /\ lease > 0

\* The receives one orphaned lease can cost: it ends at most Timeout + Lease after
\* the receive of its claimant, and the message is received once per Visibility.
LeaseCost == (Timeout + Lease - 1) \div Visibility

\* An orphaned lease costs a Lambda message few of its receives, for a refused
\* claim leaves it hidden for as long as any other failure.
FewRefusals == mode = "lambda" => refusals <= LeaseCost

\* Slow workers and redeliveries alone lose no message: in either mode one that
\* is dead-lettered unprocessed met a fault, or some worker is still at it.
UnprocessedMeansFault ==
  place = "dlq" /\ status # "COMPLETED" =>
    faults > 0 \/ \E w \in Worker : phase[w] # "idle"

\* With one fault at most, the message of a Lambda is processed in the end.
Recovers ==
  mode = "lambda" /\ [](faults <= 1) => <>(status = "COMPLETED")
=============================================================================
