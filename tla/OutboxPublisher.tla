-------------------------- MODULE OutboxPublisher --------------------------
(***************************************************************************)
(* Publishing one outbox row to SNS: the DynamoDB-stream Lambda and the    *)
(* scheduled retry Lambda race for a token-fenced lease on the row, send   *)
(* the event, and commit PUBLISHED or FAILED.  Each AWS call is one step   *)
(* and may fail with or without taking effect.                             *)
(***************************************************************************)
EXTENDS Naturals

CONSTANTS
  Worker,        \* invocations of record_handler and retry_pending_events
  NoToken,       \* absent publisherClaimToken, or claim_token is None
  MaxRetries     \* MAX_RETRY_COUNT

ASSUME PublisherAssumption ==
  /\ NoToken \notin Worker
  /\ MaxRetries \in Nat \ {0}

VARIABLES
  status,        \* status of the row; "GONE" once its ttl has removed it
  retryCount,
  token,         \* publisherClaimToken; a worker's token is its identity: it
                 \* forgets one token before it draws the next
  expired,       \* publisherClaimExpiresAt < now
  sent,          \* the event has reached SNS at least once
  stream,        \* the INSERT record in the DynamoDB stream
  pc,            \* per worker: its next call
  mine,          \* per worker: claim_token
  source         \* per worker: what invoked it

vars == <<status, retryCount, token, expired, sent, stream, pc, mine, source>>

row == <<status, retryCount, token, expired>>

Init ==
  /\ status = "PENDING"
  /\ retryCount = 0
  /\ token = NoToken
  /\ expired = FALSE
  /\ sent = FALSE
  /\ stream = "waiting"
  /\ pc = [w \in Worker |-> "idle"]
  /\ mine = [w \in Worker |-> NoToken]
  /\ source = [w \in Worker |-> "retry"]

Goto(w, label) == pc' = [pc EXCEPT ![w] = label]

-----------------------------------------------------------------------------
(* Invocations.                                                             *)

\* record_handler gets the INSERT image, whose status is always PENDING.
StreamDelivers(w) ==
  /\ pc[w] = "idle"
  /\ stream = "waiting"
  /\ stream' = "busy"
  /\ source' = [source EXCEPT ![w] = "stream"]
  /\ Goto(w, "claim")
  /\ UNCHANGED <<row, sent, mine>>

\* Fault: the sweep overlooks rows whose publisher died.
RetryableUnclaimed ==
  \/ status = "PENDING"
  \/ status = "FAILED" /\ retryCount < MaxRetries

\* The filters of _query_retryable; the row may change before it is claimed.
Retryable ==
  \/ status = "PENDING"
  \/ status = "FAILED" /\ retryCount < MaxRetries
  \/ status = "PUBLISHING" /\ expired

RetryCycle(w) ==
  /\ pc[w] = "idle"
  /\ Retryable
  /\ source' = [source EXCEPT ![w] = "retry"]
  /\ Goto(w, "claim")
  /\ UNCHANGED <<row, sent, stream, mine>>

\* The invocation ends; a stream record that raised is delivered again.
End(w, outcome) ==
  /\ Goto(w, "idle")
  /\ mine' = [mine EXCEPT ![w] = NoToken]
  /\ stream' = IF source[w] = "stream" THEN outcome ELSE stream

Return(w) == End(w, "acked")
Raise(w)  == End(w, "waiting")

-----------------------------------------------------------------------------
(* claim_event_for_publish                                                  *)

\* Fault: the claim does not stop at the retry limit.
ClaimableUnlimited ==
  status \in {"PENDING", "FAILED"} \/ (status = "PUBLISHING" /\ expired)

Claimable ==
  /\ status \in {"PENDING", "FAILED"} \/ (status = "PUBLISHING" /\ expired)
  /\ retryCount < MaxRetries

TakeLease(w) ==
  /\ Claimable
  /\ status' = "PUBLISHING"
  /\ token' = w
  /\ expired' = FALSE
  /\ UNCHANGED retryCount

Claim(w) ==
  /\ pc[w] = "claim"
  /\ TakeLease(w)
  /\ mine' = [mine EXCEPT ![w] = w]
  /\ Goto(w, "publish")
  /\ UNCHANGED <<sent, stream, source>>

\* An error other than a refused condition: claim_token stays None, whether or
\* not the lease was taken.
ClaimError(w) ==
  /\ pc[w] = "claim"
  /\ TakeLease(w) \/ UNCHANGED row
  /\ Raise(w)
  /\ UNCHANGED <<sent, source>>

ClaimRefused(w) ==
  /\ pc[w] = "claim"
  /\ ~Claimable
  /\ Goto(w, "claimread")
  /\ UNCHANGED <<row, sent, stream, mine, source>>

\* Fault: a row somebody else is publishing is skipped as done.
ReadAfterClaimSkips(w) ==
  /\ pc[w] = "claimread"
  /\ (status \in {"PUBLISHED", "PUBLISHING"} /\ Return(w)) \/ Raise(w)
  /\ UNCHANGED <<row, sent, source>>

\* _read_live_event: only a PUBLISHED row makes the refusal a success.
ReadAfterClaim(w) ==
  /\ pc[w] = "claimread"
  /\ (status = "PUBLISHED" /\ Return(w)) \/ Raise(w)
  /\ UNCHANGED <<row, sent, source>>

-----------------------------------------------------------------------------
(* publish_to_sns                                                           *)

Publish(w) ==
  /\ pc[w] = "publish"
  /\ sent' = TRUE
  /\ Goto(w, "mark")
  /\ UNCHANGED <<row, stream, mine, source>>

\* Fault: an error of the SNS call is swallowed.
PublishErrorSwallowed(w) ==
  /\ pc[w] = "publish"
  /\ Goto(w, "mark")
  /\ UNCHANGED <<row, sent, stream, mine, source>>

\* Validation, topic lookup or the call fails, perhaps after SNS accepted it.
PublishError(w) ==
  /\ pc[w] = "publish"
  /\ sent' \in {sent, TRUE}
  /\ Goto(w, "fail")
  /\ UNCHANGED <<row, stream, mine, source>>

-----------------------------------------------------------------------------
(* mark_event_published                                                     *)

\* Fault: commits are unconditional.
OwnedAlways(w) == TRUE

\* Fault: commits check the status and not the token.
OwnedByStatus(w) == status = "PUBLISHING"

Owned(w) == status = "PUBLISHING" /\ token = mine[w]

Release(newStatus) ==
  /\ status' = newStatus
  /\ token' = NoToken
  /\ expired' = FALSE

MarkPublished(w) ==
  /\ pc[w] = "mark"
  /\ Owned(w)
  /\ Release("PUBLISHED")
  /\ Return(w)
  /\ UNCHANGED <<retryCount, sent, source>>

MarkError(w) ==
  /\ pc[w] = "mark"
  /\ (Owned(w) /\ Release("PUBLISHED") /\ UNCHANGED retryCount) \/ UNCHANGED row
  /\ Goto(w, "fail")
  /\ UNCHANGED <<sent, stream, mine, source>>

MarkRefused(w) ==
  /\ pc[w] = "mark"
  /\ ~Owned(w)
  /\ Goto(w, "markread")
  /\ UNCHANGED <<row, sent, stream, mine, source>>

\* PUBLISHED by somebody counts as success; otherwise the lease was lost.
ReadAfterMark(w) ==
  /\ pc[w] = "markread"
  /\ \/ status = "PUBLISHED" /\ Return(w)
     \/ Goto(w, "fail") /\ UNCHANGED <<stream, mine>>
  /\ UNCHANGED <<row, sent, source>>

-----------------------------------------------------------------------------
(* mark_event_failed, then the handler raises whatever became of it.        *)

MarkFailed(w) ==
  /\ pc[w] = "fail"
  /\ Owned(w)
  /\ Release("FAILED")
  /\ retryCount' = retryCount + 1
  /\ Raise(w)
  /\ UNCHANGED <<sent, source>>

FailureNotMarked(w) ==
  /\ pc[w] = "fail"
  /\ Raise(w)
  /\ UNCHANGED <<row, sent, source>>

-----------------------------------------------------------------------------
(* The environment.                                                         *)

Crash(w) ==
  /\ pc[w] # "idle"
  /\ Raise(w)
  /\ UNCHANGED <<row, sent, source>>

LeaseExpires ==
  /\ status = "PUBLISHING" /\ ~expired
  /\ expired' = TRUE
  /\ UNCHANGED <<status, retryCount, token, sent, stream, pc, mine, source>>

\* The stream mapping exhausts its attempts or the record's age limit.
StreamGivesUp ==
  /\ stream = "waiting"
  /\ stream' = "discarded"
  /\ UNCHANGED <<row, sent, pc, mine, source>>

\* ttl is set when the row is marked PUBLISHED.
Retention ==
  /\ status = "PUBLISHED"
  /\ status' = "GONE"
  /\ UNCHANGED <<retryCount, token, expired, sent, stream, pc, mine, source>>

-----------------------------------------------------------------------------
Step(w) ==
  \/ Claim(w) \/ ClaimError(w) \/ ClaimRefused(w) \/ ReadAfterClaim(w)
  \/ Publish(w) \/ PublishError(w)
  \/ MarkPublished(w) \/ MarkError(w) \/ MarkRefused(w) \/ ReadAfterMark(w)
  \/ MarkFailed(w) \/ FailureNotMarked(w)

Next ==
  \/ \E w \in Worker : Step(w) \/ Crash(w) \/ StreamDelivers(w) \/ RetryCycle(w)
  \/ LeaseExpires \/ StreamGivesUp \/ Retention

Spec == Init /\ [][Next]_vars

\* Invocations run to their end, time passes, the schedule keeps firing.  Calls
\* tried again and again do not fail, crash or outlast the lease (30 s or more)
\* every time.
Fairness ==
  /\ \A w \in Worker :
       /\ WF_vars(Step(w))
       /\ SF_vars(Claim(w))
       /\ SF_vars(Owned(w) /\ (Publish(w) \/ PublishError(w)))
       /\ SF_vars(MarkPublished(w)) /\ SF_vars(MarkFailed(w))
  /\ SF_vars(\E w \in Worker : RetryCycle(w))
  /\ WF_vars(LeaseExpires)

LiveSpec == Spec /\ Fairness

-----------------------------------------------------------------------------
(* Properties.                                                              *)

TypeOK ==
  /\ status \in {"PENDING", "PUBLISHING", "PUBLISHED", "FAILED", "GONE"}
  /\ retryCount \in 0..MaxRetries
  /\ token \in Worker \cup {NoToken}
  /\ expired \in BOOLEAN
  /\ sent \in BOOLEAN
  /\ stream \in {"waiting", "busy", "acked", "discarded"}
  /\ pc \in [Worker -> {"idle", "claim", "claimread", "publish", "mark", "markread", "fail"}]
  /\ mine \in [Worker -> Worker \cup {NoToken}]
  /\ source \in [Worker -> {"stream", "retry"}]

\* A row is PUBLISHED (and later removed by its ttl) only if SNS has the event,
\* however leases were lost in between.
PublishedWasSent == status \in {"PUBLISHED", "GONE"} => sent

\* The stream record is acknowledged only for a published row: a refused claim
\* on a row some other worker may still drop is not a success.
AckedWasPublished == stream = "acked" => status \in {"PUBLISHED", "GONE"}

\* A late worker never downgrades a published row.
NeverDowngraded ==
  [][(status \in {"PUBLISHED", "GONE"}) => (status' \in {status, "GONE"})]_vars

\* A lease ends by takeover after expiry or by the worker that holds it; one
\* that lost it neither publishes the row nor spends a retry of the new holder.
OnlyOwnerCommits ==
  [][status = "PUBLISHING" /\ status' # status =>
       \E w \in Worker : token = w /\ mine[w] = w /\ pc[w] \in {"mark", "fail"}]_vars

\* Every row is eventually published or has spent its retries, though the
\* stream may have given up on it.
EventuallyDone == <>(status = "PUBLISHED" \/ retryCount = MaxRetries)
=============================================================================
