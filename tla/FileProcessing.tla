--------------------------- MODULE FileProcessing ---------------------------
(***************************************************************************)
(* The file processor: workers take input events of one file from SQS and  *)
(* each drives FileProcessorService.handle against the file's METADATA     *)
(* row, its outbox rows and its S3 objects.  Every AWS call is a step of   *)
(* its own, so other workers, lease expiry, redelivery and crashes fall    *)
(* between any two of them; a call may fail with or without taking effect. *)
(*                                                                         *)
(* One file is enough: every key of the three stores contains the file id. *)
(***************************************************************************)
EXTENDS Naturals

CONSTANTS
  Worker,        \* SQS consumer threads and Lambda invocations
  Event,         \* input events that name this file
  NoEvent,       \* absent lastProcessedEventId / processingEventId, idle worker
  MaxReceive     \* maxReceiveCount of the queue's redrive policy

Kind  == {"UPLOADED", "SCANNED", "OTHER"}
Check == {"ok", "untrusted", "mismatch"}

\* Only uploads are validated against the configuration and the object.
Input == [kind : {"UPLOADED"}, check : Check] \cup [kind : Kind \ {"UPLOADED"}, check : {"ok"}]

ASSUME ConfigAssumption ==
  /\ NoEvent \notin Event
  /\ MaxReceive \in Nat

VARIABLES
  useOutbox,     \* transactional outbox (deployed) or direct publishing (local)
  input,         \* per event: its type, and what validation says of it
  queue,         \* per event: where SQS holds its message
  receives,      \* per event: ApproximateReceiveCount
  row,           \* the FILE#id / METADATA item
  outbox,        \* outbox rows, keyed by type, event and (for failures) claim
  published,     \* result events sent to SNS by direct mode
  s3,            \* is the content safe; which of the two objects exist
  pc,            \* per worker: the next AWS call of its handle()
  job,           \* per worker: the event being handled
  claim,         \* per worker: version (and token) of its claim, 0 for None
  retryable,     \* per worker: the failure being handled may be redelivered
  results        \* history: every result a claim has written to the row

vars == <<useOutbox, input, queue, receives, row, outbox, published, s3, pc, job, claim,
          retryable, results>>

given == <<useOutbox, input>>
store == <<row, outbox, published, s3, results>>
local == <<job, claim, retryable>>
sqs   == <<queue, receives>>

-----------------------------------------------------------------------------
(* The stored data.  A processor claim token is a fresh uuid4 written with  *)
(* the incremented version, so token and version name the same claim: both  *)
(* are modelled by the version, and token = 0 is the removed attribute.     *)

Label == {"idle", "read", "claim", "reread", "download", "copy", "commit",
          "replay", "publish", "cleanup", "fail", "failpublish", "ack",
          "requeue", "reject"}

Row == [status   : {"PENDING", "PROCESSING", "COMPLETED", "FAILED"},
        last     : Event \cup {NoEvent},
        version  : Nat,
        token    : Nat,
        expired  : BOOLEAN,
        event    : Event \cup {NoEvent},
        location : {"source", "quarantine"},
        error    : BOOLEAN]            \* errorMessage and errorCode are set

OutboxRow == [type : {"ANALYSIS_COMPLETED", "PROCESSING_FAILED"},
              event : Event, claim : Nat, location : {"source", "quarantine"}]

Result == [event : Event, claim : Nat, status : {"COMPLETED", "FAILED"}, final : BOOLEAN]

\* The gateway's row, or the absent row the first claim initialises.
Init ==
  /\ useOutbox \in BOOLEAN
  /\ input \in [Event -> Input]
  /\ queue = [e \in Event |-> "visible"]
  /\ receives = [e \in Event |-> 0]
  /\ row = [status |-> "PENDING", last |-> NoEvent, version |-> 0, token |-> 0,
            expired |-> FALSE, event |-> NoEvent, location |-> "source", error |-> FALSE]
  /\ outbox = {}
  /\ published = {}
  /\ s3 \in [safe : BOOLEAN, source : {TRUE}, quarantine : {FALSE}]
  /\ pc = [w \in Worker |-> "idle"]
  /\ job = [w \in Worker |-> NoEvent]
  /\ claim = [w \in Worker |-> 0]
  /\ retryable = [w \in Worker |-> FALSE]
  /\ results = {}

Goto(w, label) == pc' = [pc EXCEPT ![w] = label]

At(w, label) == pc[w] = label

\* handle() has returned or raised and the consumer is done with the message.
Finish(w) ==
  /\ Goto(w, "idle")
  /\ job' = [job EXCEPT ![w] = NoEvent]
  /\ claim' = [claim EXCEPT ![w] = 0]
  /\ retryable' = [retryable EXCEPT ![w] = FALSE]

-----------------------------------------------------------------------------
(* SQS: delivery, visibility timeout, redrive, duplicates.                  *)

Receive(w, e) ==
  /\ At(w, "idle")
  /\ queue[e] = "visible"
  /\ receives[e] < MaxReceive
  /\ queue' = [queue EXCEPT ![e] = "inflight"]
  /\ receives' = [receives EXCEPT ![e] = @ + 1]
  /\ job' = [job EXCEPT ![w] = e]
  /\ Goto(w, "read")
  /\ UNCHANGED <<given, store, claim, retryable>>

\* The message reappears while its worker may still be busy with it.
VisibilityTimeout(e) ==
  /\ queue[e] = "inflight"
  /\ queue' = [queue EXCEPT ![e] = "visible"]
  /\ UNCHANGED <<given, receives, store, pc, local>>

Redrive(e) ==
  /\ queue[e] = "visible"
  /\ receives[e] >= MaxReceive
  /\ queue' = [queue EXCEPT ![e] = "dlq"]
  /\ UNCHANGED <<given, receives, store, pc, local>>

\* A standard queue, or the producer, delivers an acknowledged event again.
Duplicate(e) ==
  /\ queue[e] = "deleted"
  /\ receives[e] < MaxReceive
  /\ queue' = [queue EXCEPT ![e] = "visible"]
  /\ UNCHANGED <<given, receives, store, pc, local>>

-----------------------------------------------------------------------------
(* handle(): duplicate check and claim.                                     *)

\* _idempotent_result looks only at the row's last processed event.
Seen(e)      == row.last = e
Completed(e) == Seen(e) /\ row.status = "COMPLETED"

ReadExisting(w) ==
  LET e == job[w] IN
  /\ At(w, "read")
  /\ \/ Completed(e) /\ Goto(w, "ack")
     \/ Seen(e) /\ ~Completed(e) /\ Goto(w, "reject")
     \/ ~Seen(e) /\ input[e].kind = "OTHER" /\ Goto(w, "ack")
     \/ ~Seen(e) /\ input[e].kind # "OTHER" /\ Goto(w, "claim")
     \/ Goto(w, "requeue")                      \* get_by_id raised
  /\ UNCHANGED <<given, sqs, store, local>>

\* Fault: the claim does not exclude an event that has settled since it was read.
ClaimableIgnoringLast(e) == row.token = 0 \/ row.expired

Claimable(e) == row.last # e /\ (row.token = 0 \/ row.expired)

\* Fault: the claim leaves the error of an earlier attempt in the row.
ClaimedRowKeepsError(e) ==
  [row EXCEPT !.status = "PROCESSING", !.version = @ + 1, !.token = row.version + 1,
              !.expired = FALSE, !.event = e]

ClaimedRow(e) ==
  [row EXCEPT !.status = "PROCESSING", !.version = @ + 1, !.token = row.version + 1,
              !.expired = FALSE, !.event = e, !.error = FALSE]

FirstStep(e) == IF input[e].kind = "UPLOADED" THEN "download" ELSE "commit"

Claim(w) ==
  LET e == job[w] IN
  /\ At(w, "claim")
  /\ Claimable(e)
  /\ row' = ClaimedRow(e)
  /\ claim' = [claim EXCEPT ![w] = row.version + 1]
  /\ Goto(w, FirstStep(e))
  /\ UNCHANGED <<given, sqs, outbox, published, s3, job, retryable, results>>

\* The update took effect and its response was lost: a retry draws a new token
\* and is refused by its own lease, or the attempts run out.
ClaimLost(w) ==
  LET e == job[w] IN
  /\ At(w, "claim")
  /\ Claimable(e)
  /\ row' = ClaimedRow(e)
  /\ Goto(w, "reread") \/ Goto(w, "requeue")
  /\ UNCHANGED <<given, sqs, outbox, published, s3, local, results>>

ClaimRefused(w) ==
  /\ At(w, "claim")
  /\ \/ ~Claimable(job[w]) /\ Goto(w, "reread")
     \/ Goto(w, "requeue")                      \* StorageError, claim is None
  /\ UNCHANGED <<given, sqs, store, local>>

\* Fault: a refused claim counts as success.
RereadThenAck(w) ==
  /\ At(w, "reread")
  /\ Goto(w, "ack") \/ Goto(w, "requeue")
  /\ UNCHANGED <<given, sqs, store, local>>

\* Fault: a refused claim waits for the other worker's result.
RereadUntilSettled(w) ==
  /\ At(w, "reread")
  /\ Seen(job[w])
  /\ Goto(w, IF Completed(job[w]) THEN "ack" ELSE "reject")
  /\ UNCHANGED <<given, sqs, store, local>>

\* The second duplicate check; otherwise ProcessingClaimUnavailableError.
Reread(w) ==
  LET e == job[w] IN
  /\ At(w, "reread")
  /\ \/ Completed(e) /\ Goto(w, "ack")
     \/ Seen(e) /\ ~Completed(e) /\ Goto(w, "reject")
     \/ Goto(w, "requeue")
  /\ UNCHANGED <<given, sqs, store, local>>

-----------------------------------------------------------------------------
(* _process_uploaded_file up to the commit.                                 *)

FailWith(w, canRetry) ==
  /\ Goto(w, "fail")
  /\ retryable' = [retryable EXCEPT ![w] = canRetry]

\* _validate_event_location and the declared size, before any call.
Trusted(e) == input[e].check # "untrusted"

\* _validate_actual_object and the checksum, once the object is here.
Matches(e) == input[e].check # "mismatch"

\* _analyze_file: the header policy decides whether the object moves.
AfterAnalysis == IF s3.safe THEN "commit" ELSE "copy"

\* storage.download returns the object, which may be gone; or raises.
Download(w) ==
  LET e == job[w] IN
  /\ At(w, "download")
  /\ \/ ~Trusted(e) /\ FailWith(w, FALSE)
     \/ Trusted(e) /\ FailWith(w, TRUE)
     \/ Trusted(e) /\ s3.source /\ ~Matches(e) /\ FailWith(w, FALSE)
     \/ /\ Trusted(e) /\ s3.source /\ Matches(e)
        /\ Goto(w, AfterAnalysis)
        /\ UNCHANGED retryable
  /\ UNCHANGED <<given, sqs, store, job, claim>>

\* Fault: the quarantine is a move.
Move(w) ==
  /\ At(w, "copy")
  /\ s3.source
  /\ s3' = [s3 EXCEPT !.quarantine = TRUE, !.source = FALSE]
  /\ Goto(w, "commit")
  /\ UNCHANGED <<given, sqs, row, outbox, published, local, results>>

\* storage.copy; the copy may have been made although the call raised.
Copy(w) ==
  /\ At(w, "copy")
  /\ \/ /\ s3.source
        /\ s3' = [s3 EXCEPT !.quarantine = TRUE]
        /\ \/ Goto(w, "commit") /\ UNCHANGED retryable
           \/ FailWith(w, TRUE)
     \/ FailWith(w, TRUE) /\ UNCHANGED s3
  /\ UNCHANGED <<given, sqs, row, outbox, published, job, claim, results>>

-----------------------------------------------------------------------------
(* Writing the result.                                                      *)

\* Fault: the fence checks which event is being processed, not by which claim.
FencedByEvent(w) == row.event = job[w]

\* apply_claim_fence
Fenced(w) == row.token = claim[w] /\ row.version = claim[w] /\ row.event = job[w]

OutputLocation(w) ==
  IF input[job[w]].kind = "UPLOADED" /\ ~s3.safe THEN "quarantine" ELSE "source"

Released(r) == [r EXCEPT !.token = 0, !.expired = FALSE, !.event = NoEvent]

\* Fault: the result keeps the location the row had.
CompletedRowInPlace(w) ==
  [Released(row) EXCEPT !.status = "COMPLETED", !.last = job[w]]

CompletedRow(w) ==
  [Released(row) EXCEPT !.status = "COMPLETED", !.last = job[w], !.location = OutputLocation(w)]

\* Fault: a retryable failure marks its event as processed, too.
FailedRowSettled(w) ==
  [Released(row) EXCEPT !.status = "FAILED", !.location = "source", !.last = job[w]]

\* build_metadata_update sets what the record has and removes nothing: a
\* retryable failure leaves lastProcessedEventId, every failure resets location.
FailedRow(w) ==
  [Released(row) EXCEPT !.status = "FAILED", !.location = "source", !.error = TRUE,
                        !.last = IF retryable[w] THEN @ ELSE job[w]]

CompletionEvent(w) == [type |-> "ANALYSIS_COMPLETED", event |-> job[w],
                       claim |-> claim[w], location |-> OutputLocation(w)]
FailureEvent(w) == [type |-> "PROCESSING_FAILED", event |-> job[w],
                    claim |-> claim[w], location |-> "source"]

\* Fault: the outbox row is put without its attribute_not_exists condition.
CompletionOverwritten(e) == FALSE

\* The completion's uuid5 is drawn from the input event only; its payload
\* carries timestamps of this attempt, told apart here by the claim.
CompletionExists(e) == \E o \in outbox : o.type = "ANALYSIS_COMPLETED" /\ o.event = e

Write(w, status, newRow) ==
  /\ row' = newRow
  /\ results' = results \cup {[event |-> job[w], claim |-> claim[w], status |-> status,
                               final |-> status = "COMPLETED" \/ ~retryable[w]]}

AfterCommit(w) == IF OutputLocation(w) = "quarantine" THEN "cleanup" ELSE "ack"

UsesTransaction(w) == useOutbox /\ input[job[w]].kind = "UPLOADED"

\* transact_write_items took effect.  Its caller learns so, or sees an error
\* after the attempts ran out, or (idempotency token forgotten) a cancellation.
CommitTransaction(w) ==
  /\ At(w, "commit") /\ UsesTransaction(w)
  /\ Fenced(w) /\ ~CompletionExists(job[w])
  /\ Write(w, "COMPLETED", CompletedRow(w))
  /\ outbox' = outbox \cup {CompletionEvent(w)}
  /\ \/ (Goto(w, AfterCommit(w)) \/ Goto(w, "replay")) /\ UNCHANGED retryable
     \/ FailWith(w, TRUE)
  /\ UNCHANGED <<given, sqs, published, s3, job, claim>>

TransactionCancelled(w) ==
  /\ At(w, "commit") /\ UsesTransaction(w)
  /\ \/ /\ ~Fenced(w) \/ CompletionExists(job[w])
        /\ Goto(w, "replay") /\ UNCHANGED retryable
     \/ FailWith(w, TRUE)
  /\ UNCHANGED <<given, sqs, store, job, claim>>

\* _is_idempotent_replay, the fenced restore of the row, _metadata_has_result.
Replay(w) ==
  /\ At(w, "replay")
  /\ \/ /\ CompletionEvent(w) \in outbox
        /\ Fenced(w) \/ Completed(job[w])
        /\ row' = IF Fenced(w) THEN CompletedRow(w) ELSE row
        /\ Goto(w, AfterCommit(w)) /\ UNCHANGED retryable
     \/ FailWith(w, TRUE) /\ UNCHANGED row
  /\ UNCHANGED <<given, sqs, outbox, published, s3, job, claim, results>>

\* Fault: direct mode announces a result whose save was refused by the fence.
SaveAnnouncesRefused(w) ==
  /\ At(w, "commit") /\ ~UsesTransaction(w)
  /\ IF Fenced(w) THEN Write(w, "COMPLETED", CompletedRow(w)) ELSE UNCHANGED <<row, results>>
  /\ Goto(w, IF input[job[w]].kind = "UPLOADED" THEN "publish" ELSE "ack")
  /\ UNCHANGED <<given, sqs, outbox, published, s3, local>>

\* metadata.save without a transaction: scan results, and direct mode.
Save(w) ==
  /\ At(w, "commit") /\ ~UsesTransaction(w)
  /\ \/ /\ Fenced(w)
        /\ Write(w, "COMPLETED", CompletedRow(w))
        /\ \/ /\ Goto(w, IF input[job[w]].kind = "UPLOADED" THEN "publish" ELSE "ack")
              /\ UNCHANGED retryable
           \/ FailWith(w, TRUE)     \* response lost: the retry meets its own fence
     \/ FailWith(w, TRUE) /\ UNCHANGED <<row, results>>
  /\ UNCHANGED <<given, sqs, outbox, published, s3, job, claim>>

Publish(w) ==
  /\ At(w, "publish")
  /\ \/ /\ published' = published \cup {CompletionEvent(w)}
        /\ \/ Goto(w, AfterCommit(w)) /\ UNCHANGED retryable
           \/ FailWith(w, TRUE)
     \/ FailWith(w, TRUE) /\ UNCHANGED published
  /\ UNCHANGED <<given, sqs, row, outbox, s3, job, claim, results>>

\* Only StorageError is swallowed; any other exception enters the failure path.
Cleanup(w) ==
  /\ At(w, "cleanup")
  /\ \/ s3' = [s3 EXCEPT !.source = FALSE]
     \/ UNCHANGED s3
  /\ \/ Goto(w, "ack") /\ UNCHANGED retryable
     \/ FailWith(w, TRUE)
  /\ UNCHANGED <<given, sqs, row, outbox, published, job, claim, results>>

-----------------------------------------------------------------------------
(* _handle_failure: a fenced FAILED record with its event; errors swallowed. *)

AfterFailure(w) == IF retryable[w] THEN "requeue" ELSE "reject"

\* Fault: a failure is saved without its event.
PersistFailureSilently(w) ==
  /\ At(w, "fail")
  /\ Fenced(w)
  /\ Write(w, "FAILED", FailedRow(w))
  /\ Goto(w, AfterFailure(w))
  /\ UNCHANGED <<given, sqs, outbox, published, s3, local>>

PersistFailure(w) ==
  /\ At(w, "fail")
  /\ Fenced(w)
  /\ Write(w, "FAILED", FailedRow(w))
  /\ IF useOutbox
     THEN outbox' = outbox \cup {FailureEvent(w)} /\ Goto(w, AfterFailure(w))
     ELSE UNCHANGED outbox /\ (Goto(w, "failpublish") \/ Goto(w, AfterFailure(w)))
  /\ UNCHANGED <<given, sqs, published, s3, local>>

FailureNotPersisted(w) ==
  /\ At(w, "fail")
  /\ Goto(w, AfterFailure(w))
  /\ UNCHANGED <<given, sqs, store, local>>

PublishFailure(w) ==
  /\ At(w, "failpublish")
  /\ published' = published \cup {FailureEvent(w)} \/ UNCHANGED published
  /\ Goto(w, AfterFailure(w))
  /\ UNCHANGED <<given, sqs, row, outbox, s3, results, local>>

-----------------------------------------------------------------------------
(* The consumer's answer to SQS.                                            *)

\* delete_message; when it fails the message is requeued, or that fails too.
Ack(w) ==
  /\ At(w, "ack")
  /\ \/ queue[job[w]] # "dlq" /\ queue' = [queue EXCEPT ![job[w]] = "deleted"]
     \/ queue[job[w]] = "inflight" /\ queue' = [queue EXCEPT ![job[w]] = "visible"]
     \/ UNCHANGED queue
  /\ Finish(w)
  /\ UNCHANGED <<given, receives, store>>

\* reject(requeue=True): visibility 0; left in flight when that call fails.
Requeue(w) ==
  /\ At(w, "requeue")
  /\ \/ queue[job[w]] = "inflight" /\ queue' = [queue EXCEPT ![job[w]] = "visible"]
     \/ UNCHANGED queue
  /\ Finish(w)
  /\ UNCHANGED <<given, receives, store>>

\* reject(requeue=False): NonRetryableError, left for the redrive policy.
Reject(w) ==
  /\ At(w, "reject")
  /\ Finish(w)
  /\ UNCHANGED <<given, sqs, store>>

\* Lambda: record_handler raises and the record is a batch item failure, which
\* the event source leaves to the visibility timeout.
BatchItemFailure(w) ==
  /\ At(w, "requeue") \/ At(w, "reject")
  /\ Finish(w)
  /\ UNCHANGED <<given, sqs, store>>

-----------------------------------------------------------------------------
(* The environment: time and crashes.                                       *)

LeaseExpires ==
  /\ row.token # 0 /\ ~row.expired
  /\ row' = [row EXCEPT !.expired = TRUE]
  /\ UNCHANGED <<given, sqs, outbox, published, s3, pc, local, results>>

Crash(w) ==
  /\ pc[w] # "idle"
  /\ Finish(w)
  /\ UNCHANGED <<given, sqs, store>>

-----------------------------------------------------------------------------
HandleStep(w) ==
  \/ ReadExisting(w) \/ Claim(w) \/ ClaimLost(w) \/ ClaimRefused(w) \/ Reread(w)
  \/ Download(w) \/ Copy(w)
  \/ CommitTransaction(w) \/ TransactionCancelled(w) \/ Replay(w)
  \/ Save(w) \/ Publish(w) \/ Cleanup(w)
  \/ PersistFailure(w) \/ FailureNotPersisted(w) \/ PublishFailure(w)
  \/ Ack(w) \/ Requeue(w) \/ Reject(w) \/ BatchItemFailure(w)

QueueStep(e) == VisibilityTimeout(e) \/ Redrive(e)

Next ==
  \/ \E w \in Worker : HandleStep(w) \/ Crash(w) \/ \E e \in Event : Receive(w, e)
  \/ \E e \in Event : QueueStep(e) \/ Duplicate(e)
  \/ LeaseExpires

Spec == Init /\ [][Next]_vars

\* handle() and the queue keep moving; crashes, duplicates and expiry need not happen.
Fairness ==
  /\ \A w \in Worker : WF_vars(HandleStep(w))
  /\ \A e \in Event : WF_vars(QueueStep(e)) /\ WF_vars(\E w \in Worker : Receive(w, e))

LiveSpec == Spec /\ Fairness
-----------------------------------------------------------------------------
(* Properties.                                                              *)

TypeOK ==
  /\ useOutbox \in BOOLEAN
  /\ input \in [Event -> Input]
  /\ queue \in [Event -> {"visible", "inflight", "deleted", "dlq"}]
  /\ receives \in [Event -> Nat]
  /\ row \in Row
  /\ outbox \subseteq OutboxRow
  /\ published \subseteq OutboxRow
  /\ s3 \in [safe : BOOLEAN, source : BOOLEAN, quarantine : BOOLEAN]
  /\ pc \in [Worker -> Label]
  /\ job \in [Worker -> Event \cup {NoEvent}]
  /\ claim \in [Worker -> Nat]
  /\ retryable \in [Worker -> BOOLEAN]
  /\ results \subseteq Result

\* apply_claim_fence: every result is the only one of its claim and is written
\* while that claim is the newest, whatever expired, crashed or was retried.
Lease == INSTANCE LeaseRegister WITH
  Outcome <- [event : Event, status : {"COMPLETED", "FAILED"}, final : BOOLEAN],
  version <- row.version,
  holder  <- row.token,
  expired <- row.expired,
  results <- {[lease |-> r.claim,
               outcome |-> [event |-> r.event, status |-> r.status, final |-> r.final]] :
              r \in results}

LeaseProtocol == Lease!LeaseSpec

\* save_with_outbox: a result and its event are stored together or not at all;
\* no result of an upload lacks its outbox row, no outbox row lacks its result.
EventOf(r) == [type |-> IF r.status = "COMPLETED" THEN "ANALYSIS_COMPLETED"
                                                  ELSE "PROCESSING_FAILED",
               event |-> r.event, claim |-> r.claim]

NeedsEvent(r) == r.status = "FAILED" \/ input[r.event].kind = "UPLOADED"

OutboxMatchesResults ==
  useOutbox =>
    {EventOf(r) : r \in {q \in results : NeedsEvent(q)}} =
    {[type |-> o.type, event |-> o.event, claim |-> o.claim] : o \in outbox}

\* Direct mode publishes after the save: whatever was announced is a result of
\* that claim, so a worker that lost its lease announces nothing.
AnnouncedWasSaved ==
  \A p \in published : \E r \in results :
    EventOf(r) = [type |-> p.type, event |-> p.event, claim |-> p.claim]

\* One input event has at most one ANALYSIS_COMPLETED event, however often it
\* is delivered or reprocessed: consumers see one verdict per input event.
OneCompletionEvent ==
  \A o, q \in outbox :
    o.type = "ANALYSIS_COMPLETED" /\ q.type = "ANALYSIS_COMPLETED" /\ o.event = q.event
      => o = q

\* A message leaves the queue only after its event is COMPLETED in the row (or
\* is of a type the processor ignores): no lost work on any error path.
AckedAfterCompletion ==
  \A e \in Event : queue[e] = "deleted" =>
    \/ input[e].kind = "OTHER"
    \/ \E r \in results : r.event = e /\ r.status = "COMPLETED"

\* The source is deleted only once the quarantine copy exists and the result
\* that names it is committed; a crash or a stale worker never loses the file.
SourceKeptUntilQuarantined ==
  ~s3.source =>
    /\ s3.quarantine
    /\ \E r \in results : r.status = "COMPLETED" /\ input[r.event].kind = "UPLOADED"

\* The object the row names exists, so a reader of the row can fetch the file.
CanonicalObjectExists == IF row.location = "source" THEN s3.source ELSE s3.quarantine

\* The error of an attempt goes when the next one claims the row: a COMPLETED
\* row never carries the message and code of an earlier failure.
ErrorOnlyWhenFailed == row.error => row.status = "FAILED"

\* A settled event (completed, or rejected for good) gets no second result:
\* its redeliveries are duplicates.
SettledOnce ==
  \A r, q \in results : r.event = q.event /\ r.final => q.claim <= r.claim

\* Only an event that fails validation is raised as NonRetryableError.
OnlyInvalidRejected ==
  \A w \in Worker : pc[w] = "reject" => input[job[w]].check # "ok"

\* A redelivery of an event that has completed is recognised: it is neither
\* processed again nor rejected.
CompletedRecognised ==
  [][\A w \in Worker :
       /\ pc[w] = "read"
       /\ \E r \in results : r.event = job[w] /\ r.status = "COMPLETED"
       => pc'[w] \notin {"claim", "reject"}]_vars

\* Every message is acknowledged or ends in the dead-letter queue, whatever
\* fails on the way: no worker holds one for ever.
EventuallySettled == \A e \in Event : <>[](queue[e] \in {"deleted", "dlq"})
=============================================================================
