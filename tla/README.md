# FSAMP processor: TLA+ models, model checking and proofs

The repository (`src/`) is the processor service of a file platform: it takes
file events from SQS, validates and analyses the object in S3, records the result
in DynamoDB and publishes a result event through SNS, either directly or by a
transactional outbox that separate Lambda functions drain.  Its difficulty is not
in the analysis but in what several workers, redelivered messages, expiring
leases, crashes and half-failed AWS calls do to one shared row.  That is what is
modelled here.  Paths below are relative to `src/src/processor/` unless they start
with `src/`.

## 1. Inventory

| Component (source) | State it keeps | Operations | Here |
|---|---|---|---|
| File processor service, `application/file_processor.py` | none across calls; per call: claim, failure class | `handle` and the steps under it | `FileProcessing`; one attempt with its retries in `Worker` |
| Metadata repository, `adapters/outbound/dynamodb_repo.py` | the METADATA row: status, version, claim token, lease expiry, last event, error, location | `claim_processing`, `save`, `apply_claim_fence`, `get_by_id` | `FileProcessing`, `LeaseRegister`, `LeaseTiming` |
| Outbox repository, `adapters/outbound/outbox_repo.py` | outbox rows | `save_with_outbox` (transaction, replay branch); `mark_published`, `mark_failed`, `_get_events` have no caller | `FileProcessing`, `RetriedCall` |
| S3 storage, `adapters/outbound/s3_storage.py` | source and quarantine object | `download`, `copy`, `delete`; `upload`, `exists` have no caller | `FileProcessing` |
| SNS publisher, `adapters/outbound/sns_publisher.py` | none | `publish` (direct mode) | `FileProcessing`, `Worker` |
| Outbox publisher and retry Lambdas, `outbox_publisher.py` | the outbox row: status, retry count, publisher token, expiry; the stream record | `record_handler`, `claim_event_for_publish`, `publish_to_sns`, `mark_event_*`, `retry_pending_events`, `_query_retryable`, `get_topic_arn_for_event` | `OutboxPublisher` (one row), `RetrySweep` (a cycle), `Worker` (start-up, routing) |
| SQS consumer, `adapters/inbound/sqs_consumer.py` | `_running`, `_shutdown_event`, error count, current batch | `start_blocking`, `stop`, `_consume_loop`, `acknowledge`, `reject` | `SQSConsumer`; its answers also in `FileProcessing`, `LeaseTiming` |
| Lambda handler, `lambda_handler.py` | module globals: factory, service | `get_file_processor` (cold start), `record_handler` | `Startup`, `Worker`, `FileProcessing` (`BatchItemFailure`) |
| Events and models, `domain/events.py`, `domain/models.py` | the formats | variants, envelopes, output ids, outbox rows, shards | `EventContract`; rows as far as control depends on them |
| AWS retry policy, `adapters/outbound/aws_retry.py` | none | three attempts per call, each of several requests | `RetriedCall`, `RemoteCall` |
| Settings, client factory, FIPS, `config.py`, `infrastructure/`, `openssl_runtime.py` | read once; cached clients | the checks of the start-up | `Startup` |
| Entry point, `main.py` | none | start-up sequence, then `start_blocking` | `Startup`, `SQSConsumer` |
| Exceptions, `domain/exceptions.py` | none | which `except` catches what | the branches of the actions |
| Ports, `ports/` | none | interfaces | `RemoteCall` says what a call of an outbound port means |
| Crypto, `adapters/outbound/kms_crypto.py`; logging | none that a later step reads | `compute_hash`, `verify_key_access` used | partly; section 9 |

**How they interact.**  SQS hands a message to a worker: the thread of a container
(`SQSConsumer`) or a Lambda invocation.  The worker calls `handle`, which reads
the row (duplicate check), claims it (a conditional update that draws a token, adds
one to the version and sets a lease of 330 s), downloads, perhaps copies to
quarantine, and writes the result under the *fence* (same token, version and event
as its claim), in one transaction with the outbox row when the outbox is on.  It
deletes the source of a quarantined file and returns; the caller then
acknowledges.  Any exception becomes a FAILED result under the same fence and is
raised again; `NonRetryableError` leaves the message to the redrive policy, any
other exception asks for redelivery.  An inserted outbox row reaches the publisher
Lambda by the table's stream; a scheduled Lambda sweeps up what the stream lost.
Both claim the row by a token and a lease of their own before they publish.

**What is hard.**  Every AWS call is a point where others move; a call may take
effect and report failure, and is repeated by two layers of retries; a lease may
expire under a live worker; a crash may fall between any two calls; SQS redelivers
messages that are still being processed; three start-up sequences make the same
checks in different orders.  The hazards, each at its line, are listed under
`hazards` in `PROJECT.json` together with the property that watches it, or the
reason why none does.

**What makes each component correct.**

* *Claims*: of all workers that ever held a claim, only the newest writes a result,
  and only once (`LeaseProtocol`); a claim lasts as long as a Lambda may run
  (`LambdaKeepsLease`), and what it leaves behind does not show in a later result
  (`ErrorOnlyWhenFailed`).
* *Outbox*: result and event are stored together or not at all
  (`OutboxMatchesResults`), one completion event per input event
  (`OneCompletionEvent`), one verdict per attempt (`OneVerdict`).
* *Direct mode*: nothing is announced that was not saved (`AnnouncedWasSaved`).
* *Acknowledgement*: no message leaves the queue before its work is in the row
  (`AckedAfterCompletion`), and every message leaves it (`EventuallySettled`).
* *Redelivery*: an orphaned lease costs a Lambda message few receives
  (`FewRefusals`), one fault never costs the message (`Recovers`), and slowness
  alone never does (`UnprocessedMeansFault`).
* *Objects*: the content is never lost (`SourceKeptUntilQuarantined`) and the row
  names an object that exists (`CanonicalObjectExists`).
* *Idempotence*: a settled event gets no second result (`SettledOnce`); a valid one
  is never rejected for good (`OnlyInvalidRejected`).
* *Publisher*: nothing is marked or acknowledged that SNS does not have; a late
  worker neither downgrades a row nor spends its holder's retries; every row is
  published or spends its retries.
* *Retry cycle*: no row starves behind others that the filter drops
  (`FoundUnlessOlderFill`) or is tried twice (`TriedOnce`); an error of one row does
  not cost the others their turn (`OnlyMalformedStops`).
* *Retries*: a repeated write is written once (`ResultWrittenOnce`), and callers see
  nothing of the repetition (`CallIsRemoteCall`).
* *Consumer*: what is deleted was handled; a stop request ends the loop after at
  most one more handler.
* *Start-up*: no client or call before the FIPS check (`NoCallBeforeFips`), and a
  configured process comes to serve (`ConfiguredServes`).
* *Events*: container and Lambda read the same event from a body
  (`ConsumersAgree`), and every row a processor writes passes the publisher's checks
  (`RowsPublishable`).

## 2. Modules

```
LeaseRegister             what the claim protocol promises (abstract)
   ^ refinement: LeaseProtocol
FileProcessing            workers, SQS, METADATA row, outbox, S3, crashes
   MCFileProcessing           TLC instance (one event)
   MCFileProcessingPair       TLC instance (an upload and a second event of the file)
   FileProcessingProofs          types; claims implement LeaseRegister
   FileProcessingResultProofs    acknowledgement, outbox, deletion, announcements
   FileProcessingOneEventProofs  the verdict of a file with one event to act on
LeaseTiming               one message, its visibility and its lease on a clock
   LeaseTimingProofs
OutboxPublisher           one outbox row raced by stream and retry Lambdas
   MCOutboxPublisher          TLC instance
   OutboxPublisherProofs      all its safety properties
RetrySweep                a whole retry cycle over several rows
   RetrySweepProofs           all its safety properties
SQSConsumer               life cycle, poll loop, answers to SQS (ECS mode)
   MCSQSConsumer              TLC instance
   SQSConsumerProofs          all its safety properties
RemoteCall                what a call of an adapter promises (abstract)
   ^ refinement: CallIsRemoteCall
RetriedCall               one call under both retries
Startup                   settings, checks and clients of the three kinds of process
EventContract             events, envelopes, outbox rows (pure operators)
Worker                    Startup + RetriedCall + EventContract: one process
   MCWorker                   TLC instance
   WorkerProofs               all safety properties of a call and of a process
```

`FileProcessing` composes the interacting parts of the processing path (service,
metadata and outbox repositories, S3, SNS, the queue) for many workers, each call
being one step with several outcomes.  `Worker` composes the parts of one process:
its calls are sequences of requests, and what other workers do is reduced to who
holds the row.  The two meet in the outcomes of a call: `RemoteCall` states what
`FileProcessing` gives each call, and `RetriedCall` is shown to keep it.
`LeaseTiming` takes the steps of an attempt together and puts them on a clock,
which `FileProcessing` leaves out (there a lease may expire at any time).
`SQSConsumer` takes the handler as a black box that returns or raises;
`OutboxPublisher` starts from a row that `OutboxMatchesResults` says exists.

Operators whose comment begins "Fault:" are not part of any specification: each
is a plausible wrong version of the operator after it, and shows that the
property checked against it can fail.

### FileProcessing

*One file*: the key of every item contains the file id, so files do not interact.
A state variable per store (`row`, `outbox`, `published`, `s3`, `queue` and
`receives`) and per worker (`pc`, the label of its next AWS call; `job`; `claim`;
`retryable`).  `useOutbox` is chosen initially and stays.  `results` is history: it
records who wrote which result.

* A claim's uuid token and its version are drawn together, so `row.token` is the
  version of the claim and 0 when the attribute is removed.  `row.expired` stands
  for the comparison of `processingLeaseExpiresAt` with the clock; `LeaseExpires`
  may happen at any time, also under a live worker.
* Outcomes of a call follow from the retry decorator: applied and reported; not
  applied and reported as error; applied, but the last response lost.  For a
  conditional call, a retry after a lost response meets its own condition: the
  claim is refused by its own lease (`ClaimLost`), a save by its own fence
  (`Save`), a transaction is answered by its idempotency token or, that forgotten,
  cancelled (`CommitTransaction` moving to `replay`).
* `input` gives an event its type and the verdict of validation: `ok`,
  `untrusted` (location or declared size, before any call) or `mismatch` (actual
  object or checksum, after the download).  `s3.safe` is the verdict of the header
  policy; it is a property of the content, hence the same on every attempt.
* `_idempotent_result` looks at `row.last` alone, `build_metadata_update` never
  removes what a record lacks (so a retryable failure keeps the old `last`, and an
  `error` would stay if the claim did not remove it), and every result record starts
  from the event's own location: all of this matters for the findings.
* `Reject` (ECS) makes no SQS call and `BatchItemFailure` (Lambda) none either; the
  message stays in flight until `VisibilityTimeout`.

### LeaseTiming

One message and one row, `Tick` being one unit of time; all other steps take none.
`mode` is chosen initially.  A Lambda has a time limit, and its failures leave the
message hidden; a container has none, and its `reject` makes the message visible at
once, if its receipt is still the valid one.  A worker's download, copy and commit
are the time between `Claim` and its end.  An expired lease is `lease = 0`.

### OutboxPublisher

One row, the stream record that announces it, and invocations started by the stream
or by the schedule.  A worker's token is its identity: an invocation draws a fresh
uuid and forgets it when it ends, which `mine` models.  `sent` is history.  SNS may
receive the event more than once; that is the at-least-once contract and no
property excludes it.  `Retention` is the ttl set on published rows.

### RetrySweep

`retry_pending_events` from its three queries to its return or the exception that
ends it.  Rows `1..Rows` are numbered by `createdAt`; every placement over the
shards, every status and every set of rows that do not convert is an initial state.
DynamoDB's rule that `Limit` is applied before the filter is `Evaluated`; the
queries run against rows that other publishers claim, settle, abandon and exhaust
meanwhile.  `unique` keeps one entry per row in the order found, as the dictionary
does; the loop tries each: it converts, is published, or fails with any of the
traces `AfterError` lists.

### SQSConsumer

One process that starts once, as `main.py` runs it; the flags `_running` and
`_shutdown_event` are set in the order of the code, one per step, so a signal falls
between them.  `errors` is the code's counter; `failedPolls` counts what the code
means to count.  What `_receive_messages` raises is `RetryError`, because its
decorator has no `reraise` (`ReceiveRaises`).

### RetriedCall and RemoteCall

One call at a time: `attempt` counts what `aws_retry` makes, `send` what botocore
sends within it.  A request is executed or not; its answer arrives or is lost; a
refused condition is final for the decorator.  `holder` is all a call has to know of
the row: free, another worker's, or the caller's own, where a claim that took effect
without an answer counts as the caller's although the next attempt draws another
token.  `effects` is history.  `RemoteCall` has neither attempts nor row: a
returned call took effect, a result is written at most once, only conditional
calls are refused, and an error leaves open what happened.

### Startup, EventContract and Worker

`Startup` has the three sequences of checks as `Steps`; a container runs them
before it serves and exits where one fails, a Lambda and a publisher run them while
their first record waits, and start over with the next record when one fails.  An
environment is a record of what the settings distinguish, a host what OpenSSL and
the cryptography binding report.  `EventContract` keeps of an event the fields that
tell its variants apart, and one bit for all other validators.  `Worker` takes a
body or an outbox row, starts up if it has to, and walks through `handle`: `Make`
starts the next call, and every step after it looks at `result`.  What was written
for the event in hand is in `rows`.

## 3. Runs

| Run | Instance | Shows |
|---|---|---|
| `fp_single` | 1 event of any type and verdict, safe or unsafe file, 2 workers, 3 receives, outbox or direct | eight safety properties, and that every message settles |
| `fp_pair` | a valid upload and a second valid upload or scan event, 2 workers, 2 receives each, outbox | one completion event although events overwrite each other's `lastProcessedEventId`; refinement of `LeaseRegister` |
| `lease_timing` | 3 workers, 4 receives, visibility 300 s, lease 330 s, limit 270 s in units of 30 s; both modes | no Lambda loses its lease; what an orphaned lease and one fault cost; nothing is lost without a fault |
| `op_race` | 2 invocations, 3 retries | five safety properties of the publisher, and that the row is published or exhausted |
| `rq_sweep` | 3 rows, 2 shards, limit 3, 2 steps of other publishers | what one cycle finds, tries and is stopped by; it ends |
| `sc_run` | 3 messages, batches of 2, any number of signals | deletion, late handlers, a stop ends the loop |
| `wk_serve` | 3 kinds of process, 10 environments, 4 hosts, 4 events in 10 bodies, 3 attempts of 2 requests, 1 start-up fault | order and success of the start-up, both readers of envelopes, rows, retries, verdicts and answers |
| `fp_pair_CanonicalObjectExists`, `fp_pair_CompletedRecognised`, `sc_signal`, `sc_errors`, `wk_fips` | | what the code does against what it or its tests say; section 4 |

All passing runs are exhaustive, with no state constraint.  A type invariant or a
bound that is proved for every instance (`TypeOK` of `FileProcessing` and
`LeaseTiming`, `ResultWrittenOnce`) was model-checked before its proof and is not
checked again by a run; in `fp_pair` that also goes for the properties `fp_single`
checks.  `wk_serve` also checks
that nothing deadlocks: a process always has a message it may take.  In the others
deadlock checking is off because the system modelled may really stop: all messages
settled and no time passing, the row removed, the cycle returned, the process
exited.

**Bounds.**  Most bounds are the system's own: `MaxReceive` is the queue's
`maxReceiveCount`, `MaxRetries` is `MAX_RETRY_COUNT`, `Attempts` and `Sends` are the
retries', `MaxMessages` and the limit of five errors are the code's.  Nothing else in
`FileProcessing` grows except `row.version`, which each receive raises at most
once.  `MaxMoves` and `MaxFaults` are bounds of the models.

* Two workers are enough for every two-party race: an owner whose lease expired and
  its successor.  Three receives let an attempt die with its claim, a second take it
  over and lose it, and a third finish.  The safety properties are also proved for
  every number of both (section 6); the run of two events takes two receives each, so
  that A, B and A again is among its behaviours.
* `fp_pair` fixes the upload as valid and leaves out ignored types, which touch
  neither row nor object.
* Fewer workers than receives is what makes `EventuallySettled` demanding: a worker
  that waited for ever would exhaust the workers before the redrive policy.
* `lease_timing`: one orphaned lease costs one receive (`LeaseCost`), which with the
  attempt that meets the fault and the one that succeeds makes three, the least for
  which `Recovers` holds; the fourth is there for a second fault.  Three
  workers let an orphan, its successor and a late worker meet.  Units of 30 s divide
  the three settings; that only whole units pass loses no order of events, because
  any number of steps fits between two ticks.
* `op_race`: three failures are the number needed for a retry of the stream, one of
  the sweep and the exhausting one.
* `rq_sweep`: three rows in two shards with two per shard give pages that are full,
  cut short by the filter, empty and last, and a per-shard limit that is rounded up;
  two moves take a row from one status to another that is queried later.
* `wk_serve`: botocore makes three requests where the run makes two; one resend
  already puts a lost answer before a repeated request and before a repeated attempt.
  The environments are one for each part of the checks and those that pass them all;
  the hosts are one for each branch of the FIPS check.
* Workers and messages are symmetry sets only in runs without liveness properties.

**Fairness.**  *FileProcessing*: weak fairness of a worker's steps (an AWS call
returns or times out), of the queue's timers, and of receiving a visible message.
Crashes, duplicates and lease expiry need not happen, and success of a call is never
assumed: a message may fail its way into the dead-letter queue.  *LeaseTiming*: time
passes, the queue delivers and redrives, a worker claims and answers, an overdue
Lambda is stopped.  `Recovers` supposes at most one fault, which is its hypothesis
and no fairness.  *OutboxPublisher*: weak fairness of steps and expiry; strong
fairness of the schedule (EventBridge keeps firing) and of the successful outcome of
claim, mark and failure mark, since a call that is tried for ever does not fail for
ever; without it every claim may be lost and no counter moves.  Strong fairness of
publishing while the lease is held says that it is not always outlasted (30 s or
more, against one SNS call).  Crashes may recur.  *RetrySweep*: weak fairness of the
cycle; a query may raise.  *SQSConsumer*: weak fairness of the one thread.
*Worker*: weak fairness of its own steps and requests, and of the orchestrator
that restarts an exited container; messages need not come and calls may all fail.

## 4. Disagreements

The runs show five:

* `fp_pair_CompletedRecognised`: the row remembers one event.  After A completes and
  B gets a result, a redelivery of A is claimed and processed again, although tests
  and the service's own header call it idempotent; redelivered while B still holds
  the row, A meets `last = A` with status PROCESSING, is raised as "Previously
  rejected input event" and left to the dead-letter queue.
* `fp_pair_CanonicalObjectExists`: any result of a second event (or a failed one)
  writes the event's own location, the source that quarantine deleted.  It is proved
  that a row is wrong in no other way (`OnlyQuarantinedMisnamed`).
* `sc_signal`: `stop()` does nothing before `_running` is set; a SIGTERM in that
  window is lost and the container runs on.
* `sc_errors`: exhausted receives surface as `RetryError`, which the clause that
  counts errors does not catch; five failed polls stop nothing.  It is proved that no
  error is ever counted (`OnlyASignalEndsTheLoop`).
* `wk_fips`: an `AWS_ENDPOINT_URL` that is set and empty is no endpoint to the
  settings, which test its truth, and one to the client factory, which tests for
  `None`: the clients then talk to AWS without FIPS endpoints.  It is proved to be the
  only such environment (`ClientsUseFips`).

Met while modelling, without a run of their own:

* The docstring of `validate_outbox_runtime` asks for a result topic, the code
  accepts `FILE_EVENTS_TOPIC_ARN` alone, with which no result can be routed.
* `src/README.md` calls `SNS_TOPIC_ARN` required; the code requires it in local mode
  without an outbox only.
* A container with `IS_LAMBDA` set skips the check of `SQS_QUEUE_URL`
  (`ConfiguredServes` speaks of containers that have it).
* A failure whose exception has no text leaves no diagnostics, because
  `FailureDetails` demands a message and its error is swallowed;
  `DiagnosticsWritten` excepts it by the outcome `nameless`.
* In ECS mode a refused claim is visible again at once, so one orphaned lease can
  spend all receives: `FewRefusals` and `Recovers` hold for Lambdas only.

Losses that the models contain contradict nothing that is said: in direct mode a
publish that fails after the save is never repeated (the redelivery is a duplicate);
an outbox row that fails `MAX_RETRY_COUNT` times stays FAILED, sent or not; a row
that does not convert ends every retry cycle that finds it; a row stays PROCESSING
once its message is dead-lettered.

What holds may surprise as much.  The restore of the row in the replay branch of
`save_with_outbox` never changes anything: the completion event it has found was
stored by the transaction that also ended this claim, so the fence refuses.  This is
`OutboxReleased` in `FileProcessingProofs`, and a proof step rests on it.

## 5. Mutants

`PROJECT.json` pairs every property of every passing run with a wrong version of a
modelled definition (an unconditional commit, a fence on the event only, a move
instead of a copy, a swallowed error, a lost page key, a lease of half the time
limit, clients created before the checks) under which TLC finds the property
violated.

## 6. Proofs

All theorems hold for every value of the constants allowed by the named assumptions:
`ConfigAssumption` (`NoEvent` is no event, `MaxReceive` a natural number),
`PublisherAssumption` (`NoToken` is no worker, `MaxRetries` is positive),
`TimingAssumption` (the time limit is positive and less than lease and visibility
timeout, workers are finitely many), `ConsumerAssumption` (`NoMessage` is no message,
batches of one to ten), `SweepAssumption`, `CallAssumption` (at least one attempt and
one request), `StartupAssumption` and `InputAssumption`.  Any number of workers,
events of the file, deliveries, messages, rows and retries; outbox on or off.

With them every safety property that a passing run checks is a theorem: invariants,
action properties and both refinements.  Three are theorems under a hypothesis on the
events, for without it they are false (below).

### FileProcessing

* `FileProcessingProofs!TypeCorrect`: `[]TypeOK`, by `TypeInv`, which adds that a busy
  worker has a job; labels alone would not say that `input[job[w]]` is an input.
* `FileProcessingProofs!ClaimsImplementLeaseRegister`: `Spec => LeaseProtocol`.
  `LeaseInv` adds two facts.  `ClaimedWork`: a worker between download and failure has
  a claim, so its fence cannot be met by a row without a token.  `OutboxReleased`: a
  claim that stored an outbox row is no longer the row's token, so the replay branch
  cannot write.  Then each step is a `Grant` (claim), an `Expire`, a `Record` (fenced
  result) or changes none of the register's variables.
* `FileProcessingResultProofs`: `NoWorkLost` (`AckedAfterCompletion`), `OutboxAtomic`
  (`OutboxMatchesResults`), `SingleCompletion` (`OneCompletionEvent`) and `ContentKept`
  (`SourceKeptUntilQuarantined`), from one invariant, `ResultInv`.  The properties
  speak of the queue, the outbox and the objects; they are not inductive because they
  do not say what a worker that is about to ack or delete has been through.  `Knows(w)`
  says it label by label (about to ack: ignored or completed; about to clean up:
  completed upload and copy made), `RowTrue` and `OutboxTrue` say that what the
  duplicate check and the replay branch read is true.  `Grows` lists what no step takes
  back, so that only the moving worker's knowledge has to be shown again.
  `NothingUnsavedAnnounced` (`AnnouncedWasSaved`) adds what a worker at a publishing
  label has saved; `NoStaleError` (`ErrorOnlyWhenFailed`) that a row with a token is
  PROCESSING, hence that a fenced write finds no error to keep.
* `FileProcessingResultProofs!OnlySettledOrInvalidGivenUp`: for any number of events, a
  message is rejected only if its event is invalid or has a final result.
  `GivenUpInv` adds that the row's last event always has one.  This is what remains of
  `OnlyInvalidRejected` when several events name the file.  `OnlyQuarantinedMisnamed` is
  what remains of `CanonicalObjectExists`, by `ObjectInv`: only a worker with an unsafe
  file comes to delete a source, and a row names the quarantine once the copy is made.
* `FileProcessingOneEventProofs` supposes `OneEvent`: at most one event of the file is
  of a type the processor acts on (of ignored types there may be many), as every
  instance of `fp_single` does.  Two such events falsify what is proved here: a second
  result takes `lastProcessedEventId` and the location from the first, which
  `fp_pair_CompletedRecognised` and `fp_pair_CanonicalObjectExists` show.  Under it
  `SettledForever` (`SettledOnce`), `CanonicalObjectKept` (`CanonicalObjectExists`),
  `ValidNeverRejected` (`OnlyInvalidRejected`) and `RedeliveryRecognised`
  (`CompletedRecognised`) hold, by `OneEventInv`: a final result is what the row says
  and the row has no claim (`SettledInv`), so that no claim and no fence can pass any
  more (`SettledForGood`); `ObjectInv`; and what a worker's label says of its event
  (`Acts`).

### The other components

* `LeaseTimingProofs`: `TimingInv` counts attempts (refusals, faults and active
  workers together never exceed the receives: `TimingTypeCorrect`) and says that lease
  and age of the invocation that holds it make up at least the whole lease, which time
  does not change: `LambdaLeaseKept` (`LambdaKeepsLease`).  `CostInv` says that only the
  last receiver of a Lambda message is at it, and that remaining lease, the whole
  visibility periods that refusals since the claim have used and the one that runs
  never exceed limit and lease together; a refusal needs a lease that lasts, so
  `LeaseCostsFewReceives` (`FewRefusals`).  `FaultInv` says that
  without a fault the owner of the row is at work on it and somebody is at work since
  the first receive; who is refused or fenced leaves the owner behind:
  `UnprocessedOnlyByFault` (`UnprocessedMeansFault`).
* `OutboxPublisherProofs`: `TypeCorrect`, `PublishedOnlyIfSent`, `AckedOnlyIfPublished`,
  `NoDowngrade`, `OwnerCommits`: every safety property of the publisher, from one
  invariant: a worker holds no token but its own, whoever is about to mark has sent, and
  while the row is PUBLISHING it has a token and its count is below the limit, which is
  why two racing failures cannot pass `MAX_RETRY_COUNT`.
* `RetrySweepProofs`: `SweepTypeCorrect` (`TypeOK`); `RowTriedOnce` (`TriedOnce`) and
  `MalformedAloneStops` (`OnlyMalformedStops`), from the fact that no two entries of the
  dictionary name one row; `NoRowStarves` (`FoundUnlessOlderFill`), by `WalkInv`: what
  is found lies in the part of the shards the walk has passed, `count` is the number
  found in the present shard, and a steady row in that part has been found or has as
  many older ones found in its shard as the shard's share.  A page that
  returns `n` evaluated rows leaves none of the shard behind its last; one that returns
  fewer was the last (`MorePages`).
* `SQSConsumerProofs`: `ConsumerTypeCorrect` (`TypeOK`), `OnlyHandledDeleted`
  (`DeletedWasHandled`) and `AtMostOneLateHandler` (`OneLateHandler`), by `ConsumerInv`:
  the message in hand is one from the shutdown test to the answer, who acknowledges
  has handled, and after a late handler the event stays set and no handler is about to
  begin.  `OnlyASignalEndsTheLoop`, by `StopInv`: no error is counted, so `_running`
  is cleared and the event set by signals alone.
* `WorkerProofs`, one call: `CallInv` says that a write that took effect has given the
  claim up, and nothing in the call gets it back; so it is executed once
  (`ResultIsWrittenOnce`), and every request is a step of the abstract call
  (`RetriesImplementRemoteCall`).  `WorkerMakesCalls`: all that a process does with its
  adapters is a behaviour of `RetriedCall`, so both carry over (`WorkerWritesOnce`,
  `WorkerSeesRemoteCalls`).
* `WorkerProofs`, the start-up: `WorkerTypeCorrect` (`WorkerTypeOK`).  `FipsBeforeCalls`
  (`NoCallBeforeFips`), by `FipsInv`: past the FIPS step it holds, and who has clients
  or serves is past it.  `ClientsUseFips`: `RealClientsUseFips` wherever the endpoint is
  not the empty string.  `OnlyFailedCallsStopStartup`: a configured process leaves its
  start-up to serve or because a call to AWS failed, which is what `ConfiguredServes`
  needs besides fairness.
* `WorkerProofs`, the work: `OneReadingOfBodies` (`ConsumersAgree`) is a fact about the
  two readers, by cases on the envelope.  `ResultOrFailure` (`OneVerdict`), by
  `VerdictInv`: if the result's row is there the claim is gone, so the failure's
  transaction is refused.  `RowsArePublishable` (`RowsPublishable`),
  `AcknowledgedWorkIsRecorded` (`AcknowledgedIsRecorded`) and `FailuresAreDiagnosed`
  (`DiagnosticsWritten`), by `WorkInv`, which the last two need because an answer is
  given one step after the call it reports: it says which call each task makes and that
  its event is valid (`CallsMade`), that a message in hand was validated (`InHandValid`),
  that rows are those of valid results and failures (`RowsValid`), and that a message
  has no answer before it is answered.

**Only model-checked**: liveness (`EventuallySettled`, `Recovers`, `EventuallyDone`,
`StopEndsLoop`, `CycleEnds`, `MessageAnswered`, `ConfiguredServes`), which needs fairness
and ENABLED and is out of the prover's reach.  No theorem speaks of the properties the
violation runs refute beyond the cases named above.

## 7. Running

    tlc -workers 2 -config fp_single.cfg MCFileProcessing.tla
    tlapm FileProcessingResultProofs.tla

`PROJECT.json` names the module of every configuration, the source lines of every
definition, the findings, the hazards and the theorems.

## 8. Plan

Done: the core (claims, results, outbox, objects, acknowledgement) in both modes, the
timing of leases, the publisher, the retry cycle, the consumer, calls under retries,
start-up and event contract of the three kinds of process, and the proofs above.
Left, in order:

1. Proofs: the safety steps behind the liveness properties, as for `ConfiguredServes`:
   what each step of the consumer's loop and of a cycle takes off the work left.
2. The item conversions of `domain/models.py`, both ways, as operators checked against
   each other.
3. Processing and publishing in one model, from an uploaded event to SNS; today they
   meet in `OutboxMatchesResults` and `RowsPublishable`.

## 9. Not modelled, and why

* `kms_crypto.py`: stateless envelope encryption without a caller; the processing
  path uses `compute_hash`, part of the verdict `mismatch`, and the start-up
  `verify_key_access`.
* `infrastructure/logging.py`, metrics and tracing: output only.
* Attribute by attribute conversions of `domain/models.py`, single-field patterns and
  ranges of `domain/events.py` and `config.py`: one verdict each, because nothing
  but acceptance depends on them here.
* Operations nothing in the source calls: `start()` of the consumer in a background
  thread, `upload` and `exists`, `mark_published`, `mark_failed`, `_get_events`,
  `clear_cache`.
* Waiting times between retries: calls are repeated at any time, which includes the
  backoff.
* SNS, SQS, DynamoDB and S3 themselves are external: at-least-once delivery,
  conditional writes and transactions that are atomic, strongly consistent reads where
  the code asks for them.
