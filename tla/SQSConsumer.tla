---------------------------- MODULE SQSConsumer ----------------------------
(***************************************************************************)
(* The long-polling consumer of ECS mode as main.py runs it: one process   *)
(* that starts once, polls, answers SQS for every message of a batch, and  *)
(* is told to stop by a signal.  The handler it calls is FileProcessing;   *)
(* here it returns or raises as it likes.                                  *)
(***************************************************************************)
EXTENDS Naturals, FiniteSets

CONSTANTS
  Message,
  NoMessage,
  MaxMessages    \* max_messages, clamped to 1..10

ASSUME ConsumerAssumption ==
  /\ NoMessage \notin Message
  /\ MaxMessages \in 1..10

MaxConsecutiveErrors == 5

VARIABLES
  running,       \* _running
  shutdown,      \* _shutdown_event.is_set()
  pc,            \* where start_blocking and _consume_loop are
  batch,         \* received messages not yet reached
  current,       \* the message in _process_message
  errors,        \* consecutive_errors
  sqs,           \* per message: where the queue holds it
  handled,       \* history: messages whose handler has returned
  signalled,     \* history: SIGTERM or SIGINT has been delivered
  failedPolls,   \* history: polls failed since the last good one, up to the limit
  late           \* history: handlers begun after the shutdown event was set

vars == <<running, shutdown, pc, batch, current, errors, sqs, handled, signalled,
          failedPolls, late>>

flags == <<running, shutdown, signalled>>
work  == <<batch, current>>

Init ==
  /\ running = FALSE
  /\ shutdown = FALSE
  /\ pc = "created"              \* the signal handlers are installed
  /\ batch = {}
  /\ current = NoMessage
  /\ errors = 0
  /\ sqs = [m \in Message |-> "visible"]
  /\ handled = {}
  /\ signalled = FALSE
  /\ failedPolls = 0
  /\ late = 0

-----------------------------------------------------------------------------
(* Lifecycle: start tests _running, sets it, then clears the event.         *)

StartChecks ==
  /\ pc = "created"
  /\ ~running
  /\ pc' = "starting"
  /\ UNCHANGED <<flags, work, errors, sqs, handled, failedPolls, late>>

StartSetsRunning ==
  /\ pc = "starting"
  /\ running' = TRUE
  /\ pc' = "flagged"
  /\ UNCHANGED <<shutdown, signalled, work, errors, sqs, handled, failedPolls, late>>

StartClearsEvent ==
  /\ pc = "flagged"
  /\ shutdown' = FALSE
  /\ pc' = "check"
  /\ UNCHANGED <<running, signalled, work, errors, sqs, handled, failedPolls, late>>

\* _signal_handler calls stop, which does nothing unless _running.
Signal ==
  /\ pc # "exited"
  /\ signalled' = TRUE
  /\ IF running THEN running' = FALSE /\ shutdown' = TRUE
                ELSE UNCHANGED <<running, shutdown>>
  /\ UNCHANGED <<pc, work, errors, sqs, handled, failedPolls, late>>

-----------------------------------------------------------------------------
(* _consume_loop                                                            *)

\* Fault: the loop tests the event alone, which start clears.
LoopConditionEventOnly ==
  /\ pc = "check"
  /\ pc' = IF ~shutdown THEN "poll" ELSE "exited"
  /\ UNCHANGED <<flags, work, errors, sqs, handled, failedPolls, late>>

LoopCondition ==
  /\ pc = "check"
  /\ pc' = IF running /\ ~shutdown THEN "poll" ELSE "exited"
  /\ UNCHANGED <<flags, work, errors, sqs, handled, failedPolls, late>>

Poll ==
  /\ pc = "poll"
  /\ \E received \in SUBSET {m \in Message : sqs[m] = "visible"} :
       /\ Cardinality(received) <= MaxMessages
       /\ batch' = received
       /\ sqs' = [m \in Message |-> IF m \in received THEN "inflight" ELSE sqs[m]]
  /\ failedPolls' = 0
  /\ pc' = "next"
  /\ UNCHANGED <<flags, current, errors, handled, late>>

\* What _receive_messages raises once its three attempts have failed: tenacity
\* wraps the ClientError, for the decorator does not ask it to reraise.
ReceiveRaises == "RetryError"

\* Fault: errors are counted and never limited.
LoopCatchesUnlimited(raised) ==
  errors' = errors + 1 /\ pc' = "check" /\ UNCHANGED running

\* The two except clauses of the loop, sleeping or giving up.
LoopCatches(raised) ==
  IF raised = "ClientError"
  THEN /\ errors' = errors + 1
       /\ running' = (running /\ errors + 1 < MaxConsecutiveErrors)
       /\ pc' = IF errors + 1 < MaxConsecutiveErrors THEN "check" ELSE "exited"
  ELSE pc' = "check" /\ UNCHANGED <<running, errors>>

PollFails ==
  /\ pc = "poll"
  /\ failedPolls' = IF failedPolls < MaxConsecutiveErrors THEN failedPolls + 1 ELSE failedPolls
  /\ LoopCatches(ReceiveRaises)
  /\ UNCHANGED <<shutdown, signalled, work, sqs, handled, late>>

-----------------------------------------------------------------------------
(* _process_messages and _process_message                                   *)

\* Fault: the batch is finished whatever the shutdown event says.
NextMessageUntested ==
  /\ pc = "next" /\ batch # {}
  /\ \E m \in batch : current' = m /\ batch' = batch \ {m}
  /\ pc' = "handle"
  /\ UNCHANGED <<flags, errors, sqs, handled, failedPolls, late>>

\* The shutdown test comes before each message; the handler starts after it.
NextMessage ==
  /\ pc = "next" /\ batch # {} /\ ~shutdown
  /\ \E m \in batch : current' = m /\ batch' = batch \ {m}
  /\ pc' = "handle"
  /\ UNCHANGED <<flags, errors, sqs, handled, failedPolls, late>>

BatchDone ==
  /\ pc = "next" /\ (batch = {} \/ shutdown)
  /\ batch' = {}
  /\ errors' = 0
  /\ pc' = "check"
  /\ UNCHANGED <<flags, current, sqs, handled, failedPolls, late>>

\* Fault: a rejected message is deleted so as not to come back.
HandleDeletesRejected ==
  /\ pc = "handle"
  /\ late' = IF shutdown THEN late + 1 ELSE late
  /\ pc' = "ack"
  /\ handled' \in {handled, handled \cup {current}}
  /\ UNCHANGED <<flags, work, errors, sqs, failedPolls>>

\* The handler returns; or validation or a NonRetryableError rejects the message
\* for good, with no call to SQS; or any other exception asks for a requeue.
Handle ==
  /\ pc = "handle"
  /\ late' = IF shutdown THEN late + 1 ELSE late
  /\ \/ pc' = "ack" /\ handled' = handled \cup {current} /\ UNCHANGED current
     \/ pc' = "next" /\ current' = NoMessage /\ UNCHANGED handled
     \/ pc' = "requeue" /\ UNCHANGED <<handled, current>>
  /\ UNCHANGED <<flags, batch, errors, sqs, failedPolls>>

Acknowledge ==
  /\ pc = "ack"
  /\ sqs' = [sqs EXCEPT ![current] = "deleted"]
  /\ pc' = "next"
  /\ current' = NoMessage
  /\ UNCHANGED <<flags, batch, errors, handled, failedPolls, late>>

\* MessageError is raised inside the try and ends in reject(requeue=True).
AcknowledgeFails ==
  /\ pc = "ack"
  /\ \/ sqs' = [sqs EXCEPT ![current] = "deleted"]
     \/ UNCHANGED sqs
  /\ pc' = "requeue"
  /\ UNCHANGED <<flags, work, errors, handled, failedPolls, late>>

Requeue ==
  /\ pc = "requeue"
  /\ sqs' = [sqs EXCEPT ![current] = IF @ = "inflight" THEN "visible" ELSE @]
  /\ pc' = "next"
  /\ current' = NoMessage
  /\ UNCHANGED <<flags, batch, errors, handled, failedPolls, late>>

\* MessageError leaves _process_message: the rest of the batch is dropped.
RequeueFails ==
  /\ pc = "requeue"
  /\ batch' = {}
  /\ current' = NoMessage
  /\ LoopCatches("MessageError")
  /\ UNCHANGED <<shutdown, signalled, sqs, handled, failedPolls, late>>

-----------------------------------------------------------------------------
(* The queue takes back what is in flight too long, or dead-letters it.     *)

VisibilityTimeout(m) ==
  /\ sqs[m] = "inflight"
  /\ sqs' = [sqs EXCEPT ![m] = "visible"]
  /\ UNCHANGED <<flags, pc, work, errors, handled, failedPolls, late>>

Redrive(m) ==
  /\ sqs[m] = "visible"
  /\ sqs' = [sqs EXCEPT ![m] = "dlq"]
  /\ UNCHANGED <<flags, pc, work, errors, handled, failedPolls, late>>

-----------------------------------------------------------------------------
ConsumerStep ==
  \/ StartChecks \/ StartSetsRunning \/ StartClearsEvent
  \/ LoopCondition \/ Poll \/ PollFails
  \/ NextMessage \/ BatchDone \/ Handle
  \/ Acknowledge \/ AcknowledgeFails \/ Requeue \/ RequeueFails

Next ==
  \/ ConsumerStep
  \/ Signal
  \/ \E m \in Message : VisibilityTimeout(m) \/ Redrive(m)

Spec == Init /\ [][Next]_vars

\* The process is scheduled and every call it makes ends.
LiveSpec == Spec /\ WF_vars(ConsumerStep)

-----------------------------------------------------------------------------
(* Properties.                                                              *)

TypeOK ==
  /\ running \in BOOLEAN /\ shutdown \in BOOLEAN /\ signalled \in BOOLEAN
  /\ pc \in {"created", "starting", "flagged", "check", "poll", "next", "handle",
             "ack", "requeue", "exited"}
  /\ batch \subseteq Message
  /\ current \in Message \cup {NoMessage}
  /\ errors \in 0..MaxConsecutiveErrors
  /\ sqs \in [Message -> {"visible", "inflight", "deleted", "dlq"}]
  /\ handled \subseteq Message
  /\ failedPolls \in 0..MaxConsecutiveErrors
  /\ late \in Nat

\* A message is deleted only if its handler returned: validation errors, rejected
\* events and failed acknowledgements leave it to redelivery or the DLQ.
DeletedWasHandled == \A m \in Message : sqs[m] = "deleted" => m \in handled

\* Once the shutdown event is set at most one more handler begins: the one whose
\* shutdown test had already passed.
OneLateHandler == late <= 1

\* A stop request taken while the consumer runs ends the loop, whatever the
\* batch and the errors of that moment.
StopEndsLoop == shutdown ~> pc = "exited"

\* A signal ends the process gracefully, whenever it arrives.
SignalEndsLoop == signalled ~> pc = "exited"

\* Five failed polls in a row stop the consumer.
StopsAfterErrors == failedPolls = MaxConsecutiveErrors => ~running
=============================================================================
