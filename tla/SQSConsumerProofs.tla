------------------------- MODULE SQSConsumerProofs -------------------------
(***************************************************************************)
(* Proofs about SQSConsumer, for any set of messages, whenever the signal, *)
(* the visibility timeouts and the failures of polls, handlers and answers *)
(* come: what is deleted was handled, a stop lets one handler begin, and   *)
(* nothing but a signal ends the loop.                                     *)
(***************************************************************************)
EXTENDS SQSConsumer, TLAPS

\* A message is in hand from the shutdown test to the answer.
InHand == pc \in {"handle", "ack", "requeue"} => current \in Message

\* Only a handler that returned leads to an acknowledgement.
AckedWasHandled == pc = "ack" => current \in handled

\* A handler that began late was the last: the event stays set once the loop runs,
\* and no shutdown test passes any more.
LateIsLast == late = 0 \/ (late = 1 /\ shutdown /\ pc # "handle")

NoneBeforeStart == pc \in {"created", "starting", "flagged"} => late = 0

ConsumerInv ==
  /\ TypeOK
  /\ InHand
  /\ AckedWasHandled
  /\ DeletedWasHandled
  /\ LateIsLast
  /\ NoneBeforeStart

-----------------------------------------------------------------------------
LEMMA ConsumerInit == Init => ConsumerInv
<1> SUFFICES ASSUME Init PROVE ConsumerInv
  OBVIOUS
<1>1. running \in BOOLEAN /\ shutdown \in BOOLEAN /\ signalled \in BOOLEAN
  BY Zenon DEF Init
<1>2. TypeOK
  BY <1>1 DEF Init, TypeOK, MaxConsecutiveErrors
<1>3. DeletedWasHandled
  BY DEF Init, DeletedWasHandled
<1> QED
  BY <1>2, <1>3 DEF Init, ConsumerInv, InHand, AckedWasHandled, LateIsLast, NoneBeforeStart

\* The two errors the loop can meet are no ClientError: neither is counted.
LEMMA NothingCounted ==
  ASSUME NEW raised \in {ReceiveRaises, "MessageError"}, LoopCatches(raised)
  PROVE  pc' = "check" /\ UNCHANGED <<running, errors>>
BY DEF LoopCatches, ReceiveRaises

\* start, stop and the loop, which touch no message.
LEMMA LifecycleKeeps ==
  ASSUME ConsumerInv,
         StartChecks \/ StartSetsRunning \/ StartClearsEvent \/ Signal \/ LoopCondition
  PROVE  ConsumerInv'
<1>1. UNCHANGED <<batch, current, errors, sqs, handled, failedPolls, late>>
  BY DEF StartChecks, StartSetsRunning, StartClearsEvent, Signal, LoopCondition, work
<1>2. /\ running' \in BOOLEAN /\ shutdown' \in BOOLEAN /\ signalled' \in BOOLEAN
      /\ pc' = pc \/ pc' \in {"starting", "flagged", "check", "poll", "exited"}
      /\ pc' \in {"starting", "flagged"} => pc \in {"created", "starting", "flagged"}
  BY DEF StartChecks, StartSetsRunning, StartClearsEvent, Signal, LoopCondition, flags,
         ConsumerInv, TypeOK
<1>3. shutdown' \/ shutdown' = shutdown \/ pc = "flagged"
  BY DEF StartChecks, StartSetsRunning, StartClearsEvent, Signal, LoopCondition, flags
<1>4. TypeOK'
  BY <1>1, <1>2 DEF ConsumerInv, TypeOK
<1>5. LateIsLast' /\ NoneBeforeStart'
  BY <1>1, <1>2, <1>3 DEF ConsumerInv, TypeOK, LateIsLast, NoneBeforeStart
<1> QED
  BY <1>1, <1>2, <1>4, <1>5 DEF ConsumerInv, InHand, AckedWasHandled, DeletedWasHandled

LEMMA PollKeeps ==
  ASSUME ConsumerInv, Poll \/ PollFails
  PROVE  ConsumerInv'
<1>1. CASE Poll
  <2>1. PICK received \in SUBSET Message :
          /\ batch' = received
          /\ sqs' = [m \in Message |-> IF m \in received THEN "inflight" ELSE sqs[m]]
    BY <1>1 DEF Poll
  <2>2. TypeOK'
    BY <1>1, <2>1 DEF Poll, ConsumerInv, TypeOK, flags, MaxConsecutiveErrors
  <2>3. DeletedWasHandled'
    BY <1>1, <2>1 DEF Poll, ConsumerInv, DeletedWasHandled
  <2> QED
    BY <1>1, <2>2, <2>3
    DEF Poll, ConsumerInv, flags, InHand, AckedWasHandled, LateIsLast, NoneBeforeStart
<1>2. CASE PollFails
  <2>1. pc' = "check" /\ UNCHANGED <<running, errors>>
    BY <1>2, NothingCounted DEF PollFails
  <2>2. failedPolls' \in 0..MaxConsecutiveErrors
    BY <1>2 DEF PollFails, ConsumerInv, TypeOK, MaxConsecutiveErrors
  <2>3. TypeOK'
    BY <1>2, <2>1, <2>2 DEF PollFails, ConsumerInv, TypeOK, work
  <2> QED
    BY <1>2, <2>1, <2>3
    DEF PollFails, ConsumerInv, work, InHand, AckedWasHandled, DeletedWasHandled, LateIsLast,
        NoneBeforeStart
<1> QED
  BY <1>1, <1>2

LEMMA BatchKeeps ==
  ASSUME ConsumerInv, NextMessage \/ BatchDone
  PROVE  ConsumerInv'
<1>1. CASE NextMessage
  <2>1. current' \in Message /\ batch' \subseteq Message /\ pc' = "handle"
    BY <1>1 DEF NextMessage, ConsumerInv, TypeOK
  <2>2. late = 0
    BY <1>1 DEF NextMessage, ConsumerInv, LateIsLast
  <2>3. TypeOK'
    BY <1>1, <2>1 DEF NextMessage, ConsumerInv, TypeOK, flags
  <2> QED
    BY <1>1, <2>1, <2>2, <2>3
    DEF NextMessage, ConsumerInv, flags, InHand, AckedWasHandled, DeletedWasHandled, LateIsLast,
        NoneBeforeStart
<1>2. CASE BatchDone
  <2>1. TypeOK'
    BY <1>2 DEF BatchDone, ConsumerInv, TypeOK, flags, MaxConsecutiveErrors
  <2> QED
    BY <1>2, <2>1
    DEF BatchDone, ConsumerInv, flags, InHand, AckedWasHandled, DeletedWasHandled, LateIsLast,
        NoneBeforeStart
<1> QED
  BY <1>1, <1>2

LEMMA HandleKeeps ==
  ASSUME ConsumerInv, Handle
  PROVE  ConsumerInv'
<1>1. current \in Message /\ late = 0
  BY DEF Handle, ConsumerInv, InHand, LateIsLast
<1>2. /\ pc' \in {"ack", "next", "requeue"}
      /\ current' = current \/ (pc' = "next" /\ current' = NoMessage)
      /\ handled \subseteq handled' /\ handled' \subseteq Message
      /\ pc' = "ack" => current' \in handled'
  BY <1>1 DEF Handle, ConsumerInv, TypeOK
<1>3. late' = 0 \/ (late' = 1 /\ shutdown' /\ pc' # "handle")
  BY <1>1, <1>2 DEF Handle, flags
<1>4. TypeOK'
  BY <1>1, <1>2, <1>3 DEF Handle, ConsumerInv, TypeOK, flags
<1>5. DeletedWasHandled'
  BY <1>2 DEF Handle, ConsumerInv, DeletedWasHandled
<1> QED
  BY <1>1, <1>2, <1>3, <1>4, <1>5
  DEF ConsumerInv, InHand, AckedWasHandled, LateIsLast, NoneBeforeStart

\* The four answers to SQS: a delete follows a handler that returned.
LEMMA AnswerKeeps ==
  ASSUME ConsumerInv, Acknowledge \/ AcknowledgeFails \/ Requeue \/ RequeueFails
  PROVE  ConsumerInv'
<1>1. current \in Message /\ pc \in {"ack", "requeue"}
  BY DEF ConsumerInv, InHand, Acknowledge, AcknowledgeFails, Requeue, RequeueFails
<1>2. UNCHANGED <<handled, failedPolls, late, shutdown, signalled>>
  BY DEF Acknowledge, AcknowledgeFails, Requeue, RequeueFails, flags
<1>3. running' = running /\ errors' = errors /\ batch' \subseteq Message
  BY NothingCounted DEF Acknowledge, AcknowledgeFails, Requeue, RequeueFails, flags, work,
                        ConsumerInv, TypeOK
<1>4. (pc' \in {"next", "check"} /\ current' = NoMessage) \/ (pc' = "requeue" /\ current' = current)
  BY NothingCounted DEF Acknowledge, AcknowledgeFails, Requeue, RequeueFails, work
<1>5. /\ sqs' \in [Message -> {"visible", "inflight", "deleted", "dlq"}]
      /\ \A m \in Message : sqs'[m] = "deleted" => sqs[m] = "deleted" \/ (m = current /\ pc = "ack")
  BY <1>1 DEF Acknowledge, AcknowledgeFails, Requeue, RequeueFails, ConsumerInv, TypeOK
<1>6. TypeOK'
  BY <1>1, <1>2, <1>3, <1>4, <1>5 DEF ConsumerInv, TypeOK
<1>7. DeletedWasHandled'
  BY <1>2, <1>5 DEF ConsumerInv, DeletedWasHandled, AckedWasHandled
<1> QED
  BY <1>1, <1>2, <1>4, <1>6, <1>7
  DEF ConsumerInv, InHand, AckedWasHandled, LateIsLast, NoneBeforeStart

LEMMA QueueKeeps ==
  ASSUME ConsumerInv, NEW m \in Message, VisibilityTimeout(m) \/ Redrive(m)
  PROVE  ConsumerInv'
<1>1. UNCHANGED <<flags, pc, work, errors, handled, failedPolls, late>>
  BY DEF VisibilityTimeout, Redrive
<1>2. /\ sqs' \in [Message -> {"visible", "inflight", "deleted", "dlq"}]
      /\ \A n \in Message : sqs'[n] = "deleted" => sqs[n] = "deleted"
  BY DEF VisibilityTimeout, Redrive, ConsumerInv, TypeOK
<1>3. TypeOK' /\ DeletedWasHandled'
  BY <1>1, <1>2 DEF ConsumerInv, TypeOK, DeletedWasHandled, flags, work
<1> QED
  BY <1>1, <1>3
  DEF ConsumerInv, InHand, AckedWasHandled, LateIsLast, NoneBeforeStart, flags, work

LEMMA ConsumerNext == ConsumerInv /\ [Next]_vars => ConsumerInv'
<1> SUFFICES ASSUME ConsumerInv, [Next]_vars PROVE ConsumerInv'
  OBVIOUS
<1>1. CASE StartChecks \/ StartSetsRunning \/ StartClearsEvent \/ Signal \/ LoopCondition
  BY <1>1, LifecycleKeeps
<1>2. CASE Poll \/ PollFails
  BY <1>2, PollKeeps
<1>3. CASE NextMessage \/ BatchDone
  BY <1>3, BatchKeeps
<1>4. CASE Handle
  BY <1>4, HandleKeeps
<1>5. CASE Acknowledge \/ AcknowledgeFails \/ Requeue \/ RequeueFails
  BY <1>5, AnswerKeeps
<1>6. CASE \E m \in Message : VisibilityTimeout(m) \/ Redrive(m)
  BY <1>6, QueueKeeps
<1>7. CASE UNCHANGED vars
  BY <1>7 DEF vars, ConsumerInv, TypeOK, InHand, AckedWasHandled, DeletedWasHandled, LateIsLast,
              NoneBeforeStart
<1> QED
  BY <1>1, <1>2, <1>3, <1>4, <1>5, <1>6, <1>7 DEF Next, ConsumerStep

THEOREM ConsumerInvariant == Spec => []ConsumerInv
BY ConsumerInit, ConsumerNext, PTL DEF Spec

-----------------------------------------------------------------------------
\* Every variable of the consumer keeps its type; neither error counter passes its
\* limit.
THEOREM ConsumerTypeCorrect == Spec => []TypeOK
<1>1. ConsumerInv => TypeOK
  BY DEF ConsumerInv
<1> QED
  BY <1>1, ConsumerInvariant, PTL

\* _process_message deletes a message only after its handler returned, although
\* the message may reappear, be dead-lettered or be answered twice meanwhile.
THEOREM OnlyHandledDeleted == Spec => []DeletedWasHandled
<1>1. ConsumerInv => DeletedWasHandled
  BY DEF ConsumerInv
<1> QED
  BY <1>1, ConsumerInvariant, PTL

\* After stop at most one handler begins, however large the batch in hand is and
\* whatever fails afterwards.
THEOREM AtMostOneLateHandler == Spec => []OneLateHandler
<1>1. ConsumerInv => OneLateHandler
  BY DEF ConsumerInv, LateIsLast, OneLateHandler
<1> QED
  BY <1>1, ConsumerInvariant, PTL

-----------------------------------------------------------------------------
(* Why the loop ends.                                                       *)

\* No error is ever counted, so that only a stop request clears _running or sets the
\* event.
StopInv ==
  /\ errors = 0
  /\ (pc \notin {"created", "starting"} /\ ~running) => signalled
  /\ shutdown => signalled
  /\ pc = "exited" => signalled

LEMMA StopNext == StopInv /\ [Next]_vars => StopInv'
<1> SUFFICES ASSUME StopInv, [Next]_vars PROVE StopInv'
  OBVIOUS
<1>1. CASE StartChecks \/ StartSetsRunning \/ StartClearsEvent \/ Signal \/ LoopCondition
  BY <1>1 DEF StartChecks, StartSetsRunning, StartClearsEvent, Signal, LoopCondition, flags, StopInv
<1>2. CASE PollFails \/ RequeueFails
  BY <1>2, NothingCounted DEF PollFails, RequeueFails, StopInv
<1>3. CASE Poll \/ NextMessage \/ BatchDone
  BY <1>3 DEF Poll, NextMessage, BatchDone, flags, StopInv
<1>4. CASE Handle \/ Acknowledge \/ AcknowledgeFails \/ Requeue
  BY <1>4 DEF Handle, Acknowledge, AcknowledgeFails, Requeue, flags, StopInv
<1>5. CASE \E m \in Message : VisibilityTimeout(m) \/ Redrive(m)
  BY <1>5 DEF VisibilityTimeout, Redrive, flags, StopInv
<1>6. CASE UNCHANGED vars
  BY <1>6 DEF vars, StopInv
<1> QED
  BY <1>1, <1>2, <1>3, <1>4, <1>5, <1>6 DEF Next, ConsumerStep

\* The consumer exits only when told to: no run of failed polls, failed answers or
\* rejected messages ends the loop, and the limit of consecutive errors is out of
\* reach, for _receive_messages raises what the counting clause does not catch.
THEOREM OnlyASignalEndsTheLoop == Spec => [](errors = 0 /\ (pc = "exited" => signalled))
<1>1. Init => StopInv
  BY DEF Init, StopInv
<1>2. StopInv => errors = 0 /\ (pc = "exited" => signalled)
  BY DEF StopInv
<1> QED
  BY <1>1, <1>2, StopNext, PTL DEF Spec
=============================================================================
