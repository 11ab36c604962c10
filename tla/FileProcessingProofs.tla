------------------------ MODULE FileProcessingProofs ------------------------
(* The file processor for any number of workers, events of the file and     *)
(* deliveries, with and without the outbox: its types, and that its claims  *)
(* implement LeaseRegister.                                                 *)
EXTENDS FileProcessing, TLAPS

USE DEF given

-----------------------------------------------------------------------------
(* What the helpers do to a worker and to the row.                          *)

LEMMA GotoMoves ==
  ASSUME pc \in [Worker -> Label], NEW w \in Worker, NEW label \in Label, Goto(w, label)
  PROVE  /\ pc' \in [Worker -> Label]
         /\ pc'[w] = label
         /\ \A v \in Worker : v # w => pc'[v] = pc[v]
BY DEF Goto

LEMMA FinishClears ==
  ASSUME TypeOK, NEW w \in Worker, Finish(w)
  PROVE  /\ pc' \in [Worker -> Label]
         /\ job' \in [Worker -> Event \cup {NoEvent}]
         /\ claim' \in [Worker -> Nat]
         /\ retryable' \in [Worker -> BOOLEAN]
         /\ pc'[w] = "idle"
         /\ \A v \in Worker : v # w => pc'[v] = pc[v] /\ job'[v] = job[v] /\ claim'[v] = claim[v]
<1>1. "idle" \in Label
  BY DEF Label
<1>2. pc' \in [Worker -> Label] /\ pc'[w] = "idle" /\ \A v \in Worker : v # w => pc'[v] = pc[v]
  BY <1>1, GotoMoves DEF Finish, TypeOK
<1>3. job' \in [Worker -> Event \cup {NoEvent}] /\ claim' \in [Worker -> Nat]
      /\ \A v \in Worker : v # w => job'[v] = job[v] /\ claim'[v] = claim[v]
  BY DEF Finish, TypeOK
<1>4. retryable' \in [Worker -> BOOLEAN]
  BY DEF Finish, TypeOK
<1> QED BY <1>2, <1>3, <1>4

LEMMA FailWithMoves ==
  ASSUME TypeOK, NEW w \in Worker, NEW canRetry \in BOOLEAN, FailWith(w, canRetry)
  PROVE  /\ pc' \in [Worker -> Label]
         /\ retryable' \in [Worker -> BOOLEAN]
         /\ pc'[w] = "fail"
         /\ \A v \in Worker : v # w => pc'[v] = pc[v]
<1>1. "fail" \in Label
  BY DEF Label
<1>2. Goto(w, "fail") /\ retryable' = [retryable EXCEPT ![w] = canRetry]
  BY DEF FailWith
<1>3. retryable' \in [Worker -> BOOLEAN]
  BY <1>2 DEF TypeOK
<1> QED BY <1>1, <1>2, <1>3, GotoMoves DEF TypeOK

\* A claim starts a new version and keeps what was settled last.
LEMMA ClaimedRowFields ==
  ASSUME TypeOK, NEW e \in Event
  PROVE  /\ ClaimedRow(e) \in Row
         /\ ClaimedRow(e).status = "PROCESSING"
         /\ ClaimedRow(e).version = row.version + 1
         /\ ClaimedRow(e).token = row.version + 1
         /\ ClaimedRow(e).expired = FALSE
<1> DEFINE v == row.version + 1
           c == [row EXCEPT !.status = "PROCESSING", !.version = v, !.token = v,
                            !.expired = FALSE, !.event = e, !.error = FALSE]
<1>1. v \in Nat
  BY DEF TypeOK, Row
<1>2. c = ClaimedRow(e)
  BY DEF ClaimedRow
<1> HIDE DEF v
<1>3. /\ c \in Row
      /\ c.status = "PROCESSING" /\ c.version = v /\ c.token = v /\ c.expired = FALSE
  BY <1>1 DEF TypeOK, Row
<1> QED BY <1>2, <1>3 DEF v

\* A result ends the claim and leaves its version.
LEMMA CompletedRowFields ==
  ASSUME TypeOK, NEW w \in Worker, job[w] \in Event
  PROVE  /\ CompletedRow(w) \in Row
         /\ CompletedRow(w).status = "COMPLETED"
         /\ CompletedRow(w).last = job[w]
         /\ CompletedRow(w).version = row.version
         /\ CompletedRow(w).token = 0
         /\ CompletedRow(w).expired = FALSE
<1>1. OutputLocation(w) \in {"source", "quarantine"}
  BY DEF OutputLocation
<1> QED BY <1>1 DEF TypeOK, Row, CompletedRow, Released

LEMMA FailedRowFields ==
  ASSUME TypeOK, NEW w \in Worker, job[w] \in Event
  PROVE  /\ FailedRow(w) \in Row
         /\ FailedRow(w).status = "FAILED"
         /\ FailedRow(w).version = row.version
         /\ FailedRow(w).token = 0
         /\ FailedRow(w).expired = FALSE
BY DEF TypeOK, Row, FailedRow, Released

LEMMA OutputRows ==
  ASSUME TypeOK, NEW w \in Worker, job[w] \in Event
  PROVE  CompletionEvent(w) \in OutboxRow /\ FailureEvent(w) \in OutboxRow
<1>1. OutputLocation(w) \in {"source", "quarantine"}
  BY DEF OutputLocation
<1>2. claim[w] \in Nat
  BY DEF TypeOK
<1> QED BY <1>1, <1>2 DEF OutboxRow, CompletionEvent, FailureEvent

\* Write adds one result, of the worker's claim.
LEMMA WriteAdds ==
  ASSUME TypeOK, NEW w \in Worker, job[w] \in Event,
         NEW status \in {"COMPLETED", "FAILED"}, NEW newRow \in Row, Write(w, status, newRow)
  PROVE  /\ row' = newRow
         /\ results' \subseteq Result
         /\ \E final \in BOOLEAN : results' = results \cup
              {[event |-> job[w], claim |-> claim[w], status |-> status, final |-> final]}
<1> DEFINE final == (status = "COMPLETED" \/ ~retryable[w])
           r == [event |-> job[w], claim |-> claim[w], status |-> status, final |-> final]
<1>1. final \in BOOLEAN
  OBVIOUS
<1>2. claim[w] \in Nat
  BY DEF TypeOK
<1>3. r \in Result
  BY <1>1, <1>2 DEF Result
<1>4. row' = newRow /\ results' = results \cup {r}
  BY DEF Write
<1>5. results' \subseteq Result
  BY <1>3, <1>4 DEF TypeOK
<1> QED BY <1>1, <1>4, <1>5

LEMMA NextLabels ==
  ASSUME NEW w \in Worker, NEW e \in Event
  PROVE  /\ FirstStep(e) \in {"download", "commit"}
         /\ AfterAnalysis \in {"commit", "copy"}
         /\ AfterCommit(w) \in {"cleanup", "ack"}
         /\ AfterFailure(w) \in {"requeue", "reject"}
BY DEF FirstStep, AfterAnalysis, AfterCommit, AfterFailure

-----------------------------------------------------------------------------
(* Types.                                                                   *)

\* Whoever is busy has a job.
BusyHasJob == \A w \in Worker : pc[w] # "idle" => job[w] \in Event

TypeInv == TypeOK /\ BusyHasJob

LEMMA InitTypes == Init => TypeInv
<1> SUFFICES ASSUME Init PROVE TypeInv
  OBVIOUS
<1>1. input \in [Event -> Input] /\ queue \in [Event -> {"visible", "inflight", "deleted", "dlq"}]
      /\ receives \in [Event -> Nat]
  BY DEF Init
<1>2. row \in Row
  BY DEF Init, Row
<1>3. s3 \in [safe : BOOLEAN, source : BOOLEAN, quarantine : BOOLEAN]
  BY DEF Init
<1>4. pc \in [Worker -> Label]
  BY DEF Init, Label
<1>5. job \in [Worker -> Event \cup {NoEvent}] /\ claim \in [Worker -> Nat]
      /\ retryable \in [Worker -> BOOLEAN]
  BY DEF Init
<1>6. outbox \subseteq OutboxRow /\ published \subseteq OutboxRow /\ results \subseteq Result
  BY DEF Init
<1>7. useOutbox \in BOOLEAN
  BY DEF Init
<1>8. BusyHasJob
  BY DEF Init, BusyHasJob
<1> QED BY <1>1, <1>2, <1>3, <1>4, <1>5, <1>6, <1>7, <1>8 DEF TypeOK, TypeInv

\* A step that moves one worker and touches neither jobs nor claims.
LEMMA MoveTypes ==
  ASSUME TypeInv, NEW w \in Worker, pc[w] # "idle", NEW label \in Label, Goto(w, label),
         UNCHANGED job
  PROVE  pc' \in [Worker -> Label] /\ BusyHasJob'
BY GotoMoves DEF TypeInv, TypeOK, BusyHasJob

LEMMA FailTypes ==
  ASSUME TypeInv, NEW w \in Worker, pc[w] # "idle", NEW canRetry \in BOOLEAN,
         FailWith(w, canRetry), UNCHANGED job
  PROVE  pc' \in [Worker -> Label] /\ retryable' \in [Worker -> BOOLEAN] /\ BusyHasJob'
BY FailWithMoves DEF TypeInv, TypeOK, BusyHasJob

LEMMA FinishTypes ==
  ASSUME TypeInv, NEW w \in Worker, Finish(w)
  PROVE  /\ pc' \in [Worker -> Label]
         /\ job' \in [Worker -> Event \cup {NoEvent}]
         /\ claim' \in [Worker -> Nat]
         /\ retryable' \in [Worker -> BOOLEAN]
         /\ BusyHasJob'
BY FinishClears DEF TypeInv, TypeOK, BusyHasJob

LEMMA NextTypes == TypeInv /\ [Next]_vars => TypeInv'
<1> SUFFICES ASSUME TypeInv, [Next]_vars PROVE TypeInv'
  OBVIOUS
<1> USE DEF TypeInv
<1>1. ASSUME NEW w \in Worker, ReadExisting(w) PROVE TypeInv'
  <2>1. PICK label \in Label : Goto(w, label)
    BY <1>1 DEF ReadExisting, Label
  <2> QED BY <1>1, <2>1, MoveTypes DEF ReadExisting, At, TypeOK, sqs, store, local
<1>2. ASSUME NEW w \in Worker, Claim(w) PROVE TypeInv'
  <2>1. job[w] \in Event
    BY <1>2 DEF Claim, At, BusyHasJob
  <2>2. row' \in Row /\ claim' \in [Worker -> Nat]
    BY <1>2, <2>1, ClaimedRowFields DEF Claim, TypeOK, Row
  <2>3. FirstStep(job[w]) \in Label
    BY <2>1, NextLabels DEF Label
  <2> QED BY <1>2, <2>2, <2>3, MoveTypes DEF Claim, At, TypeOK, sqs
<1>3. ASSUME NEW w \in Worker, ClaimLost(w) PROVE TypeInv'
  <2>1. job[w] \in Event
    BY <1>3 DEF ClaimLost, At, BusyHasJob
  <2>2. row' \in Row
    BY <1>3, <2>1, ClaimedRowFields DEF ClaimLost
  <2>3. PICK label \in Label : Goto(w, label)
    BY <1>3 DEF ClaimLost, Label
  <2> QED BY <1>3, <2>2, <2>3, MoveTypes DEF ClaimLost, At, TypeOK, sqs, local
<1>4. ASSUME NEW w \in Worker, ClaimRefused(w) PROVE TypeInv'
  <2>1. PICK label \in Label : Goto(w, label)
    BY <1>4 DEF ClaimRefused, Label
  <2> QED BY <1>4, <2>1, MoveTypes DEF ClaimRefused, At, TypeOK, sqs, store, local
<1>5. ASSUME NEW w \in Worker, Reread(w) PROVE TypeInv'
  <2>1. PICK label \in Label : Goto(w, label)
    BY <1>5 DEF Reread, Label
  <2> QED BY <1>5, <2>1, MoveTypes DEF Reread, At, TypeOK, sqs, store, local
<1>6. ASSUME NEW w \in Worker, Download(w) PROVE TypeInv'
  <2>1. AfterAnalysis \in Label
    BY DEF AfterAnalysis, Label
  <2>2. CASE \E canRetry \in BOOLEAN : FailWith(w, canRetry)
    BY <1>6, <2>2, FailTypes DEF Download, At, TypeOK, sqs, store
  <2>3. CASE Goto(w, AfterAnalysis) /\ UNCHANGED retryable
    BY <1>6, <2>1, <2>3, MoveTypes DEF Download, At, TypeOK, sqs, store
  <2> QED BY <1>6, <2>2, <2>3 DEF Download
<1>7. ASSUME NEW w \in Worker, Copy(w) PROVE TypeInv'
  <2>1. s3' \in [safe : BOOLEAN, source : BOOLEAN, quarantine : BOOLEAN]
    BY <1>7 DEF Copy, TypeOK
  <2>2. CASE FailWith(w, TRUE)
    BY <1>7, <2>1, <2>2, FailTypes DEF Copy, At, TypeOK, sqs
  <2>3. CASE Goto(w, "commit") /\ UNCHANGED retryable
    BY <1>7, <2>1, <2>3, MoveTypes DEF Copy, At, TypeOK, sqs, Label
  <2> QED BY <1>7, <2>2, <2>3 DEF Copy
<1>8. ASSUME NEW w \in Worker, CommitTransaction(w) PROVE TypeInv'
  <2>1. job[w] \in Event
    BY <1>8 DEF CommitTransaction, At, BusyHasJob
  <2>2. row' \in Row /\ results' \subseteq Result
    BY <1>8, <2>1, CompletedRowFields, WriteAdds DEF CommitTransaction
  <2>3. outbox' \subseteq OutboxRow
    BY <1>8, <2>1, OutputRows DEF CommitTransaction, TypeOK
  <2>4. AfterCommit(w) \in Label /\ "replay" \in Label
    BY <2>1, NextLabels DEF Label
  <2>5. CASE FailWith(w, TRUE)
    BY <1>8, <2>2, <2>3, <2>5, FailTypes DEF CommitTransaction, At, TypeOK, sqs
  <2>6. CASE (Goto(w, AfterCommit(w)) \/ Goto(w, "replay")) /\ UNCHANGED retryable
    BY <1>8, <2>2, <2>3, <2>4, <2>6, MoveTypes DEF CommitTransaction, At, TypeOK, sqs
  <2> QED BY <1>8, <2>5, <2>6 DEF CommitTransaction
<1>9. ASSUME NEW w \in Worker, TransactionCancelled(w) PROVE TypeInv'
  <2>1. CASE FailWith(w, TRUE)
    BY <1>9, <2>1, FailTypes DEF TransactionCancelled, At, TypeOK, sqs, store
  <2>2. CASE Goto(w, "replay") /\ UNCHANGED retryable
    BY <1>9, <2>2, MoveTypes DEF TransactionCancelled, At, TypeOK, sqs, store, Label
  <2> QED BY <1>9, <2>1, <2>2 DEF TransactionCancelled
<1>10. ASSUME NEW w \in Worker, Replay(w) PROVE TypeInv'
  <2>1. job[w] \in Event
    BY <1>10 DEF Replay, At, BusyHasJob
  <2>2. row' \in Row
    BY <1>10, <2>1, CompletedRowFields DEF Replay, TypeOK
  <2>3. AfterCommit(w) \in Label
    BY <2>1, NextLabels DEF Label
  <2>4. CASE FailWith(w, TRUE)
    BY <1>10, <2>2, <2>4, FailTypes DEF Replay, At, TypeOK, sqs
  <2>5. CASE Goto(w, AfterCommit(w)) /\ UNCHANGED retryable
    BY <1>10, <2>2, <2>3, <2>5, MoveTypes DEF Replay, At, TypeOK, sqs
  <2> QED BY <1>10, <2>4, <2>5 DEF Replay
<1>11. ASSUME NEW w \in Worker, Save(w) PROVE TypeInv'
  <2>1. job[w] \in Event
    BY <1>11 DEF Save, At, BusyHasJob
  <2>2. row' \in Row /\ results' \subseteq Result
    BY <1>11, <2>1, CompletedRowFields, WriteAdds DEF Save, TypeOK
  <2>3. CASE FailWith(w, TRUE)
    BY <1>11, <2>2, <2>3, FailTypes DEF Save, At, TypeOK, sqs
  <2>4. CASE Goto(w, IF input[job[w]].kind = "UPLOADED" THEN "publish" ELSE "ack")
             /\ UNCHANGED retryable
    BY <1>11, <2>2, <2>4, MoveTypes DEF Save, At, TypeOK, sqs, Label
  <2> QED BY <1>11, <2>3, <2>4 DEF Save
<1>12. ASSUME NEW w \in Worker, Publish(w) PROVE TypeInv'
  <2>1. job[w] \in Event
    BY <1>12 DEF Publish, At, BusyHasJob
  <2>2. published' \subseteq OutboxRow
    <3>1. published' = published \cup {CompletionEvent(w)} \/ published' = published
      BY <1>12 DEF Publish
    <3> QED BY <2>1, <3>1, OutputRows DEF TypeOK
  <2>3. AfterCommit(w) \in Label
    BY <2>1, NextLabels DEF Label
  <2>4. CASE FailWith(w, TRUE)
    BY <1>12, <2>2, <2>4, FailTypes DEF Publish, At, TypeOK, sqs
  <2>5. CASE Goto(w, AfterCommit(w)) /\ UNCHANGED retryable
    BY <1>12, <2>2, <2>3, <2>5, MoveTypes DEF Publish, At, TypeOK, sqs
  <2> QED BY <1>12, <2>4, <2>5 DEF Publish
<1>13. ASSUME NEW w \in Worker, Cleanup(w) PROVE TypeInv'
  <2>1. s3' \in [safe : BOOLEAN, source : BOOLEAN, quarantine : BOOLEAN]
    BY <1>13 DEF Cleanup, TypeOK
  <2>2. CASE FailWith(w, TRUE)
    BY <1>13, <2>1, <2>2, FailTypes DEF Cleanup, At, TypeOK, sqs
  <2>3. CASE Goto(w, "ack") /\ UNCHANGED retryable
    BY <1>13, <2>1, <2>3, MoveTypes DEF Cleanup, At, TypeOK, sqs, Label
  <2> QED BY <1>13, <2>2, <2>3 DEF Cleanup
<1>14. ASSUME NEW w \in Worker, PersistFailure(w) PROVE TypeInv'
  <2>1. job[w] \in Event
    BY <1>14 DEF PersistFailure, At, BusyHasJob
  <2>2. row' \in Row /\ results' \subseteq Result
    BY <1>14, <2>1, FailedRowFields, WriteAdds DEF PersistFailure
  <2>3. outbox' \subseteq OutboxRow
    BY <1>14, <2>1, OutputRows DEF PersistFailure, TypeOK
  <2>4. PICK label \in Label : Goto(w, label)
    BY <1>14, <2>1, NextLabels DEF PersistFailure, Label
  <2> QED BY <1>14, <2>2, <2>3, <2>4, MoveTypes DEF PersistFailure, At, TypeOK, sqs, local
<1>15. ASSUME NEW w \in Worker, FailureNotPersisted(w) PROVE TypeInv'
  <2>1. PICK label \in Label : Goto(w, label)
    BY <1>15, NextLabels DEF FailureNotPersisted, AfterFailure, Label
  <2> QED BY <1>15, <2>1, MoveTypes DEF FailureNotPersisted, At, TypeOK, sqs, store, local
<1>16. ASSUME NEW w \in Worker, PublishFailure(w) PROVE TypeInv'
  <2>1. job[w] \in Event
    BY <1>16 DEF PublishFailure, At, BusyHasJob
  <2>2. published' \subseteq OutboxRow
    BY <1>16, <2>1, OutputRows DEF PublishFailure, TypeOK
  <2>3. PICK label \in Label : Goto(w, label)
    BY <1>16, <2>1, NextLabels DEF PublishFailure, Label
  <2> QED BY <1>16, <2>2, <2>3, MoveTypes DEF PublishFailure, At, TypeOK, sqs, local
<1>17. ASSUME NEW w \in Worker, Ack(w) PROVE TypeInv'
  BY <1>17, FinishTypes DEF Ack, TypeOK, store
<1>18. ASSUME NEW w \in Worker, Requeue(w) PROVE TypeInv'
  BY <1>18, FinishTypes DEF Requeue, TypeOK, store
<1>19. ASSUME NEW w \in Worker, Reject(w) \/ BatchItemFailure(w) \/ Crash(w) PROVE TypeInv'
  BY <1>19, FinishTypes DEF Reject, BatchItemFailure, Crash, TypeOK, sqs, store
<1>20. ASSUME NEW w \in Worker, NEW e \in Event, Receive(w, e) PROVE TypeInv'
  <2>1. pc' \in [Worker -> Label] /\ pc'[w] = "read" /\ \A v \in Worker : v # w => pc'[v] = pc[v]
    BY <1>20, GotoMoves DEF Receive, TypeOK, Label
  <2>2. job' \in [Worker -> Event \cup {NoEvent}] /\ BusyHasJob'
    BY <1>20, <2>1 DEF Receive, TypeOK, BusyHasJob
  <2>3. queue' \in [Event -> {"visible", "inflight", "deleted", "dlq"}] /\ receives' \in [Event -> Nat]
    BY <1>20 DEF Receive, TypeOK
  <2> QED BY <1>20, <2>1, <2>2, <2>3 DEF Receive, TypeOK, store
<1>21. ASSUME NEW e \in Event, QueueStep(e) \/ Duplicate(e) PROVE TypeInv'
  BY <1>21 DEF QueueStep, VisibilityTimeout, Redrive, Duplicate, TypeOK, BusyHasJob, store, local
<1>22. CASE LeaseExpires
  <2>1. row' \in Row
    BY <1>22 DEF LeaseExpires, TypeOK, Row
  <2> QED BY <1>22, <2>1 DEF LeaseExpires, TypeOK, BusyHasJob, sqs, local
<1>23. CASE UNCHANGED vars
  BY <1>23 DEF vars, TypeOK, BusyHasJob
<1> QED
  BY <1>1, <1>2, <1>3, <1>4, <1>5, <1>6, <1>7, <1>8, <1>9, <1>10, <1>11, <1>12, <1>13, <1>14,
     <1>15, <1>16, <1>17, <1>18, <1>19, <1>20, <1>21, <1>22, <1>23
     DEF Next, HandleStep

\* Every variable keeps its type, whatever fails or crashes.
THEOREM TypeCorrect == Spec => []TypeOK
<1>1. TypeInv => TypeOK
  BY DEF TypeInv
<1> QED BY <1>1, InitTypes, NextTypes, PTL DEF Spec

-----------------------------------------------------------------------------
(* The claims implement LeaseRegister: of all workers that ever claimed the  *)
(* file, crashed, expired or were retried, only the holder of the newest     *)
(* claim records a result, and only one.                                     *)

\* The labels a worker visits with a claim in hand.
Working == {"download", "copy", "commit", "replay", "publish", "cleanup", "fail", "failpublish"}

ClaimedWork == \A w \in Worker : pc[w] \in Working => claim[w] # 0

\* The claim that stored an outbox row has ended: what TransactWriteItems wrote
\* together with the row released it.
OutboxReleased ==
  \A o \in outbox : o.claim # 0 /\ o.claim <= row.version /\ o.claim # row.token

LeaseInv == TypeInv /\ ClaimedWork /\ OutboxReleased

-----------------------------------------------------------------------------
LEMMA InitLease == Init => LeaseInv
<1> SUFFICES ASSUME Init PROVE LeaseInv
  OBVIOUS
<1>1. ClaimedWork
  BY DEF Init, ClaimedWork, Working
<1>2. OutboxReleased
  BY DEF Init, OutboxReleased
<1> QED BY <1>1, <1>2, InitTypes DEF LeaseInv

\* Only a worker that already has a claim moves on within its work.
LEMMA WorkMoves ==
  ASSUME TypeInv, ClaimedWork, NEW w \in Worker, NEW label, Goto(w, label),
         pc[w] \in Working \/ label \notin Working, UNCHANGED claim
  PROVE  ClaimedWork'
BY DEF TypeInv, TypeOK, ClaimedWork, Goto

LEMMA WorkFinishes ==
  ASSUME TypeInv, ClaimedWork, NEW w \in Worker, Finish(w)
  PROVE  ClaimedWork'
BY FinishClears DEF TypeInv, ClaimedWork, Working

\* Steps that leave row, outbox and results alone.
LEMMA QuietStep ==
  ASSUME OutboxReleased, UNCHANGED <<row, outbox, results>>
  PROVE  OutboxReleased' /\ UNCHANGED Lease!lvars
BY DEF OutboxReleased, Lease!lvars

\* A new claim: the update's condition is the guard of Grant.
LEMMA ClaimStep ==
  ASSUME TypeInv, OutboxReleased, NEW e \in Event, Claimable(e), row' = ClaimedRow(e),
         UNCHANGED <<outbox, results>>
  PROVE  OutboxReleased' /\ Lease!LeaseNext
<1>1. row'.version = row.version + 1 /\ row'.token = row.version + 1 /\ row'.expired = FALSE
  BY ClaimedRowFields DEF TypeInv
<1>2. row.version \in Nat /\ \A o \in outbox : o.claim \in Nat
  BY DEF TypeInv, TypeOK, Row, OutboxRow
<1>3. OutboxReleased'
  BY <1>1, <1>2 DEF OutboxReleased
<1>4. Lease!Grant
  BY <1>1 DEF Lease!Grant, Claimable
<1> QED BY <1>3, <1>4 DEF Lease!LeaseNext

\* A fenced result: the holder records it and its lease ends.  The outbox row
\* stored with it, if any, carries the same claim.
LEMMA ResultStep ==
  ASSUME TypeInv, OutboxReleased, NEW w \in Worker, job[w] \in Event, claim[w] # 0, Fenced(w),
         NEW status \in {"COMPLETED", "FAILED"}, NEW newRow \in Row, Write(w, status, newRow),
         newRow.version = row.version, newRow.token = 0, newRow.expired = FALSE,
         \A o \in outbox' : o \in outbox \/ o.claim = claim[w]
  PROVE  OutboxReleased' /\ Lease!LeaseNext
<1>1. row.token = claim[w] /\ row.version = claim[w] /\ claim[w] \in Nat
  BY DEF Fenced, TypeInv, TypeOK
<1>2. row' = newRow
  BY WriteAdds DEF TypeInv
<1>3. PICK final \in BOOLEAN : results' = results \cup
        {[event |-> job[w], claim |-> claim[w], status |-> status, final |-> final]}
  BY WriteAdds DEF TypeInv
<1>4. OutboxReleased'
  <2>1. \A o \in outbox : o.claim <= row.version /\ o.claim # 0
    BY <1>1 DEF TypeInv, TypeOK, OutboxRow, OutboxReleased
  <2>2. \A o \in outbox' : o.claim <= row.version /\ o.claim # 0
    <3> SUFFICES ASSUME NEW o \in outbox' PROVE o.claim <= row.version /\ o.claim # 0
      OBVIOUS
    <3>1. CASE o.claim = claim[w]
      BY <1>1, <3>1 DEF TypeInv, TypeOK
    <3>2. CASE o \in outbox
      BY <2>1, <3>2
    <3> QED BY <3>1, <3>2
  <2> QED BY <1>2, <2>2 DEF OutboxReleased
<1>5. Lease!Record
  <2> DEFINE out == [event |-> job[w], status |-> status, final |-> final]
             Outcomes == [event : Event, status : {"COMPLETED", "FAILED"}, final : BOOLEAN]
             result == [event |-> job[w], claim |-> claim[w], status |-> status, final |-> final]
             Entry(r) == [lease |-> r.claim,
                          outcome |-> [event |-> r.event, status |-> r.status, final |-> r.final]]
             Recorded(S) == {Entry(r) : r \in S}
  <2>1. Recorded(results') = Recorded(results) \cup {[lease |-> row.token, outcome |-> out]}
    <3>1. Entry(result) = [lease |-> row.token, outcome |-> out]
      BY <1>1
    <3>2. results' = results \cup {result}
      BY <1>3
    <3> HIDE DEF Entry, result
    <3>3. Recorded(results') = Recorded(results) \cup {Entry(result)}
      BY <3>2
    <3> QED BY <3>1, <3>3
  <2>2. out \in Outcomes
    OBVIOUS
  <2>3. row'.token = 0 /\ row'.expired = FALSE /\ row'.version = row.version /\ row.token # 0
    BY <1>1, <1>2
  <2> QED BY <2>1, <2>2, <2>3 DEF Lease!Record
<1> QED BY <1>4, <1>5 DEF Lease!LeaseNext

-----------------------------------------------------------------------------
(* Every step keeps ClaimedWork: it stays within the work, or leaves it.    *)

LEMMA NextClaimedWork == LeaseInv /\ [Next]_vars => ClaimedWork'
<1> SUFFICES ASSUME LeaseInv, [Next]_vars PROVE ClaimedWork'
  OBVIOUS
<1> USE DEF LeaseInv
<1>1. ASSUME NEW w \in Worker, ReadExisting(w) \/ ClaimLost(w) \/ ClaimRefused(w) \/ Reread(w)
      PROVE  ClaimedWork'
  <2>1. PICK label \in {"ack", "reject", "claim", "requeue", "reread"} : Goto(w, label)
    BY <1>1 DEF ReadExisting, ClaimLost, ClaimRefused, Reread
  <2> QED BY <1>1, <2>1, WorkMoves
          DEF ReadExisting, ClaimLost, ClaimRefused, Reread, local, Working
<1>2. ASSUME NEW w \in Worker, Claim(w) PROVE ClaimedWork'
  <2>1. row.version + 1 # 0
    BY DEF TypeInv, TypeOK, Row
  <2> QED BY <1>2, <2>1 DEF Claim, Goto, At, TypeInv, TypeOK, ClaimedWork
<1>3. ASSUME NEW w \in Worker, Download(w) \/ Copy(w) \/ CommitTransaction(w)
                                  \/ TransactionCancelled(w) \/ Replay(w) \/ Save(w)
                                  \/ Publish(w) \/ Cleanup(w)
      PROVE  ClaimedWork'
  <2>1. pc[w] \in Working /\ UNCHANGED claim
    BY <1>3 DEF Download, Copy, CommitTransaction, TransactionCancelled, Replay, Save, Publish,
                Cleanup, At, Working
  <2>2. PICK label : Goto(w, label)
    BY <1>3 DEF Download, Copy, CommitTransaction, TransactionCancelled, Replay, Save, Publish,
                Cleanup, FailWith
  <2> QED BY <2>1, <2>2, WorkMoves
<1>4. ASSUME NEW w \in Worker, PersistFailure(w) \/ FailureNotPersisted(w) \/ PublishFailure(w)
      PROVE  ClaimedWork'
  <2>1. pc[w] \in Working /\ UNCHANGED claim
    BY <1>4 DEF PersistFailure, FailureNotPersisted, PublishFailure, At, Working, local
  <2>2. PICK label : Goto(w, label)
    BY <1>4 DEF PersistFailure, FailureNotPersisted, PublishFailure
  <2> QED BY <2>1, <2>2, WorkMoves
<1>5. ASSUME NEW w \in Worker, Ack(w) \/ Requeue(w) \/ Reject(w) \/ BatchItemFailure(w) \/ Crash(w)
      PROVE  ClaimedWork'
  BY <1>5, WorkFinishes DEF Ack, Requeue, Reject, BatchItemFailure, Crash
<1>6. ASSUME NEW w \in Worker, NEW e \in Event, Receive(w, e) PROVE ClaimedWork'
  BY <1>6, WorkMoves DEF Receive, Working
<1>7. ASSUME NEW e \in Event, QueueStep(e) \/ Duplicate(e) PROVE ClaimedWork'
  BY <1>7 DEF QueueStep, VisibilityTimeout, Redrive, Duplicate, ClaimedWork, local
<1>8. CASE LeaseExpires
  BY <1>8 DEF LeaseExpires, ClaimedWork, local
<1>9. CASE UNCHANGED vars
  BY <1>9 DEF vars, ClaimedWork
<1> QED BY <1>1, <1>2, <1>3, <1>4, <1>5, <1>6, <1>7, <1>8, <1>9 DEF Next, HandleStep

-----------------------------------------------------------------------------
(* Every step is a Grant, an Expire, a Record, or none of them.             *)

LEMMA NextOutboxReleased ==
  LeaseInv /\ [Next]_vars => OutboxReleased' /\ [Lease!LeaseNext]_(Lease!lvars)
<1> SUFFICES ASSUME LeaseInv, [Next]_vars
             PROVE  OutboxReleased' /\ [Lease!LeaseNext]_(Lease!lvars)
  OBVIOUS
<1> USE DEF LeaseInv
<1>1. ASSUME NEW w \in Worker, Claim(w) \/ ClaimLost(w)
      PROVE  OutboxReleased' /\ [Lease!LeaseNext]_(Lease!lvars)
  <2>1. job[w] \in Event
    BY <1>1 DEF Claim, ClaimLost, At, TypeInv, BusyHasJob
  <2> QED BY <1>1, <2>1, ClaimStep DEF Claim, ClaimLost
<1>2. ASSUME NEW w \in Worker, CommitTransaction(w)
      PROVE  OutboxReleased' /\ [Lease!LeaseNext]_(Lease!lvars)
  <2>1. job[w] \in Event /\ claim[w] # 0
    BY <1>2 DEF CommitTransaction, At, TypeInv, BusyHasJob, ClaimedWork, Working
  <2>2. \A o \in outbox' : o \in outbox \/ o.claim = claim[w]
    BY <1>2 DEF CommitTransaction, CompletionEvent
  <2> QED BY <1>2, <2>1, <2>2, CompletedRowFields, ResultStep DEF CommitTransaction, TypeInv
<1>3. ASSUME NEW w \in Worker, Save(w)
      PROVE  OutboxReleased' /\ [Lease!LeaseNext]_(Lease!lvars)
  <2>1. CASE UNCHANGED <<row, results>>
    BY <1>3, <2>1, QuietStep DEF Save
  <2>2. CASE Fenced(w) /\ Write(w, "COMPLETED", CompletedRow(w))
    <3>1. job[w] \in Event /\ claim[w] # 0
      BY <1>3 DEF Save, At, TypeInv, BusyHasJob, ClaimedWork, Working
    <3>2. \A o \in outbox' : o \in outbox \/ o.claim = claim[w]
      BY <1>3 DEF Save
    <3> QED BY <2>2, <3>1, <3>2, CompletedRowFields, ResultStep DEF TypeInv
  <2> QED BY <1>3, <2>1, <2>2 DEF Save
<1>4. ASSUME NEW w \in Worker, PersistFailure(w)
      PROVE  OutboxReleased' /\ [Lease!LeaseNext]_(Lease!lvars)
  <2>1. job[w] \in Event /\ claim[w] # 0
    BY <1>4 DEF PersistFailure, At, TypeInv, BusyHasJob, ClaimedWork, Working
  <2>2. \A o \in outbox' : o \in outbox \/ o.claim = claim[w]
    BY <1>4 DEF PersistFailure, FailureEvent
  <2> QED BY <1>4, <2>1, <2>2, FailedRowFields, ResultStep DEF PersistFailure, TypeInv
\* The restore of the row that save_with_outbox attempts never takes effect: the
\* event it found was stored by this claim, which ended with it.
<1>5. ASSUME NEW w \in Worker, Replay(w)
      PROVE  OutboxReleased' /\ [Lease!LeaseNext]_(Lease!lvars)
  <2>1. ASSUME CompletionEvent(w) \in outbox PROVE ~Fenced(w)
    BY <2>1 DEF OutboxReleased, Fenced, CompletionEvent
  <2>2. UNCHANGED <<row, outbox, results>>
    BY <1>5, <2>1 DEF Replay
  <2> QED BY <2>2, QuietStep
<1>6. ASSUME NEW w \in Worker, HandleStep(w), ~Claim(w), ~ClaimLost(w), ~CommitTransaction(w),
             ~Save(w), ~PersistFailure(w), ~Replay(w)
      PROVE  OutboxReleased' /\ [Lease!LeaseNext]_(Lease!lvars)
  <2>1. UNCHANGED <<row, outbox, results>>
    BY <1>6 DEF HandleStep, ReadExisting, ClaimRefused, Reread, Download, Copy,
                TransactionCancelled, Publish, Cleanup, FailureNotPersisted, PublishFailure,
                Ack, Requeue, Reject, BatchItemFailure, store
  <2> QED BY <2>1, QuietStep
<1>7. CASE LeaseExpires
  <2>1. /\ row'.expired = TRUE
        /\ row'.version = row.version /\ row'.token = row.token
        /\ UNCHANGED <<outbox, results>>
    BY <1>7 DEF LeaseExpires, TypeInv, TypeOK, Row
  <2>2. OutboxReleased'
    BY <2>1 DEF OutboxReleased
  <2>3. Lease!Expire
    BY <1>7, <2>1 DEF LeaseExpires, Lease!Expire
  <2> QED BY <2>2, <2>3 DEF Lease!LeaseNext
<1>8. ASSUME NEW w \in Worker, Crash(w) \/ \E e \in Event : Receive(w, e)
      PROVE  OutboxReleased' /\ [Lease!LeaseNext]_(Lease!lvars)
  BY <1>8, QuietStep DEF Crash, Receive, store
<1>9. ASSUME NEW e \in Event, QueueStep(e) \/ Duplicate(e)
      PROVE  OutboxReleased' /\ [Lease!LeaseNext]_(Lease!lvars)
  BY <1>9, QuietStep DEF QueueStep, VisibilityTimeout, Redrive, Duplicate, store
<1>10. CASE UNCHANGED vars
  BY <1>10, QuietStep DEF vars
<1> QED
  BY <1>1, <1>2, <1>3, <1>4, <1>5, <1>6, <1>7, <1>8, <1>9, <1>10 DEF Next

-----------------------------------------------------------------------------
\* The invariant behind the claim protocol.
THEOREM LeaseInvariance == Spec => []LeaseInv
<1>1. Init => LeaseInv
  BY InitLease
<1>2. LeaseInv /\ [Next]_vars => LeaseInv'
  BY NextTypes, NextClaimedWork, NextOutboxReleased DEF LeaseInv
<1> QED BY <1>1, <1>2, PTL DEF Spec

\* claim_processing, apply_claim_fence and save_with_outbox implement the lease
\* register: results are recorded by the newest claim only, one per claim.
THEOREM ClaimsImplementLeaseRegister == Spec => LeaseProtocol
<1>1. Init => Lease!LeaseInit
  <2> SUFFICES ASSUME Init PROVE Lease!LeaseInit
    OBVIOUS
  <2>1. row.version = 0 /\ row.token = 0 /\ row.expired = FALSE /\ results = {}
    BY DEF Init
  <2> QED BY <2>1 DEF Lease!LeaseInit
<1>2. LeaseInv /\ [Next]_vars => [Lease!LeaseNext]_(Lease!lvars)
  BY NextOutboxReleased
<1> QED BY <1>1, <1>2, LeaseInvariance, PTL DEF Spec, LeaseProtocol, Lease!LeaseSpec
=============================================================================
