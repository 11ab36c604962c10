---------------------- MODULE FileProcessingResultProofs ----------------------
(* What acknowledgements, outbox rows and the deletion of the source rely on: *)
(* each follows a completed result of the right event, on every error path.   *)
(* And what a message is given up for.                                        *)
EXTENDS FileProcessingProofs

USE DEF given

CompletedResult(e) == \E r \in results : r.event = e /\ r.status = "COMPLETED"

IgnoredOrCompleted(e) == input[e].kind = "OTHER" \/ CompletedResult(e)

\* The row and the outbox, read by the duplicate checks, tell the truth.
RowTrue == row.status = "COMPLETED" => CompletedResult(row.last)

OutboxTrue == \A o \in outbox : o.type = "ANALYSIS_COMPLETED" => CompletedResult(o.event)

\* What a worker knows from the labels it has passed.
AckDue(w) == pc[w] = "ack" => IgnoredOrCompleted(job[w])

Recorded(w) == pc[w] \in {"publish", "cleanup"} => CompletedResult(job[w])

UploadWork(w) ==
  pc[w] \in {"download", "copy", "replay", "publish", "cleanup"} => input[job[w]].kind = "UPLOADED"

CopyMade(w) ==
  /\ pc[w] \in {"commit", "replay", "publish"} /\ input[job[w]].kind = "UPLOADED" /\ ~s3.safe
       => s3.quarantine
  /\ pc[w] = "cleanup" => s3.quarantine

Knows(w) == AckDue(w) /\ Recorded(w) /\ UploadWork(w) /\ CopyMade(w)

ResultInv ==
  /\ LeaseInv
  /\ RowTrue
  /\ OutboxTrue
  /\ \A w \in Worker : Knows(w)
  /\ AckedAfterCompletion
  /\ SourceKeptUntilQuarantined
  /\ OutboxMatchesResults
  /\ OneCompletionEvent

-----------------------------------------------------------------------------
(* What no step takes back.                                                 *)

Grows ==
  /\ useOutbox' = useOutbox
  /\ input' = input
  /\ results \subseteq results'
  /\ s3'.safe = s3.safe
  /\ s3.quarantine => s3'.quarantine

LEMMA NextGrows == TypeInv /\ [Next]_vars => Grows
<1> SUFFICES ASSUME TypeInv, [Next]_vars PROVE Grows
  OBVIOUS
<1>1. useOutbox' = useOutbox /\ input' = input
  BY DEF Next, vars, HandleStep, QueueStep, Receive, VisibilityTimeout, Redrive, Duplicate,
         ReadExisting, Claim, ClaimLost, ClaimRefused, Reread, Download, Copy, CommitTransaction,
         TransactionCancelled, Replay, Save, Publish, Cleanup, PersistFailure,
         FailureNotPersisted, PublishFailure, Ack, Requeue, Reject, BatchItemFailure,
         LeaseExpires, Crash
<1>2. results \subseteq results'
  BY DEF Next, vars, HandleStep, QueueStep, Receive, VisibilityTimeout, Redrive, Duplicate,
         ReadExisting, Claim, ClaimLost, ClaimRefused, Reread, Download, Copy, CommitTransaction,
         TransactionCancelled, Replay, Save, Publish, Cleanup, PersistFailure,
         FailureNotPersisted, PublishFailure, Ack, Requeue, Reject, BatchItemFailure,
         LeaseExpires, Crash, store, Write
<1>3. UNCHANGED s3 \/ \E w \in Worker : Copy(w) \/ Cleanup(w)
  BY DEF Next, vars, HandleStep, QueueStep, Receive, VisibilityTimeout, Redrive, Duplicate,
         ReadExisting, Claim, ClaimLost, ClaimRefused, Reread, Download, CommitTransaction,
         TransactionCancelled, Replay, Save, Publish, PersistFailure,
         FailureNotPersisted, PublishFailure, Ack, Requeue, Reject, BatchItemFailure,
         LeaseExpires, Crash, store
<1>4. s3'.safe = s3.safe /\ (s3.quarantine => s3'.quarantine)
  <2>1. \/ UNCHANGED s3
        \/ s3' = [s3 EXCEPT !.quarantine = TRUE]
        \/ s3' = [s3 EXCEPT !.source = FALSE]
    BY <1>3 DEF Copy, Cleanup
  <2> QED BY <2>1 DEF TypeInv, TypeOK
<1> QED BY <1>1, <1>2, <1>4 DEF Grows

LEMMA CompletedForGood ==
  ASSUME Grows, NEW e
  PROVE  /\ CompletedResult(e) => CompletedResult(e)'
         /\ IgnoredOrCompleted(e) => IgnoredOrCompleted(e)'
BY DEF Grows, CompletedResult, IgnoredOrCompleted

\* What a worker knows stays true while others move.
LEMMA KnowsForGood ==
  ASSUME Grows, NEW v \in Worker, Knows(v), pc'[v] = pc[v], job'[v] = job[v]
  PROVE  Knows(v)'
<1>1. AckDue(v)' /\ Recorded(v)'
  BY CompletedForGood DEF Knows, AckDue, Recorded
<1>2. UploadWork(v)' /\ CopyMade(v)'
  BY DEF Knows, UploadWork, CopyMade, Grows
<1> QED BY <1>1, <1>2 DEF Knows

\* A step of one worker: only its own knowledge has to be shown again.
LEMMA OneKnows ==
  ASSUME TypeInv, Grows, NEW w \in Worker, \A v \in Worker : Knows(v), NEW label, Goto(w, label),
         UNCHANGED job,
         label = "ack" => IgnoredOrCompleted(job[w])',
         label \in {"publish", "cleanup"} => CompletedResult(job[w])',
         label \in {"download", "copy", "replay", "publish", "cleanup"} =>
           input[job[w]].kind = "UPLOADED",
         label \in {"commit", "replay", "publish"} /\ input[job[w]].kind = "UPLOADED" /\ ~s3.safe
           => s3'.quarantine,
         label = "cleanup" => s3'.quarantine
  PROVE  \A v \in Worker : Knows(v)'
<1>1. pc'[w] = label /\ \A v \in Worker : v # w => pc'[v] = pc[v]
  BY DEF Goto, TypeInv, TypeOK
<1>2. ASSUME NEW v \in Worker, v # w PROVE Knows(v)'
  BY <1>1, <1>2, KnowsForGood
<1>3. AckDue(w)' /\ Recorded(w)'
  BY <1>1 DEF AckDue, Recorded, IgnoredOrCompleted, CompletedResult
<1>4. UploadWork(w)' /\ CopyMade(w)'
  BY <1>1 DEF UploadWork, CopyMade, Grows
<1> QED BY <1>2, <1>3, <1>4 DEF Knows

\* Labels that promise nothing.
LEMMA OneKnowsNothing ==
  ASSUME TypeInv, Grows, NEW w \in Worker, \A v \in Worker : Knows(v),
         NEW label \in {"idle", "read", "claim", "reread", "fail", "failpublish", "requeue", "reject"},
         Goto(w, label), \A v \in Worker : v # w => job'[v] = job[v]
  PROVE  \A v \in Worker : Knows(v)'
<1>1. pc'[w] = label /\ \A v \in Worker : v # w => pc'[v] = pc[v]
  BY DEF Goto, TypeInv, TypeOK
<1>2. ASSUME NEW v \in Worker, v # w PROVE Knows(v)'
  BY <1>1, <1>2, KnowsForGood
<1>3. Knows(w)'
  BY <1>1 DEF Knows, AckDue, Recorded, UploadWork, CopyMade
<1> QED BY <1>2, <1>3

-----------------------------------------------------------------------------
(* Every step leaves each worker knowing what its label promises.           *)

\* A completed result is written for the worker's event.
LEMMA WriteCompletes ==
  ASSUME TypeInv, NEW w \in Worker, job[w] \in Event, Write(w, "COMPLETED", CompletedRow(w)),
         UNCHANGED job
  PROVE  CompletedResult(job[w])'
<1> DEFINE r(final) == [event |-> job[w], claim |-> claim[w], status |-> "COMPLETED",
                        final |-> final]
<1>1. PICK final \in BOOLEAN : results' = results \cup {r(final)}
  BY CompletedRowFields, WriteAdds DEF TypeInv
<1>2. r(final).event = job'[w] /\ r(final).status = "COMPLETED"
  OBVIOUS
<1>3. r(final) \in results'
  BY <1>1
<1> QED BY <1>2, <1>3 DEF CompletedResult

LEMMA CleanupNeedsCopy ==
  ASSUME NEW w \in Worker, AfterCommit(w) = "cleanup"
  PROVE  input[job[w]].kind = "UPLOADED" /\ ~s3.safe
BY DEF AfterCommit, OutputLocation

LEMMA NextKnows == ResultInv /\ [Next]_vars => \A v \in Worker : Knows(v)'
<1> SUFFICES ASSUME ResultInv, [Next]_vars PROVE \A v \in Worker : Knows(v)'
  OBVIOUS
<1>a. TypeInv /\ Grows /\ \A v \in Worker : Knows(v)
  BY NextGrows DEF ResultInv, LeaseInv
<1>b. \A w \in Worker : Completed(job[w]) => CompletedResult(job[w])
  BY DEF ResultInv, RowTrue, Completed, Seen
<1>1. ASSUME NEW w \in Worker, ReadExisting(w) \/ Reread(w) PROVE \A v \in Worker : Knows(v)'
  <2>1. UNCHANGED <<input, results, job>>
    BY <1>1 DEF ReadExisting, Reread, store, local
  <2>2. CASE Goto(w, "ack") /\ IgnoredOrCompleted(job[w])
    BY <1>a, <2>1, <2>2, OneKnows DEF IgnoredOrCompleted, CompletedResult
  <2>3. CASE \E label \in {"reject", "claim", "requeue"} : Goto(w, label)
    BY <1>a, <2>1, <2>3, OneKnowsNothing
  <2> QED BY <1>1, <1>b, <2>2, <2>3 DEF ReadExisting, Reread, IgnoredOrCompleted
<1>2. ASSUME NEW w \in Worker, Claim(w) PROVE \A v \in Worker : Knows(v)'
  <2>1. Goto(w, FirstStep(job[w])) /\ UNCHANGED job
    BY <1>2 DEF Claim
  <2>2. \/ FirstStep(job[w]) = "download" /\ input[job[w]].kind = "UPLOADED"
        \/ FirstStep(job[w]) = "commit" /\ input[job[w]].kind # "UPLOADED"
    BY DEF FirstStep
  <2> QED BY <1>a, <2>1, <2>2, OneKnows
<1>3. ASSUME NEW w \in Worker, ClaimLost(w) \/ ClaimRefused(w) PROVE \A v \in Worker : Knows(v)'
  <2>1. (Goto(w, "reread") \/ Goto(w, "requeue")) /\ UNCHANGED job
    BY <1>3 DEF ClaimLost, ClaimRefused, local
  <2> QED BY <1>a, <2>1, OneKnowsNothing
\* Every failure of the work leads to "fail", which promises nothing.
<1>4. ASSUME NEW w \in Worker, Goto(w, "fail"), UNCHANGED job PROVE \A v \in Worker : Knows(v)'
  BY <1>a, <1>4, OneKnowsNothing
<1>5. ASSUME NEW w \in Worker, Download(w) PROVE \A v \in Worker : Knows(v)'
  <2>1. UNCHANGED job /\ input[job[w]].kind = "UPLOADED"
    BY <1>5, <1>a DEF Download, At, Knows, UploadWork
  <2>2. CASE Goto(w, AfterAnalysis)
    <3>1. AfterAnalysis = "copy" \/ (AfterAnalysis = "commit" /\ s3.safe)
      BY DEF AfterAnalysis
    <3> QED BY <1>a, <2>1, <2>2, <3>1, OneKnows
  <2> QED BY <1>4, <1>5, <2>1, <2>2 DEF Download, FailWith
<1>6. ASSUME NEW w \in Worker, Copy(w) PROVE \A v \in Worker : Knows(v)'
  <2>1. UNCHANGED job
    BY <1>6 DEF Copy
  <2>2. CASE Goto(w, "commit") /\ s3' = [s3 EXCEPT !.quarantine = TRUE]
    <3>1. s3'.quarantine
      BY <1>a, <2>2 DEF TypeInv, TypeOK
    <3> QED BY <1>a, <2>1, <2>2, <3>1, OneKnows
  <2> QED BY <1>4, <1>6, <2>1, <2>2 DEF Copy, FailWith
\* After the commit: the result exists, and the copy when there is a cleanup.
<1>7. ASSUME NEW w \in Worker, pc[w] \in {"commit", "replay", "publish"}, UNCHANGED job,
             CompletedResult(job[w])', Goto(w, AfterCommit(w))
      PROVE  \A v \in Worker : Knows(v)'
  <2>1. AfterCommit(w) = "ack" \/ AfterCommit(w) = "cleanup"
    BY DEF AfterCommit
  <2>2. CASE AfterCommit(w) = "ack"
    <3>1. Goto(w, "ack") /\ IgnoredOrCompleted(job[w])'
      BY <1>7, <2>2 DEF IgnoredOrCompleted
    <3> QED BY <1>a, <1>7, <3>1, OneKnows
  <2>3. CASE AfterCommit(w) = "cleanup"
    <3>1. input[job[w]].kind = "UPLOADED" /\ s3'.quarantine
      BY <1>a, <1>7, <2>3, CleanupNeedsCopy DEF Knows, CopyMade, Grows
    <3> QED BY <1>a, <1>7, <2>3, <3>1, OneKnows
  <2> QED BY <2>1, <2>2, <2>3
<1>8. ASSUME NEW w \in Worker, CommitTransaction(w) PROVE \A v \in Worker : Knows(v)'
  <2>1. UNCHANGED job /\ pc[w] = "commit" /\ input[job[w]].kind = "UPLOADED"
    BY <1>8 DEF CommitTransaction, At, UsesTransaction
  <2>2. CompletedResult(job[w])'
    BY <1>8, <1>a, <2>1, WriteCompletes DEF CommitTransaction, TypeInv, BusyHasJob
  <2>3. CASE Goto(w, "replay")
    BY <1>a, <2>1, <2>3, OneKnows DEF Knows, CopyMade, Grows
  <2> QED BY <1>4, <1>7, <1>8, <2>1, <2>2, <2>3 DEF CommitTransaction, FailWith
<1>9. ASSUME NEW w \in Worker, TransactionCancelled(w) PROVE \A v \in Worker : Knows(v)'
  <2>1. UNCHANGED job /\ pc[w] = "commit" /\ input[job[w]].kind = "UPLOADED"
    BY <1>9 DEF TransactionCancelled, At, UsesTransaction
  <2>2. CASE Goto(w, "replay")
    BY <1>a, <2>1, <2>2, OneKnows DEF Knows, CopyMade, Grows
  <2> QED BY <1>4, <1>9, <2>1, <2>2 DEF TransactionCancelled, FailWith
<1>10. ASSUME NEW w \in Worker, Replay(w) PROVE \A v \in Worker : Knows(v)'
  <2>1. UNCHANGED job /\ pc[w] = "replay"
    BY <1>10 DEF Replay, At
  <2>2. CASE CompletionEvent(w) \in outbox /\ Goto(w, AfterCommit(w))
    <3>1. CompletedResult(job[w])
      BY <2>2 DEF ResultInv, OutboxTrue, CompletionEvent
    <3>2. CompletedResult(job[w])'
      BY <1>10, <3>1 DEF Replay, CompletedResult
    <3> QED BY <1>7, <2>1, <2>2, <3>2
  <2> QED BY <1>4, <1>10, <2>1, <2>2 DEF Replay, FailWith
<1>11. ASSUME NEW w \in Worker, Save(w) PROVE \A v \in Worker : Knows(v)'
  <2>1. UNCHANGED job /\ pc[w] = "commit"
    BY <1>11 DEF Save, At
  <2>2. CASE Goto(w, "fail")
    BY <1>4, <2>1, <2>2
  <2>3. CASE /\ Write(w, "COMPLETED", CompletedRow(w))
             /\ Goto(w, IF input[job[w]].kind = "UPLOADED" THEN "publish" ELSE "ack")
    <3>1. CompletedResult(job[w])'
      BY <1>a, <2>1, <2>3, WriteCompletes DEF TypeInv, BusyHasJob
    <3>2. CASE input[job[w]].kind = "UPLOADED"
      BY <1>a, <2>1, <2>3, <3>1, <3>2, OneKnows DEF Knows, CopyMade, Grows
    <3>3. CASE input[job[w]].kind # "UPLOADED"
      <4>1. Goto(w, "ack") /\ IgnoredOrCompleted(job[w])'
        BY <2>3, <3>1, <3>3 DEF IgnoredOrCompleted
      <4> QED BY <1>a, <2>1, <4>1, OneKnows
    <3> QED BY <3>2, <3>3
  <2> QED BY <1>11, <2>2, <2>3 DEF Save, FailWith
<1>12. ASSUME NEW w \in Worker, Publish(w) PROVE \A v \in Worker : Knows(v)'
  <2>1. UNCHANGED <<job, results>> /\ pc[w] = "publish"
    BY <1>12 DEF Publish, At
  <2>2. CompletedResult(job[w])'
    BY <1>a, <2>1 DEF Knows, Recorded, CompletedResult
  <2> QED BY <1>4, <1>7, <1>12, <2>1, <2>2 DEF Publish, FailWith
<1>13. ASSUME NEW w \in Worker, Cleanup(w) PROVE \A v \in Worker : Knows(v)'
  <2>1. UNCHANGED <<job, results>> /\ pc[w] = "cleanup"
    BY <1>13 DEF Cleanup, At
  <2>2. IgnoredOrCompleted(job[w])'
    BY <1>a, <2>1 DEF Knows, Recorded, CompletedResult, IgnoredOrCompleted
  <2>3. CASE Goto(w, "ack")
    BY <1>a, <2>1, <2>2, <2>3, OneKnows
  <2> QED BY <1>4, <1>13, <2>1, <2>3 DEF Cleanup, FailWith
<1>14. ASSUME NEW w \in Worker, PersistFailure(w) \/ FailureNotPersisted(w) \/ PublishFailure(w)
       PROVE  \A v \in Worker : Knows(v)'
  <2>1. UNCHANGED job
    BY <1>14 DEF PersistFailure, FailureNotPersisted, PublishFailure, local
  <2>2. PICK label \in {"failpublish", "requeue", "reject"} : Goto(w, label)
    BY <1>14 DEF PersistFailure, FailureNotPersisted, PublishFailure, AfterFailure
  <2> QED BY <1>a, <2>1, <2>2, OneKnowsNothing
<1>15. ASSUME NEW w \in Worker, Finish(w) PROVE \A v \in Worker : Knows(v)'
  <2>1. Goto(w, "idle") /\ \A v \in Worker : v # w => job'[v] = job[v]
    BY <1>15, <1>a DEF Finish, TypeInv, TypeOK
  <2> QED BY <1>a, <2>1, OneKnowsNothing
<1>16. ASSUME NEW w \in Worker, NEW e \in Event, Receive(w, e) PROVE \A v \in Worker : Knows(v)'
  <2>1. Goto(w, "read") /\ \A v \in Worker : v # w => job'[v] = job[v]
    BY <1>16, <1>a DEF Receive, TypeInv, TypeOK
  <2> QED BY <1>a, <2>1, OneKnowsNothing
<1>17. CASE UNCHANGED <<pc, job>>
  BY <1>a, <1>17, KnowsForGood
<1>18. ASSUME NEW w \in Worker, Ack(w) \/ Requeue(w) \/ Reject(w) \/ BatchItemFailure(w) \/ Crash(w)
       PROVE  Finish(w)
  BY <1>18 DEF Ack, Requeue, Reject, BatchItemFailure, Crash
<1>19. ASSUME NEW e \in Event, QueueStep(e) \/ Duplicate(e) PROVE UNCHANGED <<pc, job>>
  BY <1>19 DEF QueueStep, VisibilityTimeout, Redrive, Duplicate, local
<1>20. LeaseExpires \/ UNCHANGED vars => UNCHANGED <<pc, job>>
  BY DEF LeaseExpires, vars, local
<1> QED
  BY <1>1, <1>2, <1>3, <1>5, <1>6, <1>8, <1>9, <1>10, <1>11, <1>12, <1>13, <1>14, <1>15, <1>16,
     <1>17, <1>18, <1>19, <1>20 DEF Next, HandleStep

-----------------------------------------------------------------------------
(* The row and the outbox stay true to the results.                         *)

LEMMA NextRowTrue == ResultInv /\ [Next]_vars => RowTrue'
<1> SUFFICES ASSUME ResultInv, [Next]_vars PROVE RowTrue'
  OBVIOUS
<1>a. TypeInv /\ Grows /\ RowTrue
  BY NextGrows DEF ResultInv, LeaseInv
<1>1. ASSUME row'.status = "COMPLETED" => row.status = "COMPLETED" /\ row'.last = row.last
      PROVE  RowTrue'
  BY <1>a, <1>1, CompletedForGood DEF RowTrue, CompletedResult, Grows
<1>2. ASSUME NEW w \in Worker, Claim(w) \/ ClaimLost(w) PROVE RowTrue'
  <2>1. row' = ClaimedRow(job[w]) /\ job[w] \in Event
    BY <1>2, <1>a DEF Claim, ClaimLost, At, TypeInv, BusyHasJob
  <2>2. row'.status = "PROCESSING"
    BY <1>a, <2>1, ClaimedRowFields DEF TypeInv
  <2> QED BY <2>2 DEF RowTrue
<1>3. ASSUME NEW w \in Worker, pc[w] # "idle", Write(w, "COMPLETED", CompletedRow(w)), UNCHANGED job
      PROVE  RowTrue'
  <2>1. job[w] \in Event
    BY <1>3, <1>a DEF TypeInv, BusyHasJob
  <2>2. CompletedResult(job[w])'
    BY <1>3, <1>a, <2>1, WriteCompletes
  <2>3. row'.last = job'[w]
    BY <1>3, <1>a, <2>1, CompletedRowFields DEF Write, TypeInv
  <2> QED BY <2>2, <2>3 DEF RowTrue, CompletedResult
<1>4. ASSUME NEW w \in Worker, CommitTransaction(w) \/ Save(w) PROVE RowTrue'
  <2>1. pc[w] # "idle" /\ UNCHANGED job
    BY <1>4 DEF CommitTransaction, Save, At
  <2>2. Write(w, "COMPLETED", CompletedRow(w)) \/ UNCHANGED row
    BY <1>4 DEF CommitTransaction, Save
  <2> QED BY <1>1, <1>3, <2>1, <2>2
<1>5. ASSUME NEW w \in Worker, PersistFailure(w) PROVE RowTrue'
  <2>1. row' = FailedRow(w) /\ job[w] \in Event
    BY <1>5, <1>a DEF PersistFailure, Write, At, TypeInv, BusyHasJob
  <2>2. row'.status = "FAILED"
    BY <1>a, <2>1, FailedRowFields DEF TypeInv
  <2> QED BY <2>2 DEF RowTrue
<1>6. ASSUME NEW w \in Worker, Replay(w) PROVE RowTrue'
  <2>1. CompletionEvent(w) \in outbox => ~Fenced(w)
    BY DEF ResultInv, LeaseInv, OutboxReleased, Fenced, CompletionEvent
  <2>2. UNCHANGED row
    BY <1>6, <2>1 DEF Replay
  <2> QED BY <1>1, <2>2
<1>7. CASE LeaseExpires
  <2>1. row'.status = row.status /\ row'.last = row.last
    BY <1>7, <1>a DEF LeaseExpires, TypeInv, TypeOK, Row
  <2> QED BY <1>1, <2>1
<1>8. ASSUME NEW w \in Worker, HandleStep(w), ~Claim(w), ~ClaimLost(w), ~CommitTransaction(w),
             ~Save(w), ~PersistFailure(w), ~Replay(w)
      PROVE  UNCHANGED row
  BY <1>8 DEF HandleStep, ReadExisting, ClaimRefused, Reread, Download, Copy,
              TransactionCancelled, Publish, Cleanup, FailureNotPersisted, PublishFailure,
              Ack, Requeue, Reject, BatchItemFailure, store
<1>9. ASSUME NEW w \in Worker, Crash(w) \/ \E e \in Event : Receive(w, e) PROVE UNCHANGED row
  BY <1>9 DEF Crash, Receive, store
<1>10. ASSUME NEW e \in Event, QueueStep(e) \/ Duplicate(e) PROVE UNCHANGED row
  BY <1>10 DEF QueueStep, VisibilityTimeout, Redrive, Duplicate, store
<1>11. UNCHANGED row => RowTrue'
  BY <1>1
<1> QED
  BY <1>2, <1>4, <1>5, <1>6, <1>7, <1>8, <1>9, <1>10, <1>11 DEF Next, vars

\* Who writes outbox rows or results, and nothing else does.
LEMMA OutputsChangedBy ==
  ASSUME [Next]_vars
  PROVE  \/ UNCHANGED <<outbox, results>>
         \/ \E w \in Worker : CommitTransaction(w) \/ Save(w) \/ PersistFailure(w)
<1>1. ASSUME NEW w \in Worker, HandleStep(w), ~CommitTransaction(w), ~Save(w), ~PersistFailure(w)
      PROVE  UNCHANGED <<outbox, results>>
  BY <1>1 DEF HandleStep, ReadExisting, Claim, ClaimLost, ClaimRefused, Reread, Download, Copy,
              TransactionCancelled, Replay, Publish, Cleanup, FailureNotPersisted, PublishFailure,
              Ack, Requeue, Reject, BatchItemFailure, store
<1>2. ASSUME NEW w \in Worker, Crash(w) \/ \E e \in Event : Receive(w, e)
      PROVE  UNCHANGED <<outbox, results>>
  BY <1>2 DEF Crash, Receive, store
<1>3. ASSUME NEW e \in Event, QueueStep(e) \/ Duplicate(e) PROVE UNCHANGED <<outbox, results>>
  BY <1>3 DEF QueueStep, VisibilityTimeout, Redrive, Duplicate, store
<1>4. LeaseExpires \/ UNCHANGED vars => UNCHANGED <<outbox, results>>
  BY DEF LeaseExpires, vars
<1> QED BY <1>1, <1>2, <1>3, <1>4 DEF Next

LEMMA NextOutboxTrue == ResultInv /\ [Next]_vars => OutboxTrue' /\ OneCompletionEvent'
<1> SUFFICES ASSUME ResultInv, [Next]_vars PROVE OutboxTrue' /\ OneCompletionEvent'
  OBVIOUS
<1>a. TypeInv /\ Grows /\ OutboxTrue /\ OneCompletionEvent
  BY NextGrows DEF ResultInv, LeaseInv
<1>1. CASE UNCHANGED outbox
  BY <1>a, <1>1, CompletedForGood DEF OutboxTrue, OneCompletionEvent
<1>2. ASSUME NEW w \in Worker, CommitTransaction(w) PROVE OutboxTrue' /\ OneCompletionEvent'
  <2>1. UNCHANGED job /\ job[w] \in Event
    BY <1>2, <1>a DEF CommitTransaction, At, TypeInv, BusyHasJob
  <2>2. CompletedResult(job[w])'
    BY <1>2, <1>a, <2>1, WriteCompletes DEF CommitTransaction
  <2>3. /\ outbox' = outbox \cup {CompletionEvent(w)}
        /\ CompletionEvent(w).event = job[w]
        /\ \A o \in outbox : o.type = "ANALYSIS_COMPLETED" => o.event # job[w]
    BY <1>2 DEF CommitTransaction, CompletionExists, CompletionEvent
  <2>4. \A e : e = job[w] => CompletedResult(e)'
    BY <2>1, <2>2 DEF CompletedResult
  <2>5. OutboxTrue'
    BY <1>a, <2>3, <2>4, CompletedForGood DEF OutboxTrue
  <2>6. OneCompletionEvent'
    BY <1>a, <2>3 DEF OneCompletionEvent
  <2> QED BY <2>5, <2>6
<1>3. ASSUME NEW w \in Worker, PersistFailure(w) PROVE OutboxTrue' /\ OneCompletionEvent'
  <2>1. \A o \in outbox' : o \in outbox \/ o.type # "ANALYSIS_COMPLETED"
    BY <1>3 DEF PersistFailure, FailureEvent
  <2>2. OutboxTrue'
    BY <1>a, <2>1, CompletedForGood DEF OutboxTrue
  <2>3. OneCompletionEvent'
    BY <1>a, <2>1 DEF OneCompletionEvent
  <2> QED BY <2>2, <2>3
<1>4. ASSUME NEW w \in Worker, Save(w) PROVE UNCHANGED outbox
  BY <1>4 DEF Save
<1> QED BY <1>1, <1>2, <1>3, <1>4, OutputsChangedBy

\* One result and the event made of it, or a result that needs none.
LEMMA NextOutboxMatches == ResultInv /\ [Next]_vars => OutboxMatchesResults'
<1> SUFFICES ASSUME ResultInv, [Next]_vars, useOutbox' PROVE OutboxMatchesResults'
  BY DEF OutboxMatchesResults
<1> DEFINE Told(S) == {EventOf(r) : r \in S}
           Needy(S) == {r \in S : NeedsEvent(r)}
           Key(o) == [type |-> o.type, event |-> o.event, claim |-> o.claim]
           Keys(O) == {Key(o) : o \in O}
<1>a. TypeInv /\ useOutbox /\ input' = input /\ Told(Needy(results)) = Keys(outbox)
  BY NextGrows DEF ResultInv, LeaseInv, OutboxMatchesResults, Grows
<1>b. ASSUME Told(Needy(results')) = Keys(outbox') PROVE OutboxMatchesResults'
  BY <1>a, <1>b DEF OutboxMatchesResults, NeedsEvent, EventOf
<1>1. ASSUME NEW r, results' = results \cup {r}, NeedsEvent(r),
             NEW o, outbox' = outbox \cup {o}, EventOf(r) = Key(o)
      PROVE  Told(Needy(results')) = Keys(outbox')
  <2>1. Needy(results') = Needy(results) \cup {r}
    BY <1>1
  <2> HIDE DEF Needy, Key
  <2>2. Told(Needy(results')) = Told(Needy(results)) \cup {EventOf(r)}
    BY <2>1
  <2>3. Keys(outbox') = Keys(outbox) \cup {Key(o)}
    BY <1>1
  <2> QED BY <1>a, <1>1, <2>2, <2>3
<1>2. ASSUME NEW w \in Worker, CommitTransaction(w) PROVE Told(Needy(results')) = Keys(outbox')
  <2> DEFINE r(final) == [event |-> job[w], claim |-> claim[w], status |-> "COMPLETED",
                          final |-> final]
  <2>1. job[w] \in Event
    BY <1>2, <1>a DEF CommitTransaction, At, TypeInv, BusyHasJob
  <2>2. PICK final \in BOOLEAN : results' = results \cup {r(final)}
    BY <1>2, <1>a, <2>1, CompletedRowFields, WriteAdds DEF CommitTransaction, TypeInv
  <2>3. NeedsEvent(r(final))
    BY <1>2 DEF CommitTransaction, UsesTransaction, NeedsEvent
  <2>4. outbox' = outbox \cup {CompletionEvent(w)} /\ EventOf(r(final)) = Key(CompletionEvent(w))
    BY <1>2 DEF CommitTransaction, EventOf, CompletionEvent
  <2> QED BY <1>1, <2>2, <2>3, <2>4
<1>3. ASSUME NEW w \in Worker, PersistFailure(w) PROVE Told(Needy(results')) = Keys(outbox')
  <2> DEFINE r(final) == [event |-> job[w], claim |-> claim[w], status |-> "FAILED",
                          final |-> final]
  <2>1. job[w] \in Event
    BY <1>3, <1>a DEF PersistFailure, At, TypeInv, BusyHasJob
  <2>2. PICK final \in BOOLEAN : results' = results \cup {r(final)}
    BY <1>3, <1>a, <2>1, FailedRowFields, WriteAdds DEF PersistFailure, TypeInv
  <2>3. NeedsEvent(r(final))
    BY DEF NeedsEvent
  <2>4. outbox' = outbox \cup {FailureEvent(w)} /\ EventOf(r(final)) = Key(FailureEvent(w))
    BY <1>3 DEF PersistFailure, EventOf, FailureEvent
  <2> QED BY <1>1, <2>2, <2>3, <2>4
<1>4. ASSUME NEW w \in Worker, Save(w) PROVE Told(Needy(results')) = Keys(outbox')
  <2> DEFINE r(final) == [event |-> job[w], claim |-> claim[w], status |-> "COMPLETED",
                          final |-> final]
  <2>1. job[w] \in Event /\ input[job[w]].kind # "UPLOADED" /\ UNCHANGED outbox
    BY <1>4, <1>a DEF Save, At, TypeInv, BusyHasJob, UsesTransaction
  <2>2. results' = results \/ \E final \in BOOLEAN : results' = results \cup {r(final)}
    BY <1>4, <1>a, <2>1, CompletedRowFields, WriteAdds DEF Save, TypeInv
  <2>3. \A final \in BOOLEAN : ~NeedsEvent(r(final))
    BY <2>1 DEF NeedsEvent
  <2>4. Needy(results') = Needy(results)
    <3> HIDE DEF r
    <3> QED BY <2>2, <2>3
  <2> QED BY <1>a, <2>1, <2>4
<1>5. ASSUME UNCHANGED <<outbox, results>> PROVE Told(Needy(results')) = Keys(outbox')
  BY <1>a, <1>5
<1>6. Told(Needy(results')) = Keys(outbox')
  <2> HIDE DEF Told, Needy, Keys
  <2> QED BY <1>2, <1>3, <1>4, <1>5, OutputsChangedBy
<1> QED BY <1>b, <1>6

-----------------------------------------------------------------------------
(* Acknowledging and deleting.                                              *)

LEMMA NextAcked == ResultInv /\ [Next]_vars => AckedAfterCompletion'
<1> SUFFICES ASSUME ResultInv, [Next]_vars PROVE AckedAfterCompletion'
  OBVIOUS
<1>a. TypeInv /\ Grows /\ \A e \in Event : queue[e] = "deleted" => IgnoredOrCompleted(e)
  BY NextGrows
  DEF ResultInv, LeaseInv, AckedAfterCompletion, IgnoredOrCompleted, CompletedResult
<1>b. SUFFICES ASSUME NEW e \in Event, queue'[e] = "deleted" PROVE IgnoredOrCompleted(e)'
  BY DEF AckedAfterCompletion, IgnoredOrCompleted, CompletedResult
<1>1. CASE queue[e] = "deleted"
  BY <1>a, <1>1, CompletedForGood
<1>2. CASE queue[e] # "deleted"
  <2>1. PICK w \in Worker : Ack(w) /\ job[w] = e
    <3>1. ASSUME NEW w \in Worker, HandleStep(w), ~Ack(w) PROVE queue'[e] # "deleted"
      <4>1. UNCHANGED queue \/ queue' = [queue EXCEPT ![job[w]] = "visible"]
        BY <3>1 DEF HandleStep, ReadExisting, Claim, ClaimLost, ClaimRefused, Reread, Download,
                    Copy, CommitTransaction, TransactionCancelled, Replay, Save, Publish, Cleanup,
                    PersistFailure, FailureNotPersisted, PublishFailure, Requeue, Reject,
                    BatchItemFailure, sqs
      <4> QED BY <1>a, <1>2, <4>1 DEF TypeInv, TypeOK
    <3>2. ASSUME NEW w \in Worker, Ack(w), job[w] # e PROVE queue'[e] # "deleted"
      BY <1>a, <1>2, <3>2 DEF Ack, TypeInv, TypeOK
    <3>3. ASSUME NEW w \in Worker, Crash(w) \/ \E f \in Event : Receive(w, f)
          PROVE  queue'[e] # "deleted"
      BY <1>a, <1>2, <3>3 DEF Crash, Receive, sqs, TypeInv, TypeOK
    <3>4. ASSUME NEW f \in Event, QueueStep(f) \/ Duplicate(f) PROVE queue'[e] # "deleted"
      BY <1>a, <1>2, <3>4 DEF QueueStep, VisibilityTimeout, Redrive, Duplicate, TypeInv, TypeOK
    <3>5. LeaseExpires \/ UNCHANGED vars => queue'[e] # "deleted"
      BY <1>2 DEF LeaseExpires, vars, sqs
    <3> QED BY <1>b, <3>1, <3>2, <3>3, <3>4, <3>5 DEF Next
  <2>2. IgnoredOrCompleted(e)
    BY <2>1 DEF ResultInv, Knows, AckDue, Ack, At
  <2> QED BY <1>a, <2>2, CompletedForGood
<1> QED BY <1>1, <1>2

LEMMA NextSourceKept == ResultInv /\ [Next]_vars => SourceKeptUntilQuarantined'
<1> DEFINE UploadDone == \E r \in results : r.status = "COMPLETED" /\ input[r.event].kind = "UPLOADED"
<1> SUFFICES ASSUME ResultInv, [Next]_vars, ~s3'.source PROVE s3'.quarantine /\ UploadDone'
  BY DEF SourceKeptUntilQuarantined
<1>a. TypeInv /\ Grows
  BY NextGrows DEF ResultInv, LeaseInv
<1>b. s3.quarantine /\ UploadDone => s3'.quarantine /\ UploadDone'
  BY <1>a DEF Grows
<1>1. CASE ~s3.source
  BY <1>b, <1>1 DEF ResultInv, SourceKeptUntilQuarantined
<1>2. CASE s3.source
  <2>1. PICK w \in Worker : Cleanup(w)
    <3>1. ASSUME NEW w \in Worker, HandleStep(w), ~Cleanup(w) PROVE s3'.source
      <4>1. UNCHANGED s3 \/ s3' = [s3 EXCEPT !.quarantine = TRUE]
        BY <3>1 DEF HandleStep, ReadExisting, Claim, ClaimLost, ClaimRefused, Reread, Download,
                    Copy, CommitTransaction, TransactionCancelled, Replay, Save, Publish,
                    PersistFailure, FailureNotPersisted, PublishFailure, Ack, Requeue, Reject,
                    BatchItemFailure, store
      <4> QED BY <1>a, <1>2, <4>1 DEF TypeInv, TypeOK
    <3>2. ASSUME NEW w \in Worker, Crash(w) \/ \E e \in Event : Receive(w, e) PROVE s3'.source
      BY <1>2, <3>2 DEF Crash, Receive, store
    <3>3. ASSUME NEW e \in Event, QueueStep(e) \/ Duplicate(e) PROVE s3'.source
      BY <1>2, <3>3 DEF QueueStep, VisibilityTimeout, Redrive, Duplicate, store
    <3>4. LeaseExpires \/ UNCHANGED vars => s3'.source
      BY <1>2 DEF LeaseExpires, vars
    <3> QED BY <3>1, <3>2, <3>3, <3>4 DEF Next
  <2>2. CompletedResult(job[w]) /\ input[job[w]].kind = "UPLOADED" /\ s3.quarantine
    BY <2>1 DEF ResultInv, Knows, Recorded, UploadWork, CopyMade, Cleanup, At
  <2> QED BY <1>b, <2>2 DEF CompletedResult
<1> QED BY <1>1, <1>2

-----------------------------------------------------------------------------
LEMMA InitResult == Init => ResultInv
<1> SUFFICES ASSUME Init PROVE ResultInv
  OBVIOUS
<1>1. RowTrue /\ OutboxTrue /\ OneCompletionEvent
  BY DEF Init, RowTrue, OutboxTrue, OneCompletionEvent
<1>2. \A w \in Worker : Knows(w)
  BY DEF Init, Knows, AckDue, Recorded, UploadWork, CopyMade
<1>3. AckedAfterCompletion /\ SourceKeptUntilQuarantined
  BY DEF Init, AckedAfterCompletion, SourceKeptUntilQuarantined
<1>4. OutboxMatchesResults
  BY DEF Init, OutboxMatchesResults
<1> QED BY <1>1, <1>2, <1>3, <1>4, InitLease DEF ResultInv

\* The invariant behind acknowledgement, outbox and deletion.
THEOREM ResultInvariance == Spec => []ResultInv
<1>1. ResultInv /\ [Next]_vars => LeaseInv'
  BY NextTypes, NextClaimedWork, NextOutboxReleased DEF ResultInv, LeaseInv
<1>2. ResultInv /\ [Next]_vars => ResultInv'
  BY <1>1, NextRowTrue, NextOutboxTrue, NextKnows, NextAcked, NextSourceKept, NextOutboxMatches
  DEF ResultInv
<1> QED BY <1>2, InitResult, PTL DEF Spec

\* A message is deleted from the queue only once its event is completed in the
\* row, or its type is ignored: no error path of handle() loses work.
THEOREM NoWorkLost == Spec => []AckedAfterCompletion
<1>1. ResultInv => AckedAfterCompletion
  BY DEF ResultInv
<1> QED BY <1>1, ResultInvariance, PTL

\* save_with_outbox: results and their outbox rows are stored together.
THEOREM OutboxAtomic == Spec => []OutboxMatchesResults
<1>1. ResultInv => OutboxMatchesResults
  BY DEF ResultInv
<1> QED BY <1>1, ResultInvariance, PTL

\* An input event has at most one completion event, whoever reprocesses it.
THEOREM SingleCompletion == Spec => []OneCompletionEvent
<1>1. ResultInv => OneCompletionEvent
  BY DEF ResultInv
<1> QED BY <1>1, ResultInvariance, PTL

\* The source object goes only after the quarantine copy and a committed result
\* of an upload: the content is never lost.
THEOREM ContentKept == Spec => []SourceKeptUntilQuarantined
<1>1. ResultInv => SourceKeptUntilQuarantined
  BY DEF ResultInv
<1> QED BY <1>1, ResultInvariance, PTL

-----------------------------------------------------------------------------
(* Direct mode: what is announced.                                          *)

\* What a worker that is about to announce has saved.
Saved(w, status) ==
  \E r \in results : r.event = job[w] /\ r.claim = claim[w] /\ r.status = status

Announces(w) ==
  /\ pc[w] = "publish" => Saved(w, "COMPLETED")
  /\ pc[w] = "failpublish" => Saved(w, "FAILED")

AnnounceInv == AnnouncedWasSaved /\ \A w \in Worker : Announces(w)

\* Who moves, and what the others keep.
LEMMA OneMoves ==
  ASSUME TypeInv, [Next]_vars
  PROVE  \/ UNCHANGED <<pc, job, claim>>
         \/ \E w \in Worker :
              /\ HandleStep(w) \/ Crash(w) \/ \E e \in Event : Receive(w, e)
              /\ \A v \in Worker \ {w} : pc'[v] = pc[v] /\ job'[v] = job[v] /\ claim'[v] = claim[v]
<1>1. ASSUME NEW w \in Worker, HandleStep(w) \/ Crash(w) \/ \E e \in Event : Receive(w, e)
      PROVE  /\ \E l : Goto(w, l)
             /\ \A v \in Worker \ {w} : job'[v] = job[v] /\ claim'[v] = claim[v]
  BY <1>1 DEF TypeInv, TypeOK, HandleStep, Crash, Receive, ReadExisting, Claim, ClaimLost,
              ClaimRefused, Reread, Download, Copy, CommitTransaction, TransactionCancelled,
              Replay, Save, Publish, Cleanup, PersistFailure, FailureNotPersisted,
              PublishFailure, Ack, Requeue, Reject, BatchItemFailure, Finish, FailWith, local
<1>2. ASSUME NEW w \in Worker, NEW l, Goto(w, l)
      PROVE  \A v \in Worker \ {w} : pc'[v] = pc[v]
  BY <1>2 DEF Goto, TypeInv, TypeOK
<1>3. ASSUME NEW e \in Event, QueueStep(e) \/ Duplicate(e)
      PROVE  UNCHANGED <<pc, job, claim>>
  BY <1>3 DEF QueueStep, VisibilityTimeout, Redrive, Duplicate, local
<1>4. LeaseExpires \/ UNCHANGED vars => UNCHANGED <<pc, job, claim>>
  BY DEF LeaseExpires, local, vars
<1> QED
  BY <1>1, <1>2, <1>3, <1>4 DEF Next

\* The labels that announce are reached by the writes they follow.
LEMMA AnnounceFollowsWrite ==
  ASSUME TypeInv, NEW w \in Worker,
         HandleStep(w) \/ Crash(w) \/ \E e \in Event : Receive(w, e)
  PROVE  Announces(w)'
<1>1. ASSUME NEW l, Goto(w, l) PROVE pc'[w] = l
  BY <1>1 DEF Goto, TypeInv, TypeOK
<1>2. ASSUME NEW status \in {"COMPLETED", "FAILED"}, NEW newRow \in Row, job[w] \in Event,
             Write(w, status, newRow), UNCHANGED <<job, claim>>
      PROVE  Saved(w, status)'
  <2> DEFINE r(final) == [event |-> job[w], claim |-> claim[w], status |-> status,
                          final |-> final]
  <2>1. PICK final \in BOOLEAN : results' = results \cup {r(final)}
    BY <1>2, WriteAdds DEF TypeInv
  <2>2. r(final) \in results' /\ r(final).event = job'[w] /\ r(final).claim = claim'[w]
        /\ r(final).status = status
    BY <1>2, <2>1
  <2> QED
    BY <2>2 DEF Saved
<1>3. pc'[w] # "publish" /\ pc'[w] # "failpublish" => Announces(w)'
  BY DEF Announces
<1>4. CASE Save(w)
  <2>1. job[w] \in Event /\ UNCHANGED <<job, claim>>
    BY <1>4 DEF Save, At, TypeInv, BusyHasJob
  <2>2. CASE Write(w, "COMPLETED", CompletedRow(w)) /\ (Goto(w, "publish") \/ Goto(w, "ack"))
    <3>1. Saved(w, "COMPLETED")'
      BY <1>2, <2>1, <2>2, CompletedRowFields DEF TypeInv
    <3> QED
      BY <1>1, <2>2, <3>1 DEF Announces
  <2>3. CASE Goto(w, "fail")
    BY <1>1, <1>3, <2>3
  <2> QED
    BY <1>4, <2>2, <2>3 DEF Save, FailWith
<1>5. CASE PersistFailure(w)
  <2>1. job[w] \in Event /\ UNCHANGED <<job, claim>>
    BY <1>5 DEF PersistFailure, At, TypeInv, BusyHasJob, local
  <2>2. Saved(w, "FAILED")'
    BY <1>2, <1>5, <2>1, FailedRowFields DEF PersistFailure, TypeInv
  <2>3. Goto(w, "failpublish") \/ Goto(w, AfterFailure(w))
    BY <1>5 DEF PersistFailure
  <2>4. pc'[w] # "publish"
    BY <1>1, <2>3 DEF AfterFailure
  <2> QED
    BY <2>2, <2>4 DEF Announces
<1>6. CASE Crash(w) \/ \E e \in Event : Receive(w, e)
  <2>1. Goto(w, "idle") \/ Goto(w, "read")
    BY <1>6 DEF Crash, Receive, Finish
  <2> QED
    BY <1>1, <1>3, <2>1
<1>7. CASE HandleStep(w) /\ ~Save(w) /\ ~PersistFailure(w)
  <2>1. \E l \in {"idle", "claim", "reread", "download", "copy", "commit", "replay", "cleanup",
                  "fail", "ack", "requeue", "reject"} : Goto(w, l)
    BY <1>7 DEF HandleStep, ReadExisting, Claim, FirstStep, ClaimLost, ClaimRefused, Reread,
                Download, AfterAnalysis, Copy, CommitTransaction, AfterCommit,
                TransactionCancelled, Replay, Publish, Cleanup, FailureNotPersisted,
                AfterFailure, PublishFailure, Ack, Requeue, Reject, BatchItemFailure, Finish,
                FailWith
  <2> QED
    BY <1>1, <1>3, <2>1
<1> QED
  BY <1>4, <1>5, <1>6, <1>7

LEMMA NextAnnounced == TypeInv /\ AnnounceInv /\ [Next]_vars => AnnounceInv'
<1> SUFFICES ASSUME TypeInv, AnnounceInv, [Next]_vars PROVE AnnounceInv'
  OBVIOUS
<1>1. results \subseteq results'
  BY NextGrows DEF Grows
<1>2. ASSUME NEW v \in Worker, pc'[v] = pc[v], job'[v] = job[v], claim'[v] = claim[v]
      PROVE  Announces(v)'
  BY <1>1, <1>2 DEF AnnounceInv, Announces, Saved
<1>3. \A v \in Worker : Announces(v)'
  BY <1>2, OneMoves, AnnounceFollowsWrite
<1>4. ASSUME NEW p \in published',
             p \notin published => \E w \in Worker : \/ Publish(w) /\ p = CompletionEvent(w)
                                                     \/ PublishFailure(w) /\ p = FailureEvent(w)
      PROVE  \E r \in results' : EventOf(r) = [type |-> p.type, event |-> p.event, claim |-> p.claim]
  <2>1. CASE p \in published
    BY <1>1, <2>1 DEF AnnounceInv, AnnouncedWasSaved, EventOf
  <2>2. ASSUME NEW w \in Worker, Publish(w), p = CompletionEvent(w)
        PROVE  \E r \in results' : EventOf(r) = [type |-> p.type, event |-> p.event, claim |-> p.claim]
    <3>1. PICK r \in results : r.event = job[w] /\ r.claim = claim[w] /\ r.status = "COMPLETED"
      BY <2>2 DEF AnnounceInv, Announces, Saved, Publish, At
    <3> QED
      BY <1>1, <2>2, <3>1 DEF EventOf, CompletionEvent
  <2>3. ASSUME NEW w \in Worker, PublishFailure(w), p = FailureEvent(w)
        PROVE  \E r \in results' : EventOf(r) = [type |-> p.type, event |-> p.event, claim |-> p.claim]
    <3>1. PICK r \in results : r.event = job[w] /\ r.claim = claim[w] /\ r.status = "FAILED"
      BY <2>3 DEF AnnounceInv, Announces, Saved, PublishFailure, At
    <3> QED
      BY <1>1, <2>3, <3>1 DEF EventOf, FailureEvent
  <2> QED
    BY <1>4, <2>1, <2>2, <2>3
<1>5. ASSUME NEW p \in published', p \notin published
      PROVE  \E w \in Worker : \/ Publish(w) /\ p = CompletionEvent(w)
                               \/ PublishFailure(w) /\ p = FailureEvent(w)
  <2>1. ASSUME NEW w \in Worker, HandleStep(w), ~Publish(w), ~PublishFailure(w)
        PROVE  UNCHANGED published
    BY <2>1 DEF HandleStep, ReadExisting, Claim, ClaimLost, ClaimRefused, Reread, Download, Copy,
                CommitTransaction, TransactionCancelled, Replay, Save, Cleanup, PersistFailure,
                FailureNotPersisted, Ack, Requeue, Reject, BatchItemFailure, store
  <2>2. ASSUME NEW w \in Worker, Crash(w) \/ \E e \in Event : Receive(w, e)
        PROVE  UNCHANGED published
    BY <2>2 DEF Crash, Receive, store
  <2>3. ASSUME NEW e \in Event, QueueStep(e) \/ Duplicate(e) PROVE UNCHANGED published
    BY <2>3 DEF QueueStep, VisibilityTimeout, Redrive, Duplicate, store
  <2>4. LeaseExpires \/ UNCHANGED vars => UNCHANGED published
    BY DEF LeaseExpires, vars
  <2>5. PICK w \in Worker : Publish(w) \/ PublishFailure(w)
    BY <1>5, <2>1, <2>2, <2>3, <2>4 DEF Next
  <2> QED
    BY <1>5, <2>5 DEF Publish, PublishFailure
<1> QED
  BY <1>3, <1>4, <1>5 DEF AnnounceInv, AnnouncedWasSaved, EventOf

\* What direct mode announces is a result of the very claim that announces it: a
\* worker that lost its lease, or whose save failed, announces nothing.
THEOREM NothingUnsavedAnnounced == Spec => []AnnouncedWasSaved
<1>1. Init => AnnounceInv
  BY DEF Init, AnnounceInv, AnnouncedWasSaved, Announces
<1>2. AnnounceInv => AnnouncedWasSaved
  BY DEF AnnounceInv
<1>3. ResultInv => TypeInv
  BY DEF ResultInv, LeaseInv
<1> QED
  BY <1>1, <1>2, <1>3, NextAnnounced, ResultInvariance, PTL DEF Spec

-----------------------------------------------------------------------------
(* What the row keeps of an earlier failure.                                *)

\* A claimed row has neither a result nor an error: a fenced write, which keeps
\* what it does not set, finds none to keep.
ErrorInv ==
  /\ row.token # 0 => row.status = "PROCESSING"
  /\ ErrorOnlyWhenFailed

LEMMA NextError == ResultInv /\ ErrorInv /\ [Next]_vars => ErrorInv'
<1> SUFFICES ASSUME ResultInv, ErrorInv, [Next]_vars PROVE ErrorInv'
  OBVIOUS
<1>a. TypeInv /\ ClaimedWork /\ OutboxReleased
  BY DEF ResultInv, LeaseInv
<1>1. ASSUME NEW w \in Worker, pc[w] \in Working, Fenced(w)
      PROVE  row.status = "PROCESSING" /\ row.error = FALSE
  BY <1>1, <1>a DEF ClaimedWork, Fenced, ErrorInv, ErrorOnlyWhenFailed, TypeInv, TypeOK, Row
<1>2. ASSUME NEW e \in Event, row' = ClaimedRow(e) PROVE ErrorInv'
  BY <1>2, <1>a DEF ClaimedRow, ErrorInv, ErrorOnlyWhenFailed, TypeInv, TypeOK, Row
<1>3. ASSUME NEW w \in Worker, pc[w] \in Working, Fenced(w), row' = CompletedRow(w)
      PROVE  ErrorInv'
  <2>1. row'.token = 0 /\ row'.error = row.error
    BY <1>3, <1>a DEF CompletedRow, Released, TypeInv, TypeOK, Row
  <2> QED
    BY <1>1, <1>3, <2>1 DEF ErrorInv, ErrorOnlyWhenFailed
<1>4. ASSUME NEW w \in Worker, row' = FailedRow(w) PROVE ErrorInv'
  BY <1>4, <1>a DEF FailedRow, Released, ErrorInv, ErrorOnlyWhenFailed, TypeInv, TypeOK, Row
<1>5. ASSUME NEW w \in Worker, Claim(w) \/ ClaimLost(w) PROVE ErrorInv'
  BY <1>2, <1>5, <1>a DEF Claim, ClaimLost, At, TypeInv, BusyHasJob
<1>6. ASSUME NEW w \in Worker, CommitTransaction(w) PROVE ErrorInv'
  BY <1>3, <1>6 DEF CommitTransaction, At, Working, Write
<1>7. ASSUME NEW w \in Worker, Save(w), row' # row PROVE ErrorInv'
  BY <1>3, <1>7 DEF Save, At, Working, Write
<1>8. ASSUME NEW w \in Worker, PersistFailure(w) PROVE ErrorInv'
  BY <1>4, <1>8 DEF PersistFailure, Write
<1>9. ASSUME NEW w \in Worker, Replay(w), row' # row PROVE ErrorInv'
  BY <1>3, <1>9 DEF Replay, At, Working
<1>10. CASE LeaseExpires
  BY <1>10, <1>a DEF LeaseExpires, ErrorInv, ErrorOnlyWhenFailed, TypeInv, TypeOK, Row
<1>11. CASE UNCHANGED row
  BY <1>11 DEF ErrorInv, ErrorOnlyWhenFailed
<1>12. ASSUME NEW w \in Worker, HandleStep(w), ~Claim(w), ~ClaimLost(w), ~CommitTransaction(w),
             ~Save(w), ~PersistFailure(w), ~Replay(w)
      PROVE  UNCHANGED row
  BY <1>12 DEF HandleStep, ReadExisting, ClaimRefused, Reread, Download, Copy,
               TransactionCancelled, Publish, Cleanup, FailureNotPersisted, PublishFailure,
               Ack, Requeue, Reject, BatchItemFailure, store
<1>13. ASSUME NEW w \in Worker, Crash(w) \/ \E e \in Event : Receive(w, e) PROVE UNCHANGED row
  BY <1>13 DEF Crash, Receive, store
<1>14. ASSUME NEW e \in Event, QueueStep(e) \/ Duplicate(e) PROVE UNCHANGED row
  BY <1>14 DEF QueueStep, VisibilityTimeout, Redrive, Duplicate, store
<1> QED
  BY <1>5, <1>6, <1>7, <1>8, <1>9, <1>10, <1>11, <1>12, <1>13, <1>14 DEF Next, vars

\* No completed row carries the error of an earlier attempt, although a write sets
\* attributes and removes none: the claim has removed it, and the fence sees to it
\* that the row is still as the claim left it.
THEOREM NoStaleError == Spec => []ErrorOnlyWhenFailed
<1>1. Init => ErrorInv
  BY DEF Init, ErrorInv, ErrorOnlyWhenFailed
<1>2. ErrorInv => ErrorOnlyWhenFailed
  BY DEF ErrorInv
<1> QED
  BY <1>1, <1>2, NextError, ResultInvariance, PTL DEF Spec

-----------------------------------------------------------------------------
(* Which messages are given up.                                             *)

\* A claim, a result under a claim, a failure under a claim, or the time.
LEMMA RowMoves ==
  ASSUME LeaseInv, [Next]_vars
  PROVE  \/ UNCHANGED <<row, results>>
         \/ row.token # 0 /\ row' = [row EXCEPT !.expired = TRUE] /\ UNCHANGED results
         \/ \E w \in Worker : /\ pc[w] = "claim" /\ Claimable(job[w])
                              /\ row' = ClaimedRow(job[w]) /\ UNCHANGED results
         \/ \E w \in Worker : /\ pc[w] = "commit" /\ Fenced(w)
                              /\ Write(w, "COMPLETED", CompletedRow(w))
         \/ \E w \in Worker : /\ pc[w] = "fail" /\ Fenced(w)
                              /\ Write(w, "FAILED", FailedRow(w))
<1>1. ASSUME NEW w \in Worker, Replay(w) PROVE UNCHANGED <<row, results>>
  <2>1. ASSUME CompletionEvent(w) \in outbox PROVE ~Fenced(w)
    BY <2>1 DEF LeaseInv, OutboxReleased, Fenced, CompletionEvent
  <2> QED BY <1>1, <2>1 DEF Replay
<1>2. ASSUME NEW w \in Worker, HandleStep(w), ~Claim(w), ~ClaimLost(w), ~CommitTransaction(w),
             ~Save(w), ~PersistFailure(w), ~Replay(w)
      PROVE  UNCHANGED <<row, results>>
  BY <1>2 DEF HandleStep, ReadExisting, ClaimRefused, Reread, Download, Copy,
              TransactionCancelled, Publish, Cleanup, FailureNotPersisted, PublishFailure,
              Ack, Requeue, Reject, BatchItemFailure, store
<1>3. ASSUME NEW w \in Worker, Crash(w) \/ \E e \in Event : Receive(w, e)
      PROVE  UNCHANGED <<row, results>>
  BY <1>3 DEF Crash, Receive, store
<1>4. ASSUME NEW e \in Event, QueueStep(e) \/ Duplicate(e) PROVE UNCHANGED <<row, results>>
  BY <1>4 DEF QueueStep, VisibilityTimeout, Redrive, Duplicate, store
<1>5. UNCHANGED vars => UNCHANGED <<row, results>>
  BY DEF vars
<1>6. ASSUME NEW w \in Worker, Claim(w) \/ ClaimLost(w)
      PROVE  /\ pc[w] = "claim" /\ Claimable(job[w])
             /\ row' = ClaimedRow(job[w]) /\ UNCHANGED results
  BY <1>6 DEF Claim, ClaimLost, At
<1>7. ASSUME NEW w \in Worker, CommitTransaction(w) \/ Save(w)
      PROVE  \/ UNCHANGED <<row, results>>
             \/ pc[w] = "commit" /\ Fenced(w) /\ Write(w, "COMPLETED", CompletedRow(w))
  BY <1>7 DEF CommitTransaction, Save, At
<1>8. ASSUME NEW w \in Worker, PersistFailure(w)
      PROVE  pc[w] = "fail" /\ Fenced(w) /\ Write(w, "FAILED", FailedRow(w))
  BY <1>8 DEF PersistFailure, At
<1>9. LeaseExpires =>
        row.token # 0 /\ row' = [row EXCEPT !.expired = TRUE] /\ UNCHANGED results
  BY DEF LeaseExpires
<1> QED
  BY <1>1, <1>2, <1>3, <1>4, <1>5, <1>6, <1>7, <1>8, <1>9 DEF Next

\* The moves of one worker leave the others alone.
LEMMA OthersStay ==
  ASSUME TypeInv, NEW w \in Worker, HandleStep(w) \/ Crash(w) \/ \E e \in Event : Receive(w, e),
         NEW v \in Worker, v # w
  PROVE  pc'[v] = pc[v] /\ job'[v] = job[v] /\ retryable'[v] = retryable[v]
<1>1. \E l : Goto(w, l)
  BY DEF HandleStep, Crash, Receive, ReadExisting, Claim, ClaimLost, ClaimRefused, Reread,
         Download, Copy, CommitTransaction, TransactionCancelled, Replay, Save, Publish, Cleanup,
         PersistFailure, FailureNotPersisted, PublishFailure, Ack, Requeue, Reject,
         BatchItemFailure, Finish, FailWith
<1>2. job' = job \/ \E x : job' = [job EXCEPT ![w] = x]
  BY DEF HandleStep, Crash, Receive, ReadExisting, Claim, ClaimLost, ClaimRefused, Reread,
         Download, Copy, CommitTransaction, TransactionCancelled, Replay, Save, Publish, Cleanup,
         PersistFailure, FailureNotPersisted, PublishFailure, Ack, Requeue, Reject,
         BatchItemFailure, Finish, local
<1>3. retryable' = retryable \/ \E x : retryable' = [retryable EXCEPT ![w] = x]
  BY DEF HandleStep, Crash, Receive, ReadExisting, Claim, ClaimLost, ClaimRefused, Reread,
         Download, Copy, CommitTransaction, TransactionCancelled, Replay, Save, Publish, Cleanup,
         PersistFailure, FailureNotPersisted, PublishFailure, Ack, Requeue, Reject,
         BatchItemFailure, Finish, FailWith, local
<1> QED BY <1>1, <1>2, <1>3 DEF Goto, TypeInv, TypeOK

\* The event has been completed, or rejected for good.
Settled(e) == \E r \in results : r.event = e /\ r.final

\* What a worker that gives up its message knows of the event.
GivesUp(w) ==
  /\ pc[w] \in {"fail", "failpublish"} /\ ~retryable[w] => input[job[w]].check # "ok"
  /\ pc[w] = "reject" => input[job[w]].check # "ok" \/ Settled(job[w])

GivenUpInv ==
  /\ row.last \in Event => Settled(row.last)
  /\ \A w \in Worker : GivesUp(w)

LEMMA GivesUpForGood ==
  ASSUME Grows, NEW v \in Worker, GivesUp(v), pc'[v] = pc[v], job'[v] = job[v],
         retryable'[v] = retryable[v]
  PROVE  GivesUp(v)'
BY DEF Grows, GivesUp, Settled

\* A write that is final settles its event.
LEMMA FinalWriteSettles ==
  ASSUME NEW w \in Worker, NEW status, NEW newRow, Write(w, status, newRow),
         status = "COMPLETED" \/ ~retryable[w], newRow.last = job[w]
  PROVE  Settled(row.last)'
<1> DEFINE r == [event |-> job[w], claim |-> claim[w], status |-> status, final |-> TRUE]
<1>1. (status = "COMPLETED" \/ ~retryable[w]) = TRUE
  OBVIOUS
<1>2. r \in results'
  BY <1>1, Zenon DEF Write
<1>3. r.event = row'.last /\ r.final
  BY DEF Write
<1> HIDE DEF r
<1> QED BY <1>2, <1>3 DEF Settled

\* The duplicate checks find in the row only events that were settled.
LEMMA NextLastSettled ==
  ASSUME LeaseInv, GivenUpInv, [Next]_vars
  PROVE  row'.last \in Event => Settled(row.last)'
<1>a. TypeInv /\ Grows /\ row \in Row
  BY NextGrows DEF LeaseInv, TypeInv, TypeOK
<1>b. row'.last = row.last /\ row'.last \in Event => Settled(row.last)'
  BY <1>a DEF GivenUpInv, Settled, Grows
<1>1. row' = [row EXCEPT !.expired = TRUE] => row'.last = row.last
  BY <1>a DEF Row
<1>2. ASSUME NEW w \in Worker, row' = ClaimedRow(job[w]) PROVE row'.last = row.last
  BY <1>2, <1>a DEF ClaimedRow, Row
<1>3. ASSUME NEW w \in Worker, Write(w, "COMPLETED", CompletedRow(w))
      PROVE  Settled(row.last)'
  <2>1. CompletedRow(w).last = job[w]
    BY <1>a DEF CompletedRow, Released, Row
  <2> QED BY <1>3, <2>1, FinalWriteSettles
<1>4. ASSUME NEW w \in Worker, Write(w, "FAILED", FailedRow(w)), ~retryable[w]
      PROVE  Settled(row.last)'
  <2>1. FailedRow(w).last = job[w]
    BY <1>4, <1>a DEF FailedRow, Released, Row
  <2> QED BY <1>4, <2>1, FinalWriteSettles
<1>5. ASSUME NEW w \in Worker, Write(w, "FAILED", FailedRow(w)), retryable[w]
      PROVE  row'.last = row.last
  BY <1>5, <1>a DEF Write, FailedRow, Released, Row
<1> QED BY <1>b, <1>1, <1>2, <1>3, <1>4, <1>5, RowMoves

LEMMA HandleGivesUp ==
  ASSUME TypeInv, GivenUpInv, [Next]_vars, NEW w \in Worker, HandleStep(w)
  PROVE  GivesUp(w)'
<1>a. TypeOK /\ Grows /\ GivesUp(w) /\ (pc[w] # "idle" => job[w] \in Event)
  BY NextGrows DEF TypeInv, BusyHasJob, GivenUpInv
<1>b. input' = input /\ \A e : Settled(e) => Settled(e)'
  BY <1>a DEF Grows, Settled
<1>1. ASSUME NEW label \in Label \ {"fail", "failpublish", "reject"}, Goto(w, label)
      PROVE  GivesUp(w)'
  <2>1. pc'[w] = label
    BY <1>1, <1>a DEF Goto, TypeOK
  <2> QED BY <2>1 DEF GivesUp
<1>2. ASSUME FailWith(w, TRUE) PROVE GivesUp(w)'
  <2>1. pc'[w] = "fail" /\ retryable'[w]
    BY <1>2, <1>a DEF FailWith, Goto, TypeOK
  <2> QED BY <2>1 DEF GivesUp
<1>3. CASE ReadExisting(w) \/ Reread(w)
  <2>1. job' = job /\ pc[w] # "idle"
    BY <1>3 DEF ReadExisting, Reread, At, local
  <2>2. CASE Seen(job[w]) /\ Goto(w, "reject")
    <3>1. Settled(job[w])' /\ pc'[w] = "reject"
      BY <1>a, <1>b, <2>1, <2>2 DEF Seen, GivenUpInv, Goto, TypeOK
    <3> QED BY <2>1, <3>1 DEF GivesUp, Settled
  <2> QED BY <1>1, <1>3, <2>2 DEF ReadExisting, Reread, Label
<1>4. CASE Download(w)
  <2>1. CASE FailWith(w, FALSE) /\ (~Trusted(job[w]) \/ ~Matches(job[w]))
    <3>1. pc'[w] = "fail" /\ job' = job /\ input[job[w]].check # "ok"
      BY <1>4, <1>a, <2>1 DEF Download, FailWith, Goto, Trusted, Matches, TypeOK
    <3> QED BY <1>b, <3>1 DEF GivesUp
  <2>2. CASE Goto(w, AfterAnalysis)
    BY <1>1, <2>2 DEF AfterAnalysis, Label
  <2> QED BY <1>2, <1>4, <2>1, <2>2 DEF Download
<1>5. CASE PersistFailure(w) \/ FailureNotPersisted(w) \/ PublishFailure(w)
  <2>1. pc[w] \in {"fail", "failpublish"} /\ job' = job /\ retryable' = retryable
    BY <1>5 DEF PersistFailure, FailureNotPersisted, PublishFailure, At, local
  <2>2. CASE retryable[w]
    <3>1. pc'[w] \in {"failpublish", "requeue"}
      BY <1>5, <1>a, <2>2 DEF PersistFailure, FailureNotPersisted, PublishFailure, AfterFailure,
                              Goto, TypeOK
    <3> QED BY <2>1, <2>2, <3>1 DEF GivesUp
  <2>3. CASE ~retryable[w]
    BY <1>a, <1>b, <2>1, <2>3 DEF GivesUp
  <2> QED BY <2>2, <2>3
<1>6. CASE Claim(w) \/ ClaimLost(w) \/ ClaimRefused(w)
  BY <1>1, <1>6 DEF Claim, ClaimLost, ClaimRefused, FirstStep, Label
<1>7. CASE Copy(w) \/ CommitTransaction(w) \/ TransactionCancelled(w) \/ Replay(w) \/ Save(w)
           \/ Publish(w) \/ Cleanup(w)
  <2>1. \/ FailWith(w, TRUE)
        \/ \E label \in {"commit", "replay", "publish", "cleanup", "ack"} : Goto(w, label)
    BY <1>7 DEF Copy, CommitTransaction, TransactionCancelled, Replay, Save, Publish, Cleanup,
                AfterCommit
  <2> QED BY <1>1, <1>2, <2>1 DEF Label
<1>8. CASE Ack(w) \/ Requeue(w) \/ Reject(w) \/ BatchItemFailure(w)
  BY <1>1, <1>8 DEF Ack, Requeue, Reject, BatchItemFailure, Finish, Label
<1> QED
  BY <1>3, <1>4, <1>5, <1>6, <1>7, <1>8 DEF HandleStep

LEMMA NextGivenUp == LeaseInv /\ GivenUpInv /\ [Next]_vars => GivenUpInv'
<1> SUFFICES ASSUME LeaseInv, GivenUpInv, [Next]_vars PROVE GivenUpInv'
  OBVIOUS
<1>a. TypeInv /\ Grows /\ \A w \in Worker : GivesUp(w)
  BY NextGrows DEF LeaseInv, GivenUpInv
<1>1. ASSUME NEW w \in Worker, Crash(w) \/ \E e \in Event : Receive(w, e) PROVE GivesUp(w)'
  <2>1. pc'[w] \in {"idle", "read"}
    BY <1>1, <1>a DEF Crash, Receive, Finish, Goto, TypeInv, TypeOK
  <2> QED BY <2>1 DEF GivesUp
<1>2. ASSUME NEW w \in Worker, HandleStep(w) \/ Crash(w) \/ \E e \in Event : Receive(w, e)
      PROVE  \A v \in Worker : GivesUp(v)'
  BY <1>1, <1>2, <1>a, HandleGivesUp, OthersStay, GivesUpForGood
<1>3. ASSUME NEW e \in Event, QueueStep(e) \/ Duplicate(e)
      PROVE  UNCHANGED <<pc, job, retryable>>
  BY <1>3 DEF QueueStep, VisibilityTimeout, Redrive, Duplicate, local
<1>4. LeaseExpires \/ UNCHANGED vars => UNCHANGED <<pc, job, retryable>>
  BY DEF LeaseExpires, vars, local
<1>5. \A v \in Worker : GivesUp(v)'
  BY <1>2, <1>3, <1>4, <1>a, GivesUpForGood DEF Next
<1> QED
  BY <1>5, NextLastSettled DEF GivenUpInv

\* Whatever fails, whoever crashes and however many events name the file, a message
\* is rejected only when its event fails validation or has been settled before:
\* work that could still be done is never given up.
THEOREM OnlySettledOrInvalidGivenUp ==
  Spec => [](\A w \in Worker : pc[w] = "reject" => input[job[w]].check # "ok" \/ Settled(job[w]))
<1>1. Init => GivenUpInv
  BY ConfigAssumption DEF ConfigAssumption, Init, GivenUpInv, GivesUp
<1>2. Spec => []GivenUpInv
  BY <1>1, NextGivenUp, LeaseInvariance, PTL DEF Spec
<1>3. GivenUpInv => \A w \in Worker :
                      pc[w] = "reject" => input[job[w]].check # "ok" \/ Settled(job[w])
  BY DEF GivenUpInv, GivesUp
<1> QED BY <1>2, <1>3, PTL

-----------------------------------------------------------------------------
(* Where the object is.                                                     *)

\* Only an unsafe file is ever deleted from its source, and only a copy that was
\* made is named.
ObjectInv ==
  /\ ~s3.source => ~s3.safe
  /\ row.location = "quarantine" => s3.quarantine
  /\ \A w \in Worker : pc[w] = "cleanup" => ~s3.safe

LEMMA InitObject == Init => ObjectInv
<1> SUFFICES ASSUME Init PROVE ObjectInv
  OBVIOUS
<1>1. s3.source = TRUE /\ row.location = "source"
  BY DEF Init
<1>2. \A w \in Worker : pc[w] = "idle"
  BY DEF Init
<1> QED BY <1>1, <1>2 DEF ObjectInv

\* A worker comes to delete the source from the write of a quarantined file alone.
LEMMA CleanupFollowsCommit ==
  ASSUME TypeInv, [Next]_vars, NEW w \in Worker, pc[w] # "cleanup", pc'[w] = "cleanup"
  PROVE  AfterCommit(w) = "cleanup"
<1>a. TypeOK
  BY DEF TypeInv
<1>1. ASSUME HandleStep(w) PROVE AfterCommit(w) = "cleanup"
  BY <1>1, <1>a DEF HandleStep, ReadExisting, Claim, ClaimLost, ClaimRefused, Reread, Download,
              Copy, CommitTransaction, TransactionCancelled, Replay, Save, Publish, Cleanup,
              PersistFailure, FailureNotPersisted, PublishFailure, Ack, Requeue, Reject,
              BatchItemFailure, Finish, FailWith, FirstStep, AfterAnalysis, AfterFailure, At,
              Goto, TypeOK
<1>2. ASSUME NEW v \in Worker, v # w,
             HandleStep(v) \/ Crash(v) \/ \E e \in Event : Receive(v, e)
      PROVE  FALSE
  <2>1. pc'[w] = pc[w]
    BY <1>2, OthersStay
  <2> QED BY <2>1
<1>3. ASSUME Crash(w) \/ \E e \in Event : Receive(w, e) PROVE FALSE
  BY <1>3, <1>a DEF Crash, Receive, Finish, Goto, TypeOK
<1>4. ASSUME NEW e \in Event, QueueStep(e) \/ Duplicate(e) PROVE FALSE
  BY <1>4 DEF QueueStep, VisibilityTimeout, Redrive, Duplicate
<1>5. ~LeaseExpires /\ ~UNCHANGED vars
  BY DEF LeaseExpires, vars
<1> QED BY <1>1, <1>2, <1>3, <1>4, <1>5 DEF Next

LEMMA SourceDeletion ==
  ASSUME TypeInv, [Next]_vars
  PROVE  s3'.source = s3.source \/ \E w \in Worker : Cleanup(w)
<1>1. ASSUME NEW w \in Worker, HandleStep(w), ~Cleanup(w) PROVE s3'.source = s3.source
  <2>1. UNCHANGED s3 \/ s3' = [s3 EXCEPT !.quarantine = TRUE]
    BY <1>1 DEF HandleStep, ReadExisting, Claim, ClaimLost, ClaimRefused, Reread, Download,
                Copy, CommitTransaction, TransactionCancelled, Replay, Save, Publish,
                PersistFailure, FailureNotPersisted, PublishFailure, Ack, Requeue, Reject,
                BatchItemFailure, store
  <2> QED BY <2>1 DEF TypeInv, TypeOK
<1>2. ASSUME NEW w \in Worker, Crash(w) \/ \E e \in Event : Receive(w, e) PROVE UNCHANGED s3
  BY <1>2 DEF Crash, Receive, store
<1>3. ASSUME NEW e \in Event, QueueStep(e) \/ Duplicate(e) PROVE UNCHANGED s3
  BY <1>3 DEF QueueStep, VisibilityTimeout, Redrive, Duplicate, store
<1>4. LeaseExpires \/ UNCHANGED vars => UNCHANGED s3
  BY DEF LeaseExpires, vars
<1> QED BY <1>1, <1>2, <1>3, <1>4 DEF Next

LEMMA NextObject == ResultInv /\ ObjectInv /\ [Next]_vars => ObjectInv'
<1> SUFFICES ASSUME ResultInv, ObjectInv, [Next]_vars PROVE ObjectInv'
  OBVIOUS
<1>a. LeaseInv /\ TypeInv /\ TypeOK /\ ObjectInv /\ Grows
  BY NextGrows DEF ResultInv, LeaseInv, TypeInv
<1>1. ~s3'.source => ~s3'.safe
  <2>1. ASSUME NEW w \in Worker, Cleanup(w) PROVE ~s3.safe
    BY <2>1 DEF Cleanup, At, ObjectInv
  <2> QED BY <1>a, <2>1, SourceDeletion DEF ObjectInv, Grows
<1>2. row'.location = "quarantine" => s3'.quarantine
  <2>1. CASE row'.location \in {row.location, "source"}
    BY <1>a, <2>1 DEF ObjectInv, Grows
  <2>2. ASSUME NEW w \in Worker, pc[w] = "commit", row' = CompletedRow(w),
               row'.location = "quarantine"
        PROVE  s3'.quarantine
    <3>1. input[job[w]].kind = "UPLOADED" /\ ~s3.safe
      BY <1>a, <2>2 DEF CompletedRow, Released, OutputLocation, TypeOK, Row
    <3> QED BY <1>a, <2>2, <3>1 DEF ResultInv, Knows, CopyMade, Grows
  <2>3. \/ row'.location \in {row.location, "source"}
        \/ \E w \in Worker : pc[w] = "commit" /\ row' = CompletedRow(w)
    <3>1. row' = [row EXCEPT !.expired = TRUE] => row'.location = row.location
      BY <1>a DEF TypeOK, Row
    <3>2. ASSUME NEW e, row' = ClaimedRow(e) PROVE row'.location = row.location
      BY <1>a, <3>2 DEF ClaimedRow, TypeOK, Row
    <3>3. ASSUME NEW w \in Worker, row' = FailedRow(w) PROVE row'.location = "source"
      BY <1>a, <3>3 DEF FailedRow, Released, TypeOK, Row
    <3> QED BY <1>a, <3>1, <3>2, <3>3, RowMoves DEF Write
  <2> QED BY <2>1, <2>2, <2>3
<1>3. ASSUME NEW w \in Worker, pc'[w] = "cleanup" PROVE ~s3'.safe
  <2>1. CASE pc[w] = "cleanup"
    BY <1>a, <2>1 DEF ObjectInv, Grows
  <2>2. CASE pc[w] # "cleanup"
    BY <1>a, <1>3, <2>2, CleanupFollowsCommit DEF AfterCommit, OutputLocation, Grows
  <2> QED BY <2>1, <2>2
<1> QED BY <1>1, <1>2, <1>3 DEF ObjectInv

\* However many events name the file, a row that names an object which is not there
\* is of one kind: it names the source of an unsafe file that is in quarantine.  A
\* safe file is never moved, and no row runs ahead of the copy.
THEOREM OnlyQuarantinedMisnamed ==
  Spec => [](CanonicalObjectExists \/ (row.location = "source" /\ ~s3.safe /\ s3.quarantine))
<1>1. Spec => []ObjectInv
  BY InitObject, NextObject, ResultInvariance, PTL DEF Spec
<1>2. ResultInv /\ ObjectInv =>
        CanonicalObjectExists \/ (row.location = "source" /\ ~s3.safe /\ s3.quarantine)
  BY DEF ResultInv, LeaseInv, TypeInv, TypeOK, Row, SourceKeptUntilQuarantined, ObjectInv,
         CanonicalObjectExists
<1> QED BY <1>1, <1>2, ResultInvariance, PTL
=============================================================================
