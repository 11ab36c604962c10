--------------------- MODULE FileProcessingOneEventProofs ---------------------
(* What holds of a file the processor has one event to act on: its verdict is  *)
(* final.  With a second such event these fail, as the runs on two events show: *)
(* the row remembers only the event it processed last.                         *)
EXTENDS FileProcessingResultProofs

USE DEF given

Actionable(e) == input[e].kind # "OTHER"

\* The hypothesis; events of other types may be as many as they like.
OneEvent == \A e, f \in Event : Actionable(e) /\ Actionable(f) => e = f

\* Where a completed event leaves the file.
Place(e) == IF input[e].kind = "UPLOADED" /\ ~s3.safe THEN "quarantine" ELSE "source"

\* What the row says of a final result, as long as the file exists.
Verdict(r) ==
  /\ row.last = r.event /\ row.status = r.status /\ row.token = 0 /\ r.claim = row.version
  /\ r.status = "COMPLETED" => row.location = Place(r.event)

SettledInv ==
  /\ \A r \in results : /\ r.claim <= row.version
                        /\ r.status = "COMPLETED" => r.final
                        /\ r.final => Verdict(r)
  /\ row.last \in Event =>
       /\ row.token = 0 /\ Actionable(row.last)
       /\ row.status # "COMPLETED" => input[row.last].check # "ok"

\* What a worker's label says of its event; only an invalid one is given up.
Acts(w) ==
  /\ pc[w] \in Working \cup {"claim", "reread"} => Actionable(job[w])
  /\ pc[w] \in {"fail", "failpublish"} /\ ~retryable[w] => input[job[w]].check # "ok"
  /\ pc[w] = "reject" => input[job[w]].check # "ok"

OneEventInv ==
  /\ ResultInv /\ OneEvent
  /\ SettledInv /\ ObjectInv
  /\ \A w \in Worker : Acts(w)

-----------------------------------------------------------------------------
(* The verdict.                                                             *)

\* The verdict of the one event stands: no claim follows it, and no claim that came
\* before is left to write under.
LEMMA SettledForGood ==
  ASSUME OneEventInv, [Next]_vars, row.last \in Event
  PROVE  UNCHANGED <<row, results>>
<1>a. LeaseInv /\ TypeInv /\ ClaimedWork /\ row.token = 0 /\ Actionable(row.last)
  BY DEF OneEventInv, ResultInv, LeaseInv, SettledInv
<1>1. ASSUME NEW w \in Worker, pc[w] = "claim" PROVE ~Claimable(job[w])
  <2>1. job[w] \in Event /\ Actionable(job[w])
    BY <1>1, <1>a DEF OneEventInv, Acts, TypeInv, BusyHasJob
  <2> QED BY <1>a, <2>1 DEF OneEventInv, OneEvent, Claimable
<1>2. ASSUME NEW w \in Worker, pc[w] \in {"commit", "fail"} PROVE ~Fenced(w)
  BY <1>2, <1>a DEF ClaimedWork, Working, Fenced
<1> QED BY <1>1, <1>2, <1>a, RowMoves

\* Until there is a verdict no result is final.
LEMMA NothingFinal ==
  ASSUME OneEventInv, row.last \notin Event
  PROVE  \A r \in results : ~r.final /\ r.status # "COMPLETED"
<1>1. results \subseteq Result
  BY DEF OneEventInv, ResultInv, LeaseInv, TypeInv, TypeOK
<1>2. \A r \in results : r.event \in Event
  BY <1>1 DEF Result
<1> QED BY <1>2 DEF OneEventInv, SettledInv, Verdict

LEMMA NextSettled == OneEventInv /\ [Next]_vars => SettledInv'
<1> SUFFICES ASSUME OneEventInv, [Next]_vars PROVE SettledInv'
  OBVIOUS
<1>a. LeaseInv /\ TypeInv /\ TypeOK /\ ClaimedWork /\ SettledInv /\ Grows
  BY NextGrows DEF OneEventInv, ResultInv, LeaseInv, TypeInv
<1>b. \A e : Actionable(e)' = Actionable(e) /\ Place(e)' = Place(e)
  BY <1>a DEF Grows, Actionable, Place
<1>c. input' = input /\ row \in Row /\ \A r \in results : r.claim \in Nat /\ r.event \in Event
  BY <1>a DEF Grows, TypeOK, Result
<1>1. CASE UNCHANGED <<row, results>>
  BY <1>1, <1>a, <1>b DEF SettledInv, Verdict, Grows
<1>2. CASE row.last \in Event
  BY <1>1, <1>2, SettledForGood
<1>3. CASE row.last \notin Event /\ UNCHANGED results /\ row'.last = row.last
           /\ row'.version \in Nat /\ row'.version >= row.version
  <2>1. \A r \in results : r.claim <= row'.version
    BY <1>3, <1>a, <1>c DEF SettledInv, Row
  <2> QED BY <1>3, <2>1, NothingFinal DEF SettledInv
<1>4. CASE row.last \notin Event /\ row' = [row EXCEPT !.expired = TRUE] /\ UNCHANGED results
  <2>1. row'.last = row.last /\ row'.version = row.version /\ row.version \in Nat
    BY <1>4, <1>c DEF Row
  <2> QED BY <1>3, <1>4, <2>1
<1>5. ASSUME NEW w \in Worker, row.last \notin Event, pc[w] = "claim",
             row' = ClaimedRow(job[w]), UNCHANGED results
      PROVE  SettledInv'
  <2>1. row'.version = row.version + 1 /\ row.version \in Nat
    BY <1>5, <1>a, <1>c, ClaimedRowFields DEF TypeInv, BusyHasJob, Row
  <2>2. row'.last = row.last
    BY <1>5, <1>c DEF ClaimedRow, Row
  <2> QED BY <1>3, <1>5, <2>1, <2>2
\* A result under the newest claim.
<1>6. ASSUME NEW w \in Worker, row.last \notin Event, pc[w] \in {"commit", "fail"}, Fenced(w),
             NEW status \in {"COMPLETED", "FAILED"}, NEW newRow \in Row,
             Write(w, status, newRow), newRow.version = row.version, newRow.token = 0,
             newRow.status = status,
             newRow.last = IF status = "FAILED" /\ retryable[w] THEN row.last ELSE job[w],
             status = "COMPLETED" => newRow.location = Place(job[w]),
             status = "FAILED" /\ ~retryable[w] => input[job[w]].check # "ok"
      PROVE  SettledInv'
  <2> DEFINE final == (status = "COMPLETED" \/ ~retryable[w])
             new == [event |-> job[w], claim |-> claim[w], status |-> status, final |-> final]
  <2>1. row' = newRow /\ results' = results \cup {new}
    BY <1>6 DEF Write
  <2>2. job[w] \in Event /\ Actionable(job[w]) /\ claim[w] = row.version
    BY <1>6, <1>a DEF TypeInv, BusyHasJob, OneEventInv, Acts, Working, Fenced
  <2>3. row.version \in Nat /\ retryable[w] \in BOOLEAN
    BY <1>a, <1>c DEF TypeOK, Row
  <2>4. /\ new.event = job[w] /\ new.claim = claim[w] /\ new.status = status
        /\ new.final <=> (status = "COMPLETED" \/ ~retryable[w])
    OBVIOUS
  <2> HIDE DEF new, final
  <2>5. ASSUME NEW r \in results'
        PROVE  /\ r.claim <= row'.version
               /\ r.status = "COMPLETED" => r.final
               /\ r.final => Verdict(r)'
    <3>1. CASE r \in results
      BY <1>6, <1>a, <2>1, <3>1, NothingFinal DEF SettledInv
    <3>2. CASE r = new
      <4>1. r.claim = row'.version /\ r.status = row'.status /\ row'.token = 0
            /\ row'.version \in Nat
        BY <1>6, <2>1, <2>2, <2>3, <2>4, <3>2
      <4>2. r.final => row'.last = r.event
        BY <1>6, <2>1, <2>3, <2>4, <3>2
      <4>3. r.status = "COMPLETED" => row'.location = Place(r.event)' /\ r.final
        BY <1>6, <1>b, <2>1, <2>4, <3>2
      <4> QED BY <4>1, <4>2, <4>3 DEF Verdict
    <3> QED BY <2>1, <3>1, <3>2
  <2>6. row'.last \in Event =>
          /\ row'.token = 0 /\ Actionable(row'.last)
          /\ row'.status # "COMPLETED" => input[row'.last].check # "ok"
    BY <1>6, <2>1, <2>2
  <2> QED BY <1>b, <1>c, <2>5, <2>6 DEF SettledInv
<1>7. ASSUME NEW w \in Worker, row.last \notin Event, pc[w] = "commit", Fenced(w),
             Write(w, "COMPLETED", CompletedRow(w))
      PROVE  SettledInv'
  <2>1. job[w] \in Event
    BY <1>7, <1>a DEF TypeInv, BusyHasJob
  <2>2. CompletedRow(w).location = Place(job[w])
    BY <1>c DEF CompletedRow, Released, OutputLocation, Place, Row
  <2> QED BY <1>6, <1>7, <1>a, <2>1, <2>2, CompletedRowFields
<1>8. ASSUME NEW w \in Worker, row.last \notin Event, pc[w] = "fail", Fenced(w),
             Write(w, "FAILED", FailedRow(w))
      PROVE  SettledInv'
  <2>1. job[w] \in Event
    BY <1>8, <1>a DEF TypeInv, BusyHasJob
  <2>2. FailedRow(w).last = IF retryable[w] THEN row.last ELSE job[w]
    BY <1>c DEF FailedRow, Released, Row
  <2>3. ~retryable[w] => input[job[w]].check # "ok"
    BY <1>8 DEF OneEventInv, Acts
  <2> QED BY <1>6, <1>8, <1>a, <2>1, <2>2, <2>3, FailedRowFields
<1> QED
  BY <1>1, <1>2, <1>4, <1>5, <1>7, <1>8, <1>a, RowMoves

-----------------------------------------------------------------------------
(* The workers.                                                             *)

LEMMA ActsForGood ==
  ASSUME Grows, NEW v \in Worker, Acts(v), pc'[v] = pc[v], job'[v] = job[v],
         retryable'[v] = retryable[v]
  PROVE  Acts(v)'
BY DEF Grows, Acts, Actionable

\* A worker goes to a label that its event allows.
LEMMA ActsAt ==
  ASSUME TypeInv, Grows, NEW w \in Worker, NEW label, Goto(w, label), job'[w] = job[w],
         label \in Working \cup {"claim", "reread"} => Actionable(job[w]),
         label \in {"fail", "failpublish"} /\ ~retryable'[w] => input[job[w]].check # "ok",
         label = "reject" => input[job[w]].check # "ok"
  PROVE  Acts(w)'
<1>1. pc'[w] = label
  BY DEF Goto, TypeInv, TypeOK
<1> QED BY <1>1 DEF Grows, Acts, Actionable

LEMMA HandleActs ==
  ASSUME OneEventInv, [Next]_vars, NEW w \in Worker, HandleStep(w)
  PROVE  Acts(w)'
<1>a. TypeInv /\ TypeOK /\ Grows /\ Acts(w)
  BY NextGrows DEF OneEventInv, ResultInv, LeaseInv, TypeInv
<1>b. pc[w] # "idle" => job[w] \in Event
  BY <1>a DEF TypeInv, BusyHasJob
\* Labels that say nothing of the event.
<1>1. ASSUME NEW label \in {"idle", "read", "ack", "requeue"}, Goto(w, label) PROVE Acts(w)'
  <2>1. pc'[w] = label
    BY <1>1, <1>a DEF Goto, TypeOK
  <2> QED BY <2>1 DEF Acts, Working
\* Within the work; a failure that may be retried.
<1>2. ASSUME pc[w] \in Working \cup {"claim", "reread"}, job' = job,
             NEW label \in {"reread", "download", "copy", "commit", "replay", "publish"},
             Goto(w, label)
      PROVE  Acts(w)'
  BY <1>2, <1>a, ActsAt DEF Acts
<1>3. ASSUME pc[w] \in Working, job' = job, FailWith(w, TRUE) PROVE Acts(w)'
  <2>1. Goto(w, "fail") /\ retryable'[w]
    BY <1>3, <1>a DEF FailWith, TypeOK
  <2> QED BY <1>3, <1>a, <2>1, ActsAt DEF Acts
<1>4. ASSUME pc[w] \in Working, job' = job, Goto(w, AfterCommit(w)) PROVE Acts(w)'
  <2>1. CASE AfterCommit(w) = "ack"
    BY <1>1, <1>4, <2>1
  <2>2. CASE AfterCommit(w) = "cleanup"
    BY <1>4, <1>a, <2>2, ActsAt DEF Acts
  <2> QED BY <2>1, <2>2 DEF AfterCommit
\* The duplicate checks reject what the row says was given up.
<1>5. CASE ReadExisting(w) \/ Reread(w)
  <2>1. job' = job /\ pc[w] \in {"read", "reread"}
    BY <1>5 DEF ReadExisting, Reread, At, local
  <2>2. CASE Seen(job[w]) /\ ~Completed(job[w]) /\ Goto(w, "reject")
    <3>1. input[job[w]].check # "ok"
      BY <1>b, <2>1, <2>2 DEF Seen, Completed, OneEventInv, SettledInv
    <3> QED BY <1>a, <2>1, <2>2, <3>1, ActsAt DEF Working
  <2>3. CASE input[job[w]].kind # "OTHER" /\ Goto(w, "claim")
    BY <1>a, <2>1, <2>3, ActsAt DEF Actionable
  <2> QED BY <1>1, <1>5, <2>2, <2>3 DEF ReadExisting, Reread
<1>6. CASE Claim(w)
  BY <1>2, <1>6 DEF Claim, At, FirstStep
<1>7. CASE ClaimLost(w) \/ ClaimRefused(w)
  BY <1>1, <1>2, <1>7 DEF ClaimLost, ClaimRefused, At, local
<1>8. CASE Download(w)
  <2>1. pc[w] = "download" /\ pc[w] \in Working /\ job' = job
    BY <1>8 DEF Download, At, Working
  <2>2. CASE FailWith(w, FALSE) /\ (~Trusted(job[w]) \/ ~Matches(job[w]))
    <3>1. input[job[w]].check # "ok"
      BY <2>2 DEF Trusted, Matches
    <3> QED BY <1>a, <2>1, <2>2, <3>1, ActsAt DEF FailWith, Acts
  <2>3. CASE Goto(w, AfterAnalysis)
    BY <1>2, <2>1, <2>3 DEF AfterAnalysis
  <2> QED BY <1>3, <1>8, <2>1, <2>2, <2>3 DEF Download
<1>9. CASE Copy(w) \/ CommitTransaction(w) \/ TransactionCancelled(w) \/ Replay(w) \/ Save(w)
           \/ Publish(w) \/ Cleanup(w)
  <2>1. pc[w] \in Working /\ job' = job
    BY <1>9 DEF Copy, CommitTransaction, TransactionCancelled, Replay, Save, Publish, Cleanup, At,
                Working
  <2>2. \/ FailWith(w, TRUE) \/ Goto(w, AfterCommit(w))
        \/ \E label \in {"commit", "replay", "publish", "ack"} : Goto(w, label)
    BY <1>9 DEF Copy, CommitTransaction, TransactionCancelled, Replay, Save, Publish, Cleanup
  <2> QED BY <1>1, <1>2, <1>3, <1>4, <2>1, <2>2
<1>10. CASE PersistFailure(w) \/ FailureNotPersisted(w) \/ PublishFailure(w)
  <2>1. pc[w] \in {"fail", "failpublish"} /\ job' = job /\ retryable' = retryable
    BY <1>10 DEF PersistFailure, FailureNotPersisted, PublishFailure, At, local
  <2>2. CASE Goto(w, AfterFailure(w))
    <3>1. CASE retryable[w]
      BY <1>1, <2>2, <3>1 DEF AfterFailure
    <3>2. CASE ~retryable[w]
      BY <1>a, <2>1, <2>2, <3>2, ActsAt DEF AfterFailure, Acts, Working
    <3> QED BY <3>1, <3>2
  <2>3. CASE Goto(w, "failpublish")
    BY <1>a, <2>1, <2>3, ActsAt DEF Acts, Working
  <2> QED BY <1>10, <2>2, <2>3 DEF PersistFailure, FailureNotPersisted, PublishFailure
<1>11. CASE Ack(w) \/ Requeue(w) \/ Reject(w) \/ BatchItemFailure(w)
  BY <1>1, <1>11 DEF Ack, Requeue, Reject, BatchItemFailure, Finish
<1> QED
  BY <1>5, <1>6, <1>7, <1>8, <1>9, <1>10, <1>11 DEF HandleStep

LEMMA NextActs == OneEventInv /\ [Next]_vars => \A w \in Worker : Acts(w)'
<1> SUFFICES ASSUME OneEventInv, [Next]_vars PROVE \A w \in Worker : Acts(w)'
  OBVIOUS
<1>a. TypeInv /\ Grows /\ \A w \in Worker : Acts(w)
  BY NextGrows DEF OneEventInv, ResultInv, LeaseInv
<1>1. ASSUME NEW w \in Worker, Crash(w) \/ \E e \in Event : Receive(w, e) PROVE Acts(w)'
  <2>1. pc'[w] \in {"idle", "read"}
    BY <1>1, <1>a DEF Crash, Receive, Finish, Goto, TypeInv, TypeOK
  <2> QED BY <2>1 DEF Acts, Working
<1>2. ASSUME NEW w \in Worker, HandleStep(w) \/ Crash(w) \/ \E e \in Event : Receive(w, e)
      PROVE  \A v \in Worker : Acts(v)'
  BY <1>1, <1>2, <1>a, HandleActs, OthersStay, ActsForGood
<1>3. CASE UNCHANGED <<pc, job, retryable>>
  BY <1>3, <1>a, ActsForGood
<1>4. ASSUME NEW e \in Event, QueueStep(e) \/ Duplicate(e)
      PROVE  UNCHANGED <<pc, job, retryable>>
  BY <1>4 DEF QueueStep, VisibilityTimeout, Redrive, Duplicate, local
<1>5. LeaseExpires \/ UNCHANGED vars => UNCHANGED <<pc, job, retryable>>
  BY DEF LeaseExpires, vars, local
<1> QED BY <1>2, <1>3, <1>4, <1>5 DEF Next

-----------------------------------------------------------------------------
\* The invariant behind the finality of the one event's verdict.
THEOREM OneEventInvariance == Spec /\ OneEvent => []OneEventInv
<1>1. Init /\ OneEvent => OneEventInv
  <2> SUFFICES ASSUME Init, OneEvent PROVE OneEventInv
    OBVIOUS
  <2>1. SettledInv
    BY ConfigAssumption DEF ConfigAssumption, Init, SettledInv
  <2>2. ObjectInv
    BY InitObject
  <2>3. \A w \in Worker : Acts(w)
    BY DEF Init, Acts, Working
  <2> QED BY <2>1, <2>2, <2>3, InitResult DEF OneEventInv
<1>2. OneEventInv /\ [Next]_vars /\ ResultInv' => OneEventInv'
  <2> SUFFICES ASSUME OneEventInv, [Next]_vars, ResultInv' PROVE OneEventInv'
    OBVIOUS
  <2>1. OneEvent'
    BY NextGrows DEF OneEventInv, ResultInv, LeaseInv, Grows, OneEvent, Actionable
  <2> QED BY <2>1, NextSettled, NextObject, NextActs DEF OneEventInv
<1> QED BY <1>1, <1>2, ResultInvariance, PTL DEF Spec

\* No redelivery, retry, crash or late worker adds a result to the final one.
THEOREM SettledForever == Spec /\ OneEvent => []SettledOnce
<1>1. OneEventInv => SettledOnce
  BY DEF OneEventInv, SettledInv, Verdict, SettledOnce
<1> QED BY <1>1, OneEventInvariance, PTL

\* The row names an object that exists, through every crash between the copy, the
\* commit and the deletion of the source.
THEOREM CanonicalObjectKept == Spec /\ OneEvent => []CanonicalObjectExists
<1>1. OneEventInv => CanonicalObjectExists
  <2> SUFFICES ASSUME OneEventInv PROVE CanonicalObjectExists
    OBVIOUS
  <2>1. row.location \in {"source", "quarantine"} /\ results \subseteq Result
    BY DEF OneEventInv, ResultInv, LeaseInv, TypeInv, TypeOK, Row
  <2>2. ASSUME ~s3.source PROVE row.location = "quarantine"
    <3>1. PICK r \in results : r.status = "COMPLETED" /\ input[r.event].kind = "UPLOADED"
      BY <2>2 DEF OneEventInv, ResultInv, SourceKeptUntilQuarantined
    <3> QED BY <2>2, <3>1 DEF OneEventInv, ObjectInv, SettledInv, Verdict, Place
  <2> QED BY <2>1, <2>2 DEF OneEventInv, ObjectInv, CanonicalObjectExists
<1> QED BY <1>1, OneEventInvariance, PTL

\* Whatever AWS calls fail: a message is given up only if its event is invalid.
THEOREM ValidNeverRejected == Spec /\ OneEvent => []OnlyInvalidRejected
<1>1. OneEventInv => OnlyInvalidRejected
  BY DEF OneEventInv, Acts, OnlyInvalidRejected
<1> QED BY <1>1, OneEventInvariance, PTL

\* The duplicate check recognises every redelivery of the completed event.
THEOREM RedeliveryRecognised == Spec /\ OneEvent => CompletedRecognised
<1> DEFINE Recognised == \A w \in Worker :
             /\ pc[w] = "read"
             /\ \E r \in results : r.event = job[w] /\ r.status = "COMPLETED"
             => pc'[w] \notin {"claim", "reject"}
<1>1. OneEventInv /\ [Next]_vars => [Recognised]_vars
  <2> SUFFICES ASSUME OneEventInv, [Next]_vars, NEW w \in Worker, pc[w] = "read",
                      NEW r \in results, r.event = job[w], r.status = "COMPLETED"
               PROVE  pc'[w] \notin {"claim", "reject"}
    OBVIOUS
  <2>1. Completed(job[w]) /\ TypeInv
    BY DEF OneEventInv, ResultInv, LeaseInv, SettledInv, Verdict, Completed, Seen
  <2>2. ASSUME NEW v \in Worker,
               HandleStep(v) \/ Crash(v) \/ \E e \in Event : Receive(v, e), v # w
        PROVE  pc'[w] = pc[w]
    BY <2>1, <2>2, OthersStay
  <2>3. ASSUME HandleStep(w) \/ Crash(w) \/ \E e \in Event : Receive(w, e)
        PROVE  \E label \in {"ack", "requeue", "idle", "read"} : Goto(w, label)
    <3>1. CASE Crash(w) \/ \E e \in Event : Receive(w, e)
      BY <3>1 DEF Crash, Receive, Finish
    <3>2. CASE HandleStep(w)
      <4>1. ReadExisting(w)
        BY <3>2 DEF HandleStep, Claim, ClaimLost, ClaimRefused, Reread, Download, Copy,
                    CommitTransaction, TransactionCancelled, Replay, Save, Publish, Cleanup,
                    PersistFailure, FailureNotPersisted, PublishFailure, Ack, Requeue, Reject,
                    BatchItemFailure, At
      <4> QED BY <2>1, <4>1 DEF ReadExisting, Completed
    <3> QED BY <2>3, <3>1, <3>2
  <2>4. ASSUME NEW label \in {"ack", "requeue", "idle", "read"}, Goto(w, label)
        PROVE  pc'[w] = label
    BY <2>1, <2>4 DEF Goto, TypeInv, TypeOK
  <2>5. ASSUME NEW e \in Event, QueueStep(e) \/ Duplicate(e) PROVE UNCHANGED pc
    BY <2>5 DEF QueueStep, VisibilityTimeout, Redrive, Duplicate
  <2>6. LeaseExpires \/ UNCHANGED vars => UNCHANGED pc
    BY DEF LeaseExpires, vars
  <2> QED BY <2>2, <2>3, <2>4, <2>5, <2>6 DEF Next
<1> QED BY <1>1, OneEventInvariance, PTL DEF Spec, CompletedRecognised
=============================================================================
