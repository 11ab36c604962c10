----------------------- MODULE OutboxPublisherProofs -----------------------
(* Safety of the outbox publisher for any number of invocations and any     *)
(* retry limit.                                                             *)
EXTENDS OutboxPublisher, TLAPS

\* A lease is granted below the retry limit only, and carries a token.
LeaseBelowLimit == status = "PUBLISHING" => retryCount < MaxRetries /\ token # NoToken

\* A worker only ever holds the token it drew.
TokenIsOwn == \A w \in Worker : mine[w] \in {w, NoToken}

\* Nobody commits a publication before SNS has the event.
SentBeforeMark == \A w \in Worker : pc[w] = "mark" => sent

Inv ==
  /\ TypeOK
  /\ LeaseBelowLimit
  /\ TokenIsOwn
  /\ SentBeforeMark
  /\ PublishedWasSent
  /\ AckedWasPublished

-----------------------------------------------------------------------------
\* Nothing is published, acknowledged or leased at the start.
LEMMA InitInv == Init => Inv
<1> SUFFICES ASSUME Init PROVE Inv
  OBVIOUS
<1>1. TypeOK
  <2>1. retryCount \in 0..MaxRetries
    BY PublisherAssumption DEF PublisherAssumption, Init
  <2>2. pc \in [Worker -> {"idle", "claim", "claimread", "publish", "mark", "markread", "fail"}]
        /\ mine \in [Worker -> Worker \cup {NoToken}]
        /\ source \in [Worker -> {"stream", "retry"}]
    BY DEF Init
  <2> QED BY <2>1, <2>2 DEF Init, TypeOK
<1>2. LeaseBelowLimit /\ TokenIsOwn /\ SentBeforeMark
  BY DEF Init, LeaseBelowLimit, TokenIsOwn, SentBeforeMark
<1>3. PublishedWasSent /\ AckedWasPublished
  BY DEF Init, PublishedWasSent, AckedWasPublished
<1> QED BY <1>1, <1>2, <1>3 DEF Inv

\* Leaving an invocation keeps the types and the tokens, whatever its outcome.
LEMMA EndKeeps ==
  ASSUME TypeOK, TokenIsOwn, NEW w \in Worker, NEW outcome \in {"waiting", "acked"}, End(w, outcome)
  PROVE  /\ stream' \in {"waiting", "busy", "acked", "discarded"}
         /\ stream' \in {stream, outcome}
         /\ pc' \in [Worker -> {"idle", "claim", "claimread", "publish", "mark", "markread", "fail"}]
         /\ mine' \in [Worker -> Worker \cup {NoToken}]
         /\ \A v \in Worker : mine'[v] \in {v, NoToken}
         /\ \A v \in Worker : pc'[v] = "mark" => pc[v] = "mark"
BY DEF End, Goto, TypeOK, TokenIsOwn

\* Every step keeps the invariant.
LEMMA NextInv == Inv /\ [Next]_vars => Inv'
<1> SUFFICES ASSUME Inv, [Next]_vars PROVE Inv'
  OBVIOUS
<1> USE PublisherAssumption
        DEF PublisherAssumption, Inv, TypeOK, LeaseBelowLimit, TokenIsOwn, SentBeforeMark,
            PublishedWasSent, AckedWasPublished
<1>1. ASSUME NEW w \in Worker, StreamDelivers(w) PROVE Inv'
  BY <1>1 DEF StreamDelivers, Goto, row
<1>2. ASSUME NEW w \in Worker, RetryCycle(w) PROVE Inv'
  BY <1>2 DEF RetryCycle, Goto, row
<1>3. ASSUME NEW w \in Worker, Claim(w) PROVE Inv'
  BY <1>3 DEF Claim, TakeLease, Claimable, Goto
<1>4. ASSUME NEW w \in Worker, ClaimError(w) PROVE Inv'
  BY <1>4, EndKeeps DEF ClaimError, TakeLease, Claimable, Raise, row
<1>5. ASSUME NEW w \in Worker, ClaimRefused(w) PROVE Inv'
  BY <1>5 DEF ClaimRefused, Goto, row
<1>6. ASSUME NEW w \in Worker, ReadAfterClaim(w) PROVE Inv'
  BY <1>6, EndKeeps DEF ReadAfterClaim, Return, Raise, row
<1>7. ASSUME NEW w \in Worker, Publish(w) PROVE Inv'
  BY <1>7 DEF Publish, Goto, row
<1>8. ASSUME NEW w \in Worker, PublishError(w) PROVE Inv'
  BY <1>8 DEF PublishError, Goto, row
<1>9. ASSUME NEW w \in Worker, MarkPublished(w) PROVE Inv'
  BY <1>9, EndKeeps DEF MarkPublished, Owned, Release, Return
<1>10. ASSUME NEW w \in Worker, MarkError(w) PROVE Inv'
  BY <1>10 DEF MarkError, Owned, Release, Goto, row
<1>11. ASSUME NEW w \in Worker, MarkRefused(w) PROVE Inv'
  BY <1>11 DEF MarkRefused, Goto, row
<1>12. ASSUME NEW w \in Worker, ReadAfterMark(w) PROVE Inv'
  <2>1. CASE status = "PUBLISHED" /\ Return(w)
    BY <1>12, <2>1, EndKeeps DEF ReadAfterMark, Return, row
  <2>2. CASE Goto(w, "fail") /\ UNCHANGED <<stream, mine>>
    BY <1>12, <2>2 DEF ReadAfterMark, Goto, row
  <2> QED BY <1>12, <2>1, <2>2 DEF ReadAfterMark
<1>13. ASSUME NEW w \in Worker, MarkFailed(w) PROVE Inv'
  <2>1. End(w, "waiting")
    BY <1>13 DEF MarkFailed, Raise
  <2>2. status = "PUBLISHING" /\ status' = "FAILED" /\ token' = NoToken /\ expired' = FALSE
    BY <1>13 DEF MarkFailed, Owned, Release
  <2>3. retryCount' \in 0..MaxRetries
    BY <1>13, <2>2 DEF MarkFailed
  <2>4. sent' = sent /\ source' = source
    BY <1>13 DEF MarkFailed
  <2> QED BY <2>1, <2>2, <2>3, <2>4, EndKeeps
<1>14. ASSUME NEW w \in Worker, FailureNotMarked(w) PROVE Inv'
  BY <1>14, EndKeeps DEF FailureNotMarked, Raise, row
<1>15. ASSUME NEW w \in Worker, Crash(w) PROVE Inv'
  BY <1>15, EndKeeps DEF Crash, Raise, row
<1>16. CASE LeaseExpires
  BY <1>16 DEF LeaseExpires
<1>17. CASE StreamGivesUp
  BY <1>17 DEF StreamGivesUp, row
<1>18. CASE Retention
  BY <1>18 DEF Retention
<1>19. CASE UNCHANGED vars
  BY <1>19 DEF vars
<1> QED
  BY <1>1, <1>2, <1>3, <1>4, <1>5, <1>6, <1>7, <1>8, <1>9, <1>10, <1>11, <1>12, <1>13, <1>14,
     <1>15, <1>16, <1>17, <1>18, <1>19
     DEF Next, Step

-----------------------------------------------------------------------------
\* The inductive invariant of the publisher.
THEOREM Invariance == Spec => []Inv
BY InitInv, NextInv, PTL DEF Spec

\* The retry counter never passes its limit, for any number of racing invocations
\* (claim_event_for_publish tests it in the condition that takes the lease).
THEOREM TypeCorrect == Spec => []TypeOK
<1>1. Inv => TypeOK
  BY DEF Inv
<1> QED BY <1>1, Invariance, PTL

\* No row is PUBLISHED, and none removed by its ttl, unless SNS has the event.
THEOREM PublishedOnlyIfSent == Spec => []PublishedWasSent
<1>1. Inv => PublishedWasSent
  BY DEF Inv
<1> QED BY <1>1, Invariance, PTL

\* The stream record is acknowledged for published rows only.
THEOREM AckedOnlyIfPublished == Spec => []AckedWasPublished
<1>1. Inv => AckedWasPublished
  BY DEF Inv
<1> QED BY <1>1, Invariance, PTL

\* mark_event_failed by a worker that lost its lease never downgrades the row.
THEOREM NoDowngrade == Spec => NeverDowngraded
<1>1. Inv /\ [Next]_vars =>
        [(status \in {"PUBLISHED", "GONE"}) => (status' \in {status, "GONE"})]_vars
  BY DEF Next, Step, StreamDelivers, RetryCycle, Claim, ClaimError, ClaimRefused,
         ReadAfterClaim, Publish, PublishError, MarkPublished, MarkError, MarkRefused,
         ReadAfterMark, MarkFailed, FailureNotMarked, Crash, LeaseExpires, StreamGivesUp,
         Retention, TakeLease, Claimable, Owned, Release, row, vars
<1> QED BY <1>1, Invariance, PTL DEF Spec, NeverDowngraded

\* Only the worker whose token is in the row ends a live lease.
THEOREM OwnerCommits == Spec => OnlyOwnerCommits
<1> DEFINE A == status = "PUBLISHING" /\ status' # status =>
                  \E w \in Worker : token = w /\ mine[w] = w /\ pc[w] \in {"mark", "fail"}
<1>1. Inv /\ [Next]_vars => [A]_vars
  <2> SUFFICES ASSUME Inv, Next, status = "PUBLISHING", status' # status
               PROVE  \E w \in Worker : token = w /\ mine[w] = w /\ pc[w] \in {"mark", "fail"}
    BY DEF vars
  <2>1. ASSUME NEW w \in Worker, Owned(w) PROVE token = w /\ mine[w] = w
    BY <2>1 DEF Inv, TokenIsOwn, LeaseBelowLimit, Owned
  <2>2. PICK w \in Worker : MarkPublished(w) \/ MarkError(w) \/ MarkFailed(w)
    BY DEF Next, Step, StreamDelivers, RetryCycle, Claim, ClaimError, ClaimRefused,
           ReadAfterClaim, Publish, PublishError, MarkRefused, ReadAfterMark,
           FailureNotMarked, Crash, LeaseExpires, StreamGivesUp, Retention, TakeLease, row
  <2>3. Owned(w) /\ pc[w] \in {"mark", "fail"}
    BY <2>2 DEF MarkPublished, MarkError, MarkFailed, row
  <2> QED BY <2>1, <2>3
<1> QED BY <1>1, Invariance, PTL DEF Spec, OnlyOwnerCommits
=============================================================================
