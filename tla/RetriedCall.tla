---------------------------- MODULE RetriedCall ----------------------------
(***************************************************************************)
(* One call of an outbound adapter under both retries: botocore sends a    *)
(* request again, and the decorator aws_retry makes the whole attempt      *)
(* again, while other workers claim and release the row it is about.       *)
(* Answers get lost: a request that failed in transit may have been        *)
(* executed.                                                               *)
(***************************************************************************)
EXTENDS Naturals

CONSTANTS
  Attempts,       \* aws_retry(attempts=3)
  Sends           \* max_attempts of botocore

ASSUME CallAssumption == Attempts \in Nat \ {0} /\ Sends \in Nat \ {0}

\* get_by_id and the like, claim_processing, save, _transact_write, publish.
Kind == {"read", "claim", "save", "transact", "publish"}

\* Who holds the row: nobody, another worker, or the caller, by a claim it made
\* before or by the token of an attempt of this call.
Holder == {"free", "other", "caller"}

VARIABLES
  kind,           \* the call under way
  attempt,        \* of aws_retry
  send,           \* of botocore within the attempt
  holder,         \* whose claim token the row has; each attempt to claim draws one
  expired,        \* the claim in the row has run out
  effects,        \* history: how often this call took effect
  result          \* what the caller sees

callVars == <<kind, attempt, send, holder, expired, effects, result>>

CallInit ==
  /\ kind = "none"
  /\ attempt = 1
  /\ send = 1
  /\ holder = "free"
  /\ expired = FALSE
  /\ effects = 0
  /\ result = "ok"

\* A claim is asked for when the row is free or not; a result is written by a
\* worker that claimed the row and may have lost it.
Call(k) ==
  /\ result # "pending"
  /\ kind' = k
  /\ attempt' = 1
  /\ send' = 1
  /\ holder' \in CASE k = "claim" -> {"free", "other"}
                   [] k \in {"save", "transact"} -> {"caller", "other"}
                   [] OTHER -> {"free"}
  /\ expired' = FALSE
  /\ effects' = 0
  /\ result' = "pending"

Pending == result = "pending"

-----------------------------------------------------------------------------
(* The service.                                                             *)

\* Fault: results are written without the fence.
Unfenced == kind # "claim" \/ holder = "free" \/ expired

\* The condition of the request.
Condition ==
  CASE kind = "claim" -> holder = "free" \/ expired
    [] kind \in {"save", "transact"} -> holder = "caller"
    [] OTHER -> TRUE

\* A transaction that was executed answers its ClientRequestToken again.
Replayed == kind = "transact" /\ effects > 0

\* A claim writes its token; a result releases the row.
Execute ==
  /\ Condition
  /\ effects' = IF kind = "read" THEN 0 ELSE effects + 1
  /\ holder' = CASE kind = "claim" -> "caller"
                 [] kind \in {"save", "transact"} -> "free"
                 [] OTHER -> holder
  /\ expired' = (expired /\ kind \in {"read", "publish"})

NotExecuted == UNCHANGED <<holder, expired, effects>>

-----------------------------------------------------------------------------
(* The client.                                                              *)

Return(r) == result' = r /\ UNCHANGED <<attempt, send>>

\* Fault: the first request is not counted.
ResendOnceMore ==
  /\ send <= Sends
  /\ send' = send + 1
  /\ UNCHANGED <<attempt, result>>

\* botocore sends the same request again.
Resend ==
  /\ send < Sends
  /\ send' = send + 1
  /\ UNCHANGED <<attempt, result>>

\* Fault: the decorator never gives up.
AlwaysAgain ==
  /\ attempt' = IF attempt < Attempts THEN attempt + 1 ELSE attempt
  /\ send' = 1
  /\ UNCHANGED result

\* is_retryable_aws_error: the adapter raises and the decorator calls it again.
TryAgain ==
  /\ attempt < Attempts
  /\ attempt' = attempt + 1
  /\ send' = 1
  /\ UNCHANGED result

\* The last attempt's error is raised: reraise=True.
GiveUp == attempt = Attempts /\ Return("error")

\* A timeout, a throttled request, a server error.
Transient == Resend \/ TryAgain \/ GiveUp

SendExecuted ==
  /\ Pending /\ ~Replayed
  /\ Execute
  /\ Return("ok") \/ Transient
  /\ UNCHANGED kind

SendReplayed ==
  /\ Pending /\ Replayed
  /\ NotExecuted
  /\ Return("ok") \/ Transient
  /\ UNCHANGED kind

\* Fault: a condition that fails after a lost answer is taken for success.
RefusalIgnored ==
  /\ Pending /\ ~Replayed /\ ~Condition
  /\ NotExecuted
  /\ Return("ok") \/ Transient
  /\ UNCHANGED kind

\* ConditionalCheckFailedException and TransactionCanceledException are not
\* transient: claim_processing returns None, the writers raise StorageError.
SendRefused ==
  /\ Pending /\ ~Replayed /\ ~Condition
  /\ NotExecuted
  /\ Return("refused") \/ Transient
  /\ UNCHANGED kind

\* The request is not executed; its error is final or not.
SendFails ==
  /\ Pending
  /\ NotExecuted
  /\ Return("error") \/ Transient
  /\ UNCHANGED kind

Send == SendExecuted \/ SendReplayed \/ SendRefused \/ SendFails

-----------------------------------------------------------------------------
(* Meanwhile.                                                               *)

Meanwhile(h, e) ==
  /\ Pending
  /\ holder' = h /\ expired' = e
  /\ UNCHANGED <<kind, attempt, send, effects, result>>

ClaimExpires  == holder # "free" /\ ~expired /\ Meanwhile(holder, TRUE)
OtherClaims   == (holder = "free" \/ expired) /\ Meanwhile("other", FALSE)
OtherReleases == holder = "other" /\ Meanwhile("free", FALSE)

CallNext ==
  \/ \E k \in Kind : Call(k)
  \/ Send
  \/ ClaimExpires \/ OtherClaims \/ OtherReleases

CallSpec == CallInit /\ [][CallNext]_callVars

-----------------------------------------------------------------------------
CallTypeOK ==
  /\ kind \in Kind \cup {"none"}
  /\ attempt \in 1..Attempts
  /\ send \in 1..Sends
  /\ holder \in Holder
  /\ expired \in BOOLEAN
  /\ effects \in Nat
  /\ result \in {"pending", "ok", "refused", "error"}

\* A result whose write was retried, and perhaps executed before its answer was
\* lost, is in the table once; the call returns only if it is.
ResultWrittenOnce ==
  kind \in {"save", "transact"} =>
    effects <= 1 /\ (result = "ok" => effects = 1)

\* The retries of the adapters keep what their callers count on.
Remote == INSTANCE RemoteCall
CallIsRemoteCall == Remote!Spec
=============================================================================
