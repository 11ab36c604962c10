------------------------------- MODULE Worker -------------------------------
(***************************************************************************)
(* One process of the program from its start on: it starts up, takes a     *)
(* queue message or an outbox row, tells whether that is an event, handles *)
(* it by calls of the adapters, each retried, and answers.  What other     *)
(* workers do to the row, lease times and redelivery are in the modules    *)
(* FileProcessing, LeaseTiming and OutboxPublisher; here a message is one  *)
(* attempt.                                                                *)
(***************************************************************************)
EXTENDS Startup, RetriedCall, EventContract

CONSTANT Input         \* the events that messages carry

ASSUME InputAssumption == Input \subseteq Event

VARIABLES
  event,          \* the event in hand
  task,           \* "none", "start", the call it makes, or "route"
  outcome,        \* of the work on it
  rows,           \* history: the outbox rows written for it
  answer          \* "none", "acknowledged", "left" (for the DLQ) or "again"

workVars == <<event, task, outcome, rows, answer>>
vars     == <<startVars, callVars, workVars>>

\* "nameless": an exception whose text is empty, as that of MemoryError.
Failing == {"rejected", "failed", "nameless"}

WorkerInit ==
  /\ StartupInit
  /\ CallInit
  /\ event = NotAnEvent /\ task = "none" /\ outcome = "none"
  /\ rows = {} /\ answer = "none"

Serving == state = "serving"
Consumer == process \in {"container", "lambda"}
AtRest  == task = "none" /\ state = (IF process = "container" THEN "serving" ELSE "idle")

-----------------------------------------------------------------------------
(* Taking a message, and answering it.                                      *)

\* The Lambda's invocation ends, the container polls again.
AnswerAfter(o, a) ==
  /\ task' = "none" /\ outcome' = o /\ answer' = a
  /\ state' = IF process = "container" THEN "serving" ELSE "idle"
  /\ UNCHANGED <<given, stage, factory, ready, startFaults, event>>

Answer(a) == AnswerAfter(outcome, a)

\* A container leaves a message it cannot use in the queue for the redrive;
\* a Lambda reports every record that raised as a batch item failure.
Left == IF process = "container" THEN "left" ELSE "again"

EventIn(b) == IF process = "container" THEN ContainerEvent(b) ELSE LambdaEvent(b)

Begin(e, first) ==
  /\ event' = e /\ outcome' = "none" /\ rows' = {} /\ answer' = "none"
  /\ task' = IF ready THEN first ELSE "start"
  /\ state' = IF ready THEN "serving" ELSE "starting"
  /\ UNCHANGED <<given, stage, factory, ready, startFaults>>

Take(b) ==
  /\ AtRest /\ Consumer
  /\ IF Valid(EventIn(b))
     THEN /\ Begin(EventIn(b), "read")
          /\ IF ready THEN Call("read") ELSE UNCHANGED callVars
     ELSE AnswerAfter("none", Left) /\ rows' = {} /\ UNCHANGED callVars

\* lambda_handler of the publisher checks the names it needs before any record.
TakeRow(e) ==
  /\ AtRest /\ process = "publisher"
  /\ IF RuntimeValid(env, process) THEN Begin(e, "route") ELSE AnswerAfter("none", "again") /\ rows' = {}
  /\ UNCHANGED callVars

Started ==
  /\ task = "start" /\ Serving
  /\ IF Consumer THEN task' = "read" /\ Call("read")
                 ELSE task' = "route" /\ UNCHANGED callVars
  /\ UNCHANGED <<startVars, event, outcome, rows, answer>>

StartFailed ==
  /\ task = "start" /\ state = "idle"
  /\ Answer("again") /\ UNCHANGED <<rows, callVars>>

\* publish_to_sns, as far as it depends on what is configured.
Route ==
  /\ task = "route"
  /\ LET row    == OutboxRow(event)
         topics == {TopicsFor(row)[i] : i \in 1..2}
     IN IF Publishable(row) /\ topics \cap env.names # {}
        THEN Answer("acknowledged") ELSE Answer("again")
  /\ UNCHANGED <<rows, callVars>>

-----------------------------------------------------------------------------
(* FileProcessorService.handle: each step ends when its call has returned.  *)

Returned(t, r) == task = t /\ result = r

\* The claim is the one it had when the call before returned.
Make(t, k) ==
  /\ task' = t /\ Call(k)
  /\ k \in {"save", "transact"} => (holder' = "caller" <=> holder = "caller")
  /\ UNCHANGED <<startVars, event, answer>>

Actionable == event.type \in {"FILE_UPLOADED", "FILE_SCANNED"}
Scanned == event.type = "FILE_SCANNED"
WriteKind == IF OutboxMode(env) /\ ~Scanned THEN "transact" ELSE "save"

Completion == WithNewEventType(event, "ANALYSIS_COMPLETED", "none")
Failure    == WithNewEventType(event, "PROCESSING_FAILED", "claim")

\* A transaction writes the row of its event if it writes anything.
RowsWith(e) ==
  IF kind = "transact" /\ effects > 0 THEN rows \cup {OutboxRow(e)} ELSE rows

\* The row says the event was handled: with a result, or rejected.
Duplicate == Answer("acknowledged") \/ Answer(Left)

Read ==
  /\ Returned("read", "ok")
  /\ \/ Actionable /\ Duplicate /\ UNCHANGED callVars
     \/ Actionable /\ Make("claim", "claim") /\ UNCHANGED outcome
     \/ ~Actionable /\ Answer("acknowledged") /\ UNCHANGED callVars
  /\ UNCHANGED rows

ReadFails ==
  /\ Returned("read", "error") \/ Returned("reread", "error")
  /\ Answer("again") /\ UNCHANGED <<rows, callVars>>

ClaimFails ==
  /\ Returned("claim", "error")
  /\ Answer("again") /\ UNCHANGED <<rows, callVars>>

ClaimRefused ==
  /\ Returned("claim", "refused")
  /\ Make("reread", "read") /\ UNCHANGED <<rows, outcome>>

Reread ==
  /\ Returned("reread", "ok")
  /\ Duplicate \/ Answer("again")
  /\ UNCHANGED <<rows, callVars>>

\* What the caller sees of the work: a NonRetryableError, another exception.
Raise(o) == AnswerAfter(o, IF o = "rejected" THEN Left ELSE "again")

\* FailureDetails asks for a message.
FailureValid(o) == o # "nameless"

\* _handle_failure, with FailureDetails and from_file_event inside its try: what
\* they raise is logged.
HandleFailure(o) ==
  IF FailureValid(o) /\ Valid(Failure) /\ Failure.type \in OutboxTypes
  THEN /\ outcome' = o
       /\ Make("record", IF OutboxMode(env) THEN "transact" ELSE "save")
  ELSE Raise(o) /\ UNCHANGED callVars

Work ==
  /\ Returned("claim", "ok")
  /\ \/ /\ Scanned \/ (Valid(Completion) /\ Completion.type \in OutboxTypes)
        /\ outcome' = "completed" /\ Make("write", WriteKind)
     \/ \E o \in Failing : HandleFailure(o)
  /\ UNCHANGED rows

Written ==
  /\ Returned("write", "ok")
  /\ rows' = RowsWith(Completion)
  /\ IF kind = "save" /\ ~Scanned
     THEN Make("publish", "publish") /\ UNCHANGED outcome
     ELSE Answer("acknowledged") /\ UNCHANGED callVars

\* Fault: the error of a write that may have taken effect is swallowed.
WriteFailsSilently ==
  /\ task = "write" /\ result \in {"error", "refused"}
  /\ rows' = RowsWith(Completion)
  /\ Answer("acknowledged") /\ UNCHANGED callVars

WriteFails ==
  /\ task = "write" /\ result \in {"error", "refused"}
  /\ rows' = RowsWith(Completion)
  /\ HandleFailure("failed")

Published ==
  /\ Returned("publish", "ok")
  /\ Answer("acknowledged") /\ UNCHANGED <<rows, callVars>>

PublishFails ==
  /\ Returned("publish", "error")
  /\ HandleFailure("failed") /\ UNCHANGED rows

\* The diagnostics are written, or are not; in direct mode they are published.
Recorded ==
  /\ task = "record" /\ ~Pending
  /\ rows' = RowsWith(Failure)
  /\ IF kind = "save" /\ result = "ok"
     THEN Make("tell", "publish") /\ UNCHANGED outcome
     ELSE Raise(outcome) /\ UNCHANGED callVars

Told ==
  /\ task = "tell" /\ ~Pending
  /\ Raise(outcome) /\ UNCHANGED <<rows, callVars>>

Handle ==
  \/ Read \/ ReadFails \/ ClaimFails \/ ClaimRefused \/ Reread \/ Work
  \/ Written \/ WriteFails \/ Published \/ PublishFails \/ Recorded \/ Told

-----------------------------------------------------------------------------
StartUp  == StartupStep /\ UNCHANGED <<callVars, workVars>>
StartUpFails == RemoteCheckFails /\ UNCHANGED <<callVars, workVars>>
Replace  == task = "none" /\ Restart /\ UNCHANGED <<callVars, workVars>>
CallStep == Send /\ UNCHANGED <<startVars, workVars>>
Others   == (ClaimExpires \/ OtherClaims \/ OtherReleases) /\ UNCHANGED <<startVars, workVars>>

WorkerNext ==
  \/ StartUp \/ StartUpFails \/ Replace
  \/ \E b \in BodiesOf(Input) : Take(b)
  \/ \E e \in Input : TakeRow(e)
  \/ Started \/ StartFailed \/ Route
  \/ Handle \/ CallStep \/ Others

\* The process runs; an orchestrator starts an exited container again.
WorkerSpec ==
  /\ WorkerInit /\ [][WorkerNext]_vars
  /\ WF_vars(StartUp) /\ WF_vars(state = "exited" /\ Replace)
  /\ WF_vars(Started \/ StartFailed \/ Route \/ Handle) /\ WF_vars(CallStep)

-----------------------------------------------------------------------------
Task == {"none", "start", "route", "read", "claim", "reread", "write", "publish",
         "record", "tell"}

WorkerTypeOK ==
  /\ StartupTypeOK /\ CallTypeOK
  /\ event \in Event
  /\ task \in Task
  /\ outcome \in {"none", "completed"} \cup Failing
  /\ \A r \in rows : r.payload \in Event
  /\ answer \in {"none", "acknowledged", "left", "again"}

\* Where FIPS mode is required no client exists and no call is made before OpenSSL
\* has been found in it: the three start-up sequences keep that order.
NoCallBeforeFips ==
  (factory.made \/ Pending) /\ ShouldRequireFips(env) => FipsEnabled(host)

\* The container and the Lambda take the same event, or none, from a body,
\* though they tell an SNS envelope by different keys.
ConsumersAgree ==
  \A b \in BodiesOf(Input \cup {event}) :
    LET c == ContainerEvent(b)  l == LambdaEvent(b)
    IN (Valid(c) <=> Valid(l)) /\ (Valid(c) => c = l)

\* Every row an attempt writes passes the publisher's checks, both consumers take
\* it back from the SNS body, and neither processes it again.
RowsPublishable ==
  \A r \in rows :
    /\ Publishable(r)
    /\ \A b \in BodiesOf({r.payload}) \ {Confirmation, NotJson} :
         Valid(ContainerEvent(b)) /\ Valid(LambdaEvent(b))
    /\ r.payload.type \notin {"FILE_UPLOADED", "FILE_SCANNED"}

\* An attempt that is acknowledged after its work has written the result, through
\* lost answers and retries of the write.
AcknowledgedIsRecorded ==
  answer = "acknowledged" /\ outcome = "completed" =>
    /\ result = "ok" /\ effects > 0
    /\ OutboxMode(env) /\ ~Scanned => OutboxRow(Completion) \in rows

\* An attempt never leaves both a result and a failure in the outbox, not even
\* when the answer to the result's transaction is lost.
OneVerdict == ~ {OutboxRow(Completion), OutboxRow(Failure)} \subseteq rows

\* An attempt that fails and gets through to the table leaves its diagnostics
\* there; only one whose exception has no text leaves none.
DiagnosticsWritten ==
  answer \in {"left", "again"} /\ outcome \in {"rejected", "failed"} /\ OutboxMode(env)
    /\ result = "ok" => OutboxRow(Failure) \in rows

\* The clients of AWS use FIPS endpoints when they are told to.
RealClientsUseFips ==
  factory.made /\ ~Endpoint(env) /\ ShouldUseFips(env) => factory.fips

\* Each message is answered: retries end, and a start-up that fails is an answer.
MessageAnswered == task # "none" ~> task = "none"

\* What the deployment documents ask of each process.
Configured ==
  /\ BaselineValid(env) /\ ~FactoryRaises(env)
  /\ ShouldRequireFips(env) => FipsEnabled(host)
  /\ CASE process = "container" -> {"CORE", "SQS_QUEUE_URL"} \subseteq env.names
       [] process = "lambda"    -> Has(env, "CORE")
       [] OTHER                 -> env.names \cap Topics # {}
  /\ Has(env, "OUTBOX_TABLE_NAME")

\* A configured process that starts comes to serve, whatever failed on the way.
ConfiguredServes == state = "starting" /\ Configured ~> Serving
=============================================================================
