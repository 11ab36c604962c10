--------------------------- MODULE EventContract ---------------------------
(***************************************************************************)
(* The canonical event on its way: out of a queue message, through the     *)
(* processor into an outbox row, out of the row into an SNS body, and from *)
(* there into the queue of the next consumer.  Of an event the fields that *)
(* tell its variants apart are kept; fields says whether the others pass   *)
(* their own validators.                                                   *)
(***************************************************************************)
EXTENDS Naturals

EventType   == {"FILE_UPLOADED", "FILE_SCANNED", "ANALYSIS_COMPLETED", "PROCESSING_FAILED"}
EventSource == {"fsamp-gateway", "fsamp-processor"}

\* processing_result and failure: whether they are present.  An input event has
\* an id of its own, an output event one derived from it.
InputId  == [of : {"input"}, type : EventType, discriminator : {"none"}]
OutputId == [of : {"output"}, type : EventType, discriminator : {"none", "claim"}]

Event ==
  [type : EventType, source : EventSource, result : BOOLEAN, failure : BOOLEAN,
   fields : BOOLEAN, id : InputId \cup OutputId]

SourceOf(t) == IF t = "FILE_UPLOADED" THEN "fsamp-gateway" ELSE "fsamp-processor"

\* validate_event_variant, once the fields have passed.
Valid(e) ==
  /\ e.fields
  /\ e.source = SourceOf(e.type)
  /\ e.result <=> (e.type = "ANALYSIS_COMPLETED")
  /\ e.failure <=> (e.type = "PROCESSING_FAILED")

\* Fault: an output event keeps the source of its input.
WithNewEventTypeSameSource(e, t, disc) ==
  [e EXCEPT !.type = t,
            !.result = (t = "ANALYSIS_COMPLETED"), !.failure = (t = "PROCESSING_FAILED"),
            !.id = [of |-> "output", type |-> t, discriminator |-> disc]]

\* The id is a uuid5 of the input event's id, the type and the discriminator.
WithNewEventType(e, t, disc) ==
  [type |-> t, source |-> SourceOf(t), result |-> t = "ANALYSIS_COMPLETED",
   failure |-> t = "PROCESSING_FAILED", fields |-> e.fields,
   id |-> [of |-> "output", type |-> t, discriminator |-> disc]]

-----------------------------------------------------------------------------
(* Message bodies: the keys of the JSON object, its Type, and the event in  *)
(* it or in its Message.  What is not an event is one whose fields fail.    *)

NotAnEvent ==
  [type |-> "FILE_UPLOADED", source |-> "fsamp-gateway", result |-> FALSE, failure |-> FALSE,
   fields |-> FALSE, id |-> [of |-> "input", type |-> "FILE_UPLOADED", discriminator |-> "none"]]

EnvelopeKeys == {"Type", "TopicArn", "Message"}

\* An event sent to the queue itself; what SNS sends for a topic it is
\* subscribed to; its question whether to subscribe; something else.
Raw(e)          == [keys |-> {"eventType"}, kind |-> "none", event |-> e]
Notification(e) == [keys |-> EnvelopeKeys, kind |-> "Notification", event |-> e]
Confirmation    == [keys |-> EnvelopeKeys, kind |-> "SubscriptionConfirmation", event |-> NotAnEvent]
NotJson         == [keys |-> {}, kind |-> "none", event |-> NotAnEvent]

BodiesOf(E) ==
  {Raw(e) : e \in E} \cup {Notification(e) : e \in E} \cup {Confirmation, NotJson}

\* The body itself taken for an event: the schema forbids other keys.
Whole(b) == IF "eventType" \in b.keys THEN b.event ELSE NotAnEvent

\* SQSMessageWrapper.get_file_event
ContainerEvent(b) == IF b.kind = "Notification" THEN b.event ELSE Whole(b)

\* Fault: the envelope is recognised by a key SNS sends only for a subscription.
LambdaEventByToken(b) ==
  IF {"Message", "TopicArn", "SubscribeURL"} \subseteq b.keys THEN b.event ELSE Whole(b)

\* record_handler
LambdaEvent(b) == IF {"Message", "TopicArn"} \subseteq b.keys THEN b.event ELSE Whole(b)

-----------------------------------------------------------------------------
(* Outbox rows.                                                             *)

\* OutboxEvent.from_file_event refuses what no processor produces.
OutboxTypes == {"ANALYSIS_COMPLETED", "PROCESSING_FAILED", "FILE_SCANNED"}

\* Fault: the row draws an id of its own, as OutboxEvent.create does.
OutboxRowOwnId(e) ==
  [eventId |-> [of |-> "input", type |-> e.type, discriminator |-> "none"],
   eventType |-> e.type, aggregateType |-> "FileProcessing", payload |-> e]

OutboxRow(e) ==
  [eventId |-> e.id, eventType |-> e.type, aggregateType |-> "FileProcessing", payload |-> e]

\* to_sns_message raises otherwise, and the row is never published.
Publishable(r) ==
  Valid(r.payload) /\ r.payload.id = r.eventId /\ r.payload.type = r.eventType

\* get_topic_arn_for_event: the first of these that is configured.
TopicsFor(r) ==
  IF r.eventType = "FILE_UPLOADED" \/ r.aggregateType = "FileUpload"
  THEN <<"FILE_EVENTS_TOPIC_ARN", "SNS_TOPIC_ARN">>
  ELSE <<"PROCESSING_EVENTS_TOPIC_ARN", "SNS_TOPIC_ARN">>
=============================================================================
