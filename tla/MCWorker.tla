------------------------------ MODULE MCWorker ------------------------------
EXTENDS Worker

AllNames == ResourceName

Deployed ==
  [environment |-> "deployed", isLambda |-> FALSE, region |-> "us-west-2", endpoint |-> "none",
   useFips |-> TRUE, fipsRequired |-> "unset", names |-> AllNames]
LocalStack == [Deployed EXCEPT !.environment = "local", !.endpoint = "url"]

\* What each part of the checks is about, and what passes them all.
Environments ==
  { Deployed,
    [Deployed EXCEPT !.endpoint = "empty"],
    [Deployed EXCEPT !.endpoint = "url"],
    [Deployed EXCEPT !.names = AllNames \ {"OUTBOX_TABLE_NAME"}],
    [Deployed EXCEPT !.names = {"CORE", "OUTBOX_TABLE_NAME"}],
    [Deployed EXCEPT !.names = {"OUTBOX_TABLE_NAME", "FILE_EVENTS_TOPIC_ARN"}],
    LocalStack,
    [LocalStack EXCEPT !.names = {"CORE", "SQS_QUEUE_URL", "SNS_TOPIC_ARN"}],
    [LocalStack EXCEPT !.fipsRequired = "true"],
    [LocalStack EXCEPT !.endpoint = "none", !.region = "other"] }

Approved == [libcrypto |-> TRUE, configured |-> TRUE, libFips |-> TRUE,
             binding |-> "none", bindingFips |-> FALSE]

Hosts ==
  { Approved,
    [Approved EXCEPT !.configured = FALSE, !.binding = "EVP", !.bindingFips = TRUE],
    [Approved EXCEPT !.libcrypto = FALSE, !.binding = "FIPS_mode", !.bindingFips = TRUE],
    [Approved EXCEPT !.libcrypto = FALSE] }

InputOf(t, s) ==
  [type |-> t, source |-> s, result |-> FALSE, failure |-> FALSE, fields |-> TRUE,
   id |-> [of |-> "input", type |-> t, discriminator |-> "none"]]

Inputs ==
  { InputOf("FILE_UPLOADED", "fsamp-gateway"),
    InputOf("FILE_SCANNED", "fsamp-processor"),
    InputOf("FILE_UPLOADED", "fsamp-processor"),
    WithNewEventType(InputOf("FILE_UPLOADED", "fsamp-gateway"), "ANALYSIS_COMPLETED", "none") }
=============================================================================
