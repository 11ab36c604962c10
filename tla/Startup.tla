------------------------------ MODULE Startup ------------------------------
(***************************************************************************)
(* How a process of the program comes to serve: the settings it reads from *)
(* the environment, the checks it makes and the clients it creates.        *)
(* A container makes them all before it polls; a Lambda makes them while   *)
(* it serves its first record, again after a failure, and never once they  *)
(* have passed.                                                            *)
(***************************************************************************)
EXTENDS Naturals, Sequences

CONSTANTS
  Environment,    \* the environments to start in
  Host,           \* the hosts to start on
  MaxFaults       \* bound: start-up calls to AWS that fail

\* An environment: environment is "local" or "deployed", endpoint is "none",
\* "empty" or "url", fipsRequired "unset", "true" or "false", and names the
\* resources it names: "CORE" stands for S3_BUCKET_NAME, DYNAMODB_TABLE_NAME
\* and KMS_KEY_ID.
ResourceName == {"CORE", "SQS_QUEUE_URL", "OUTBOX_TABLE_NAME", "SNS_TOPIC_ARN",
                 "FILE_EVENTS_TOPIC_ARN", "PROCESSING_EVENTS_TOPIC_ARN"}

AnyEnvironment ==
  [environment : {"local", "deployed"}, isLambda : BOOLEAN,
   region : {"us-west-2", "other"}, endpoint : {"none", "empty", "url"},
   useFips : BOOLEAN, fipsRequired : {"unset", "true", "false"},
   names : SUBSET ResourceName]

\* A host: whether libcrypto is found with the functions needed, whether it loads
\* its configuration, and what it and the cryptography binding report.
AnyHost ==
  [libcrypto : BOOLEAN, configured : BOOLEAN, libFips : BOOLEAN,
   binding : {"EVP", "FIPS_mode", "none"}, bindingFips : BOOLEAN]

ASSUME StartupAssumption ==
  /\ Environment \subseteq AnyEnvironment
  /\ Host \subseteq AnyHost
  /\ MaxFaults \in Nat

ProcessKind == {"container", "lambda", "publisher"}

VARIABLES
  process,        \* its kind
  env,
  host,
  stage,          \* the number of the start-up step it is to make
  state,          \* "idle", "starting", "serving" or "exited"
  factory,        \* the AWS client factory it has
  ready,          \* the consumer, _file_processor or the publisher's clients exist
  startFaults

given     == <<process, env, host>>
startVars == <<given, stage, state, factory, ready, startFaults>>

-----------------------------------------------------------------------------
(* Settings.                                                                *)

Has(e, name)    == name \in e.names
Local(e)        == e.environment = "local"
Endpoint(e)     == e.endpoint = "url"       \* as Settings sees it: "" is no endpoint
Baseline(e)     == e.region = "us-west-2"
OutboxMode(e)   == Has(e, "OUTBOX_TABLE_NAME")

\* Fault: only the variable IS_LAMBDA counts.
IsLambdaByFlag(e, p) == e.isLambda

\* detect_lambda_runtime: AWS sets the function name in every Lambda.
IsLambda(e, p) == e.isLambda \/ p # "container"

\* validate_deployment_baseline
BaselineValid(e) ==
  ~Local(e) => ~Endpoint(e) /\ Baseline(e) /\ e.useFips /\ e.fipsRequired # "false"

ProcessorNames(e, p) ==
  {"CORE"}
  \cup (IF IsLambda(e, p) THEN {} ELSE {"SQS_QUEUE_URL"})
  \cup (CASE ~Local(e)                    -> {"OUTBOX_TABLE_NAME"}
          [] Local(e) /\ ~OutboxMode(e)   -> {"SNS_TOPIC_ARN"}
          [] OTHER                        -> {})

Topics == {"SNS_TOPIC_ARN", "FILE_EVENTS_TOPIC_ARN", "PROCESSING_EVENTS_TOPIC_ARN"}

\* validate_processor_runtime, validate_outbox_runtime
RuntimeValid(e, p) ==
  IF p = "publisher" THEN OutboxMode(e) /\ e.names \cap Topics # {}
                     ELSE ProcessorNames(e, p) \subseteq e.names

ShouldRequireFips(e) ==
  CASE e.fipsRequired = "unset" -> ~Local(e) /\ ~Endpoint(e)
    [] OTHER                    -> e.fipsRequired = "true"

ShouldUseFips(e) == ~Local(e) /\ ~Endpoint(e) /\ e.useFips

\* is_fips_enabled: what libcrypto says, and the binding where it says nothing.
FipsEnabled(h) ==
  CASE h.libcrypto                        -> h.configured /\ h.libFips
    [] ~h.libcrypto /\ h.binding # "none" -> h.bindingFips
    [] OTHER                              -> FALSE

-----------------------------------------------------------------------------
(* AWSClientFactory.                                                        *)

NoFactory == [local |-> FALSE, fips |-> FALSE, made |-> FALSE]

LocalFactory(e) == e.endpoint # "none"      \* endpoint_url is not None

\* The region is pinned unless an endpoint is given.
FactoryRaises(e) == ~LocalFactory(e) /\ ~Baseline(e)

FactoryFor(e) ==
  [local |-> LocalFactory(e), fips |-> ShouldUseFips(e) /\ ~LocalFactory(e), made |-> TRUE]

-----------------------------------------------------------------------------
(* The start-up steps of main and create_application, of get_file_processor *)
(* and of get_aws_factory, in their order.                                  *)

\* Fault: clients first, checks afterwards.
StepsClientsFirst(p) ==
  CASE p = "container" -> <<"settings", "factory", "fips", "runtime", "connect", "key">>
    [] OTHER           -> <<"settings", "runtime", "factory", "fips">>

Steps(p) ==
  CASE p = "container" -> <<"settings", "fips", "runtime", "factory", "connect", "key">>
    [] OTHER           -> <<"settings", "runtime", "fips", "factory">>

StartupInit ==
  /\ process \in ProcessKind
  /\ env \in Environment
  /\ host \in Host
  /\ stage = 1
  /\ state = IF process = "container" THEN "starting" ELSE "idle"
  /\ factory = NoFactory
  /\ ready = FALSE
  /\ startFaults = 0

At(step) == state = "starting" /\ Steps(process)[stage] = step

\* A step passed; after the last the process serves.
Passed ==
  IF stage < Len(Steps(process))
  THEN stage' = stage + 1 /\ UNCHANGED <<state, ready>>
  ELSE stage' = 1 /\ state' = "serving" /\ ready' = TRUE

\* main returns 1; in a Lambda the record fails, and the next one starts over.
Failed ==
  /\ state' = IF process = "container" THEN "exited" ELSE "idle"
  /\ stage' = 1
  /\ factory' = NoFactory
  /\ UNCHANGED ready

Check(step, holds) ==
  /\ At(step)
  /\ IF holds THEN Passed /\ UNCHANGED factory ELSE Failed
  /\ UNCHANGED <<given, startFaults>>

LoadSettings  == Check("settings", BaselineValid(env))
CheckRuntime  == Check("runtime", RuntimeValid(env, process))
EnforceFips   == Check("fips", ShouldRequireFips(env) => FipsEnabled(host))

MakeFactory ==
  /\ At("factory")
  /\ IF FactoryRaises(env) THEN Failed ELSE Passed /\ factory' = FactoryFor(env)
  /\ UNCHANGED <<given, startFaults>>

\* verify_connectivity and verify_key_access.
RemoteCheck == \E step \in {"connect", "key"} : Check(step, TRUE)

RemoteCheckFails ==
  /\ At("connect") \/ At("key")
  /\ startFaults < MaxFaults
  /\ startFaults' = startFaults + 1
  /\ Failed
  /\ UNCHANGED given

\* A container that exited is started again; one that serves is replaced, and so
\* is a Lambda environment between two invocations.
Restart ==
  /\ \/ state = "exited" /\ UNCHANGED startFaults
     \/ /\ state \in {"idle", "serving"}
        /\ startFaults < MaxFaults
        /\ startFaults' = startFaults + 1
  /\ state' = IF process = "container" THEN "starting" ELSE "idle"
  /\ stage' = 1
  /\ factory' = NoFactory
  /\ ready' = FALSE
  /\ UNCHANGED given

StartupStep == LoadSettings \/ CheckRuntime \/ EnforceFips \/ MakeFactory \/ RemoteCheck

-----------------------------------------------------------------------------
StartupTypeOK ==
  /\ process \in ProcessKind
  /\ env \in Environment
  /\ host \in Host
  /\ stage \in 1..Len(Steps(process))
  /\ state \in {"idle", "starting", "serving", "exited"}
  /\ factory \in [local : BOOLEAN, fips : BOOLEAN, made : BOOLEAN]
  /\ ready \in BOOLEAN
  /\ startFaults \in 0..MaxFaults
=============================================================================
