---------------------------- MODULE WorkerProofs ----------------------------
(***************************************************************************)
(* Proofs about Worker, for any environments, hosts, inputs and numbers of *)
(* retries.  The calls it makes are those of RetriedCall, so that what is  *)
(* proved of one call holds of every call in a process; no start-up        *)
(* sequence lets a client or a call come before the FIPS check, or turns a *)
(* configured process away; both consumers read the same event; and the    *)
(* answer to a message tells what has been written for it.                 *)
(***************************************************************************)
EXTENDS Worker, TLAPS

-----------------------------------------------------------------------------
(* One call: a result is written at most once, and the retries implement    *)
(* RemoteCall.  A result that took effect has given the claim up, and no    *)
(* attempt of the same call ever gets it back: so the fence is enough.      *)

\* The inductive invariant: what a call in flight knows of the claim.
CallInv ==
  /\ CallTypeOK
  /\ result = "pending" => kind \in Kind
  /\ kind = "read" => effects = 0
  /\ kind \in {"save", "transact"} => effects <= 1
  /\ kind \in {"save", "transact"} /\ result = "ok" => effects = 1
  /\ kind \in {"save", "transact"} /\ effects > 0 => holder # "caller"

LEMMA CallInitInv == CallInit => CallInv
<1> SUFFICES ASSUME CallInit PROVE CallInv
  OBVIOUS
<1>1. expired \in BOOLEAN
  BY Zenon DEF CallInit
<1>2. 1 \in 1..Attempts /\ 1 \in 1..Sends
  BY CallAssumption DEF CallAssumption
<1> QED
  BY <1>1, <1>2 DEF CallInit, CallInv, CallTypeOK, Holder, Kind

LEMMA CallStarts ==
  ASSUME CallInv, NEW k \in Kind, Call(k)
  PROVE  CallInv'
<1>1. holder' \in Holder
  BY DEF Call, Holder, Kind
<1>a. expired' \in BOOLEAN
  BY Zenon DEF Call
<1>b. 1 \in 1..Attempts /\ 1 \in 1..Sends
  BY CallAssumption DEF CallAssumption
<1>2. CallTypeOK'
  BY <1>1, <1>a, <1>b DEF CallTypeOK, Call
<1>3. kind' = k /\ effects' = 0 /\ result' = "pending"
  BY DEF Call
<1> QED
  BY <1>2, <1>3 DEF CallInv

\* What every way to go on after a request has in common.
LEMMA ClientStep ==
  ASSUME CallTypeOK, NEW r \in {"ok", "refused", "error"}, Return(r) \/ Transient
  PROVE  /\ attempt' \in 1..Attempts
         /\ send' \in 1..Sends
         /\ result' \in {r, result, "error"}
<1>1. CASE Return(r)
  BY <1>1 DEF Return, CallTypeOK
<1>2. CASE Resend
  BY <1>2, CallAssumption DEF CallAssumption, Resend, CallTypeOK
<1>3. CASE TryAgain
  BY <1>3, CallAssumption DEF CallAssumption, TryAgain, CallTypeOK
<1>4. CASE GiveUp
  BY <1>4 DEF GiveUp, Return, CallTypeOK
<1> QED
  BY <1>1, <1>2, <1>3, <1>4 DEF Transient

\* A write that is executed was not executed before.
LEMMA ExecutedOnce ==
  ASSUME CallInv, Pending, Execute
  PROVE  /\ kind \in {"save", "transact"} => effects = 0 /\ holder' = "free"
         /\ effects' \in Nat
         /\ effects' = IF kind = "read" THEN 0 ELSE effects + 1
         /\ holder' \in Holder
         /\ expired' \in BOOLEAN
<1>1. kind \in {"save", "transact"} => holder = "caller"
  BY DEF Execute, Condition
<1>2. kind \in {"save", "transact"} => effects = 0
  BY <1>1 DEF CallInv, CallTypeOK
<1>3. holder' \in Holder /\ (kind \in {"save", "transact"} => holder' = "free")
  BY DEF Execute, CallInv, CallTypeOK, Holder
<1>4. expired' \in BOOLEAN
  BY DEF Execute
<1>5. effects' \in Nat /\ effects' = IF kind = "read" THEN 0 ELSE effects + 1
  BY DEF Execute, CallInv, CallTypeOK
<1> QED
  BY <1>2, <1>3, <1>4, <1>5

LEMMA SendInv ==
  ASSUME CallInv, Send
  PROVE  CallInv'
<1>0. Pending /\ kind \in Kind /\ kind' = kind
  BY DEF Send, SendExecuted, SendReplayed, SendRefused, SendFails, CallInv, Pending
<1>1. CASE SendExecuted
  <2>1. Execute /\ (Return("ok") \/ Transient)
    BY <1>1 DEF SendExecuted
  <2>2. attempt' \in 1..Attempts /\ send' \in 1..Sends
        /\ result' \in {"ok", result, "error"}
    BY <2>1, ClientStep DEF CallInv
  <2>3. CallTypeOK'
    BY <1>0, <2>1, <2>2, ExecutedOnce DEF CallInv, CallTypeOK
  <2> QED
    BY <1>0, <2>1, <2>2, <2>3, ExecutedOnce DEF CallInv, CallTypeOK, Pending
<1>2. CASE SendReplayed \/ SendRefused \/ SendFails
  <2>1. NotExecuted
    BY <1>2 DEF SendReplayed, SendRefused, SendFails
  <2>2. attempt' \in 1..Attempts /\ send' \in 1..Sends
        /\ result' \in {"ok", "refused", result, "error"}
    BY <1>2, ClientStep DEF SendReplayed, SendRefused, SendFails, CallInv
  <2>3. result' = "ok" => kind = "transact" /\ effects > 0
    BY <1>0, <1>2 DEF SendReplayed, SendRefused, SendFails, Replayed, Return, Transient,
                      Resend, TryAgain, GiveUp, Pending
  <2>4. CallTypeOK'
    BY <1>0, <2>1, <2>2 DEF CallInv, CallTypeOK, NotExecuted
  <2> QED
    BY <1>0, <2>1, <2>2, <2>3, <2>4 DEF CallInv, CallTypeOK, NotExecuted, Pending
<1> QED
  BY <1>1, <1>2 DEF Send

LEMMA MeanwhileInv ==
  ASSUME CallInv, ClaimExpires \/ OtherClaims \/ OtherReleases
  PROVE  CallInv'
<1>1. /\ holder' \in {"free", "other", holder}
      /\ expired' \in BOOLEAN
      /\ UNCHANGED <<kind, attempt, send, effects, result>>
  BY DEF ClaimExpires, OtherClaims, OtherReleases, Meanwhile
<1>2. CallTypeOK'
  BY <1>1 DEF CallInv, CallTypeOK, Holder
<1> QED
  BY <1>1, <1>2 DEF CallInv

LEMMA CallStepInv == CallInv /\ [CallNext]_callVars => CallInv'
<1> SUFFICES ASSUME CallInv, [CallNext]_callVars PROVE CallInv'
  OBVIOUS
<1>1. CASE \E k \in Kind : Call(k)
  BY <1>1, CallStarts
<1>2. CASE Send
  BY <1>2, SendInv
<1>3. CASE ClaimExpires \/ OtherClaims \/ OtherReleases
  BY <1>3, MeanwhileInv
<1>4. CASE UNCHANGED callVars
  BY <1>4 DEF CallInv, CallTypeOK, callVars
<1> QED
  BY <1>1, <1>2, <1>3, <1>4 DEF CallNext

THEOREM CallInvariant == CallSpec => []CallInv
BY CallInitInv, CallStepInv, PTL DEF CallSpec

\* However often a call is repeated, its counters stay within their limits.
THEOREM CallTypeCorrect == CallSpec => []CallTypeOK
<1>1. CallInv => CallTypeOK
  BY DEF CallInv
<1> QED
  BY <1>1, CallInvariant, PTL

\* A result whose write is repeated is written at most once, and once when the
\* write returns.
THEOREM ResultIsWrittenOnce == CallSpec => []ResultWrittenOnce
<1>1. CallInv => ResultWrittenOnce
  BY DEF CallInv, CallTypeOK, ResultWrittenOnce
<1> QED
  BY <1>1, CallInvariant, PTL

-----------------------------------------------------------------------------
LEMMA RemoteInit == CallInit => Remote!Init
BY DEF CallInit, Remote!Init

LEMMA SendIsRequest ==
  ASSUME CallInv, Send
  PROVE  Remote!Request
<1>0. Pending /\ kind \in Kind /\ kind' = kind /\ effects \in Nat
  BY DEF Send, SendExecuted, SendReplayed, SendRefused, SendFails, CallInv, CallTypeOK, Pending
<1>1. CASE SendExecuted
  <2>1. Execute /\ (Return("ok") \/ Transient)
    BY <1>1 DEF SendExecuted
  <2>2. result' \in {"ok", "pending", "error"}
    BY <1>0, <2>1, ClientStep DEF CallInv, Pending
  <2>3. kind = "read" => effects = 0
    BY DEF CallInv
  <2> QED
    BY <1>0, <2>1, <2>2, <2>3, ExecutedOnce
    DEF Remote!Request, Remote!Once, Remote!Changing, Remote!Conditional, Pending
<1>2. CASE SendReplayed \/ SendRefused \/ SendFails
  <2>1. effects' = effects
    BY <1>2 DEF SendReplayed, SendRefused, SendFails, NotExecuted
  <2>2. result' \in {"ok", "refused", "pending", "error"}
    BY <1>0, <1>2, ClientStep DEF SendReplayed, SendRefused, SendFails, CallInv, Pending
  <2>3. result' = "ok" => effects > 0
    BY <1>0, <1>2 DEF SendReplayed, SendRefused, SendFails, Replayed, Return, Transient,
                      Resend, TryAgain, GiveUp, Pending
  <2>4. result' = "refused" => kind \in {"claim", "save", "transact"}
    BY <1>0, <1>2 DEF SendReplayed, SendRefused, SendFails, Return, Transient, Resend,
                      TryAgain, GiveUp, Pending, Condition, Kind
  <2>5. (kind = "read" => effects = 0) /\ (kind \in {"save", "transact"} => effects <= 1)
    BY DEF CallInv
  <2> QED
    BY <1>0, <2>1, <2>2, <2>3, <2>4, <2>5
    DEF Remote!Request, Remote!Once, Remote!Changing, Remote!Conditional, Pending
<1> QED
  BY <1>1, <1>2 DEF Send

LEMMA RemoteStep == CallInv /\ [CallNext]_callVars => [Remote!Next]_(Remote!vars)
<1> SUFFICES ASSUME CallInv, [CallNext]_callVars
             PROVE  [Remote!Next]_(Remote!vars)
  OBVIOUS
<1>1. CASE \E k \in Kind : Call(k)
  BY <1>1 DEF Call, Remote!Next, Remote!Call
<1>2. CASE Send
  BY <1>2, SendIsRequest DEF Remote!Next
<1>3. CASE ClaimExpires \/ OtherClaims \/ OtherReleases
  BY <1>3 DEF ClaimExpires, OtherClaims, OtherReleases, Meanwhile, Remote!vars
<1>4. CASE UNCHANGED callVars
  BY <1>4 DEF callVars, Remote!vars
<1> QED
  BY <1>1, <1>2, <1>3, <1>4 DEF CallNext

\* Retries, lost answers, expiring claims and other workers show the caller
\* nothing but a RemoteCall.
THEOREM RetriesImplementRemoteCall == CallSpec => CallIsRemoteCall
BY RemoteInit, RemoteStep, CallInvariant, PTL
DEF CallSpec, CallIsRemoteCall, Remote!Spec

-----------------------------------------------------------------------------
(* A process makes its calls one after the other.                           *)

LEMMA TakeCalls ==
  ASSUME NEW b \in BodiesOf(Input), Take(b)
  PROVE  (\E k \in Kind : Call(k)) \/ UNCHANGED callVars
BY DEF Take, Kind

LEMMA HandleCalls ==
  ASSUME Handle
  PROVE  (\E k \in Kind : Call(k)) \/ UNCHANGED callVars
<1>1. ASSUME NEW t, NEW k \in Kind, Make(t, k)
      PROVE  \E l \in Kind : Call(l)
  BY <1>1 DEF Make
<1>2. ASSUME NEW o, HandleFailure(o)
      PROVE  (\E k \in Kind : Call(k)) \/ UNCHANGED callVars
  BY <1>1, <1>2 DEF HandleFailure, Kind
<1>3. WriteKind \in Kind
  BY DEF WriteKind, Kind
<1>4. CASE Read \/ ClaimRefused
  BY <1>1, <1>4 DEF Read, ClaimRefused, Kind
<1>5. CASE Work
  BY <1>1, <1>2, <1>3, <1>5 DEF Work
<1>6. CASE Written \/ Recorded
  BY <1>1, <1>6 DEF Written, Recorded, Kind
<1>7. CASE WriteFails \/ PublishFails
  BY <1>2, <1>7 DEF WriteFails, PublishFails
<1>8. CASE ReadFails \/ ClaimFails \/ Reread \/ Published \/ Told
  BY <1>8 DEF ReadFails, ClaimFails, Reread, Published, Told
<1> QED
  BY <1>4, <1>5, <1>6, <1>7, <1>8 DEF Handle

LEMMA WorkerCalls == [WorkerNext]_vars => [CallNext]_callVars
<1> SUFFICES ASSUME [WorkerNext]_vars PROVE [CallNext]_callVars
  OBVIOUS
<1>1. CASE \E b \in BodiesOf(Input) : Take(b)
  BY <1>1, TakeCalls DEF CallNext
<1>2. CASE Handle
  BY <1>2, HandleCalls DEF CallNext
<1>3. CASE Started
  BY <1>3 DEF Started, CallNext, Kind
<1>4. CASE StartUp \/ StartUpFails \/ Replace
  BY <1>4 DEF StartUp, StartUpFails, Replace
<1>5. CASE (\E e \in Input : TakeRow(e)) \/ StartFailed \/ Route
  BY <1>5 DEF TakeRow, StartFailed, Route
<1>6. CASE CallStep \/ Others
  BY <1>6 DEF CallStep, Others, CallNext
<1>7. CASE UNCHANGED vars
  BY <1>7 DEF vars
<1> QED
  BY <1>1, <1>2, <1>3, <1>4, <1>5, <1>6, <1>7 DEF WorkerNext

\* What a process does with its adapters is a sequence of retried calls.
THEOREM WorkerMakesCalls == WorkerSpec => CallSpec
BY WorkerCalls, PTL DEF WorkerSpec, WorkerInit, CallSpec

\* Whatever happens to requests, claims and start-ups: each result a process writes
\* is written once if the write returns, and never twice.
THEOREM WorkerWritesOnce == WorkerSpec => []ResultWrittenOnce
BY WorkerMakesCalls, ResultIsWrittenOnce, PTL

\* The service and its callers see nothing of the retries but a RemoteCall.
THEOREM WorkerSeesRemoteCalls == WorkerSpec => CallIsRemoteCall
BY WorkerMakesCalls, RetriesImplementRemoteCall, PTL

-----------------------------------------------------------------------------
(* The start-up.                                                            *)

FipsOK == ShouldRequireFips(env) => FipsEnabled(host)

\* The number of the step that enforces FIPS.
FipsStage(p) == IF p = "container" THEN 2 ELSE 3

\* Past the FIPS step it holds; who has clients, serves or works is past it.
FipsInv ==
  /\ process \in ProcessKind
  /\ stage \in 1..Len(Steps(process))
  /\ state = "starting" /\ stage > FipsStage(process) => FipsOK
  /\ state # "starting" => stage = 1
  /\ ready \/ factory.made => FipsOK
  /\ state = "starting" => ~ready
  /\ state = "serving" => ready
  /\ task \notin {"none", "start"} => state = "serving"
  /\ process = "container" => task # "start"
  /\ Pending => task \notin {"none", "start", "route"}

LEMMA StepsFacts ==
  ASSUME NEW p \in ProcessKind
  PROVE  /\ Len(Steps(p)) = IF p = "container" THEN 6 ELSE 4
         /\ \A i \in 1..Len(Steps(p)) :
              /\ i = FipsStage(p) <=> Steps(p)[i] = "fips"
              /\ Steps(p)[i] = "factory" => i > FipsStage(p)
<1>1. CASE p = "container"
  BY <1>1 DEF Steps, FipsStage
<1>2. CASE p # "container"
  BY <1>2 DEF Steps, FipsStage
<1> QED
  BY <1>1, <1>2

LEMMA FipsInitially == WorkerInit => FipsInv
<1> SUFFICES ASSUME WorkerInit PROVE FipsInv
  OBVIOUS
<1>1. process \in ProcessKind /\ stage = 1 /\ ~ready /\ ~factory.made /\ ~Pending
  BY DEF WorkerInit, StartupInit, CallInit, Pending, NoFactory
<1>2. 1 \in 1..Len(Steps(process)) /\ ~(1 > FipsStage(process))
  BY <1>1, StepsFacts DEF FipsStage
<1>3. state # "serving" /\ task = "none"
  BY DEF WorkerInit, StartupInit
<1> QED
  BY <1>1, <1>2, <1>3 DEF FipsInv

\* A start-up step that passes: the FIPS step only if it holds.
LEMMA PassedKeeps ==
  ASSUME FipsInv, state = "starting", Passed,
         UNCHANGED <<given, callVars, workVars>>,
         stage >= FipsStage(process) => FipsOK,
         factory' = factory \/ FipsOK
  PROVE  FipsInv'
<1>1. FipsOK' = FipsOK /\ process' = process
  BY DEF FipsOK, given
<1>2. task' = task /\ task \in {"none", "start"} /\ ~Pending /\ ~Pending'
  BY DEF FipsInv, callVars, workVars, Pending
<1>3. CASE stage < Len(Steps(process))
  <2>1. stage' = stage + 1 /\ state' = state /\ ready' = ready
    BY <1>3 DEF Passed
  <2>2. stage' \in 1..Len(Steps(process)) /\ (stage' > FipsStage(process) => FipsOK)
    BY <1>3, <2>1, StepsFacts DEF FipsInv, FipsStage
  <2>3. ready' \/ factory'.made => FipsOK
    BY <2>1 DEF FipsInv
  <2> QED
    BY <1>1, <1>2, <2>1, <2>2, <2>3 DEF FipsInv
<1>4. CASE ~(stage < Len(Steps(process)))
  <2>1. stage' = 1 /\ state' = "serving" /\ ready'
    BY <1>4 DEF Passed
  <2>2. FipsOK /\ 1 \in 1..Len(Steps(process))
    BY <1>4, StepsFacts DEF FipsInv, FipsStage
  <2> QED
    BY <1>1, <1>2, <2>1, <2>2 DEF FipsInv
<1> QED
  BY <1>3, <1>4

LEMMA FailedKeeps ==
  ASSUME FipsInv, state = "starting", Failed, UNCHANGED <<given, callVars, workVars>>
  PROVE  FipsInv'
<1>1. FipsOK' = FipsOK /\ process' = process
  BY DEF FipsOK, given
<1>2. task' = task /\ task \in {"none", "start"} /\ ~Pending /\ ~Pending'
  BY DEF FipsInv, callVars, workVars, Pending
<1>3. /\ state' \in {"exited", "idle"} /\ stage' = 1 /\ ~ready'
      /\ ~factory'.made
  BY DEF FipsInv, Failed, NoFactory
<1>4. 1 \in 1..Len(Steps(process))
  BY StepsFacts DEF FipsInv
<1> QED
  BY <1>1, <1>2, <1>3, <1>4 DEF FipsInv

LEMMA StartUpKeeps ==
  ASSUME FipsInv, StartUp \/ StartUpFails
  PROVE  FipsInv'
<1>0. UNCHANGED <<given, callVars, workVars>>
  BY DEF StartUp, StartUpFails, StartupStep, LoadSettings, CheckRuntime, EnforceFips, Check,
         MakeFactory, RemoteCheck, RemoteCheckFails
<1>a. ASSUME NEW step, At(step)
      PROVE  /\ state = "starting"
             /\ stage > FipsStage(process) => FipsOK
             /\ stage = FipsStage(process) <=> step = "fips"
             /\ step = "factory" => stage > FipsStage(process)
  BY <1>a, StepsFacts DEF At, FipsInv
<1>b. stage \in Nat /\ FipsStage(process) \in Nat
  BY DEF FipsInv, FipsStage
<1>1. ASSUME NEW step, NEW holds, Check(step, holds), step = "fips" => (holds => FipsOK)
      PROVE  FipsInv'
  <2>1. At(step)
    BY <1>1 DEF Check
  <2>2. CASE Passed /\ UNCHANGED factory /\ holds
    <3>1. stage >= FipsStage(process) => FipsOK
      BY <1>1, <1>a, <1>b, <2>1, <2>2
    <3> QED
      BY <1>0, <1>a, <2>1, <2>2, <3>1, PassedKeeps
  <2>3. CASE Failed
    BY <1>0, <1>a, <2>1, <2>3, FailedKeeps
  <2> QED
    BY <1>1, <2>2, <2>3 DEF Check
<1>2. CASE MakeFactory
  <2>1. At("factory")
    BY <1>2 DEF MakeFactory
  <2>2. CASE Failed
    BY <1>0, <1>a, <2>1, <2>2, FailedKeeps
  <2>3. CASE Passed
    BY <1>0, <1>a, <1>b, <2>1, <2>3, PassedKeeps
  <2> QED
    BY <1>2, <2>2, <2>3 DEF MakeFactory
<1>3. CASE RemoteCheckFails
  BY <1>0, <1>3, <1>a, FailedKeeps DEF RemoteCheckFails
<1>4. CASE LoadSettings
  BY <1>1, <1>4 DEF LoadSettings
<1>5. CASE CheckRuntime
  BY <1>1, <1>5 DEF CheckRuntime
<1>6. CASE EnforceFips
  BY <1>1, <1>6 DEF EnforceFips, FipsOK
<1>7. CASE RemoteCheck
  <2>1. PICK step \in {"connect", "key"} : Check(step, TRUE)
    BY <1>7 DEF RemoteCheck
  <2> QED
    BY <1>1, <2>1
<1> QED
  BY <1>2, <1>3, <1>4, <1>5, <1>6, <1>7 DEF StartUp, StartUpFails, StartupStep

LEMMA ReplaceKeeps ==
  ASSUME FipsInv, Replace
  PROVE  FipsInv'
<1>1. FipsOK' = FipsOK /\ process' = process /\ 1 \in 1..Len(Steps(process))
  BY StepsFacts DEF Replace, Restart, FipsOK, given, FipsInv
<1>2. task' = "none" /\ task = "none" /\ ~Pending'
  BY DEF Replace, callVars, workVars, FipsInv, Pending
<1>3. /\ state' \in {"starting", "idle"} /\ stage' = 1 /\ ~ready' /\ ~factory'.made
      /\ ~(1 > FipsStage(process))
  BY DEF Replace, Restart, NoFactory, FipsStage
<1> QED
  BY <1>1, <1>2, <1>3 DEF FipsInv

\* What the work leaves of the start-up: it ends, goes on, or has to begin.
WorkMoves ==
  /\ UNCHANGED <<given, stage, factory, ready>>
  /\ task' = "start" => process # "container" /\ ~Pending'
  /\ task' \in {"none", "route"} => ~Pending'
  /\ \/ state' = state /\ (task' \notin {"none", "start"} => state = "serving")
     \/ state' = "serving" /\ state # "starting" /\ ready
     \/ state' = "starting" /\ state # "starting" /\ ~ready /\ task' = "start"
     \/ state' = "idle" /\ state # "starting" /\ task' = "none"

LEMMA WorkKeeps ==
  ASSUME FipsInv, WorkMoves
  PROVE  FipsInv'
<1>1. FipsOK' = FipsOK /\ process' = process /\ stage' = stage /\ ready' = ready
      /\ factory' = factory
  BY DEF WorkMoves, FipsOK, given
<1>2. state' = "starting" /\ stage > FipsStage(process) => FipsOK
  BY DEF FipsInv, WorkMoves, FipsStage
<1> QED
  BY <1>1, <1>2 DEF FipsInv, WorkMoves

\* An answer ends the task of a process that serves, or was about to.
LEMMA AnswerMoves ==
  ASSUME FipsInv, NEW o, NEW a, AnswerAfter(o, a), UNCHANGED callVars, ~Pending,
         state # "starting", state = "serving" \/ process # "container"
  PROVE  WorkMoves
BY DEF AnswerAfter, WorkMoves, callVars, Pending, FipsInv, given

LEMMA MakeMoves ==
  ASSUME FipsInv, NEW t \in Task \ {"none", "start", "route"}, NEW k \in Kind, Make(t, k),
         state = "serving"
  PROVE  WorkMoves
BY DEF Make, WorkMoves, startVars, given

LEMMA HandleMoves ==
  ASSUME FipsInv, Handle
  PROVE  WorkMoves
<1>1. ~Pending /\ state = "serving" /\ state # "starting"
  BY DEF FipsInv, Handle, Read, ReadFails, ClaimFails, ClaimRefused, Reread, Work, Written,
         WriteFails, Published, PublishFails, Recorded, Told, Returned, Pending
<1>2. ASSUME NEW o, NEW a, AnswerAfter(o, a), UNCHANGED callVars
      PROVE  WorkMoves
  BY <1>1, <1>2, AnswerMoves
<1>3. ASSUME NEW a, Answer(a), UNCHANGED callVars
      PROVE  WorkMoves
  BY <1>2, <1>3 DEF Answer
<1>4. ASSUME NEW t \in {"claim", "reread", "write", "publish", "record", "tell"},
             NEW k \in Kind, Make(t, k)
      PROVE  WorkMoves
  BY <1>1, <1>4, MakeMoves DEF Task
<1>5. ASSUME NEW o, HandleFailure(o)
      PROVE  WorkMoves
  BY <1>2, <1>4, <1>5 DEF HandleFailure, Raise, Kind
<1>6. CASE Read
  BY <1>3, <1>4, <1>6 DEF Read, Duplicate, Kind
<1>7. CASE ReadFails \/ ClaimFails \/ Published
  BY <1>3, <1>7 DEF ReadFails, ClaimFails, Published
<1>8. CASE ClaimRefused
  BY <1>4, <1>8 DEF ClaimRefused, Kind
<1>9. CASE Reread
  BY <1>3, <1>9 DEF Reread, Duplicate
<1>10. CASE Work
  <2>1. WriteKind \in Kind
    BY DEF WriteKind, Kind
  <2> QED
    BY <1>4, <1>5, <1>10, <2>1 DEF Work
<1>11. CASE Written
  BY <1>3, <1>4, <1>11 DEF Written, Kind
<1>12. CASE WriteFails \/ PublishFails
  BY <1>5, <1>12 DEF WriteFails, PublishFails
<1>13. CASE Recorded \/ Told
  BY <1>2, <1>4, <1>13 DEF Recorded, Told, Raise, Kind
<1> QED
  BY <1>6, <1>7, <1>8, <1>9, <1>10, <1>11, <1>12, <1>13 DEF Handle

\* A message or a row is taken by a process at rest.
LEMMA TakeMoves ==
  ASSUME FipsInv, (\E b \in BodiesOf(Input) : Take(b)) \/ (\E e \in Input : TakeRow(e))
  PROVE  WorkMoves
<1>1. /\ task = "none" /\ ~Pending /\ state # "starting"
      /\ state = "serving" \/ process # "container"
      /\ process = "container" => ready
  BY DEF Take, TakeRow, AtRest, FipsInv
<1>2. ASSUME NEW e, NEW first \in {"read", "route"}, Begin(e, first),
             (ready /\ first = "read") \/ UNCHANGED callVars
      PROVE  WorkMoves
  BY <1>1, <1>2 DEF Begin, WorkMoves, FipsInv, callVars, Pending, given
<1>3. ASSUME NEW o, NEW a, AnswerAfter(o, a), UNCHANGED callVars
      PROVE  WorkMoves
  BY <1>1, <1>3, AnswerMoves
<1>4. CASE \E b \in BodiesOf(Input) : Take(b)
  BY <1>2, <1>3, <1>4 DEF Take
<1>5. CASE \E e \in Input : TakeRow(e)
  BY <1>2, <1>3, <1>5 DEF TakeRow
<1> QED
  BY <1>4, <1>5

\* Every step is one of the start-up, a replacement, one of the work, or leaves the
\* start-up alone with whatever call is out.
LEMMA SortsOfStep ==
  ASSUME FipsInv, [WorkerNext]_vars
  PROVE  \/ StartUp \/ StartUpFails \/ Replace
         \/ WorkMoves
         \/ UNCHANGED <<startVars, workVars>> /\ (Pending' => Pending)
<1>1. CASE (\E b \in BodiesOf(Input) : Take(b)) \/ (\E e \in Input : TakeRow(e))
  BY <1>1, TakeMoves
<1>2. CASE Started
  BY <1>2 DEF Started, Serving, WorkMoves, FipsInv, Pending, callVars, startVars, given
<1>3. CASE StartFailed
  <2>1. process # "container" /\ ~Pending
    BY <1>3 DEF StartFailed, FipsInv
  <2> QED
    BY <1>3, <2>1, AnswerMoves DEF StartFailed, Answer
<1>4. CASE Route
  <2>1. task = "route" /\ state = "serving" /\ UNCHANGED callVars
    BY <1>4 DEF Route, FipsInv
  <2>2. PICK a \in {"acknowledged", "again"} : Answer(a)
    BY <1>4 DEF Route
  <2>3. ~Pending
    BY <2>1 DEF FipsInv
  <2> QED
    BY <2>1, <2>2, <2>3, AnswerMoves DEF Answer
<1>5. CASE Handle
  BY <1>5, HandleMoves
<1>6. CASE CallStep \/ Others
  BY <1>6 DEF CallStep, Others, Send, SendExecuted, SendReplayed, SendRefused, SendFails,
              ClaimExpires, OtherClaims, OtherReleases, Meanwhile, Pending
<1>7. CASE UNCHANGED vars
  BY <1>7 DEF vars, callVars, Pending
<1> QED
  BY <1>1, <1>2, <1>3, <1>4, <1>5, <1>6, <1>7 DEF WorkerNext

LEMMA FipsStep == FipsInv /\ [WorkerNext]_vars => FipsInv'
<1> SUFFICES ASSUME FipsInv, [WorkerNext]_vars PROVE FipsInv'
  OBVIOUS
<1>1. CASE StartUp \/ StartUpFails
  BY <1>1, StartUpKeeps
<1>2. CASE Replace
  BY <1>2, ReplaceKeeps
<1>3. CASE WorkMoves
  BY <1>3, WorkKeeps
<1>4. CASE UNCHANGED <<startVars, workVars>> /\ (Pending' => Pending)
  BY <1>4 DEF FipsInv, startVars, workVars, given, FipsOK
<1> QED
  BY <1>1, <1>2, <1>3, <1>4, SortsOfStep

\* Where FIPS mode is required, no process of any kind makes a client or a call on a
\* host that is not in it, however often its start-up fails and begins again.
THEOREM FipsBeforeCalls == WorkerSpec => []NoCallBeforeFips
<1>1. FipsInv => NoCallBeforeFips
  BY DEF FipsInv, FipsOK, NoCallBeforeFips
<1> QED
  BY <1>1, FipsInitially, FipsStep, PTL DEF WorkerSpec

\* The factory a process has is the one its environment asks for.
FactoryInv == factory.made => factory = FactoryFor(env)

LEMMA FactoryStep == FipsInv /\ FactoryInv /\ [WorkerNext]_vars => FactoryInv'
<1> SUFFICES ASSUME FipsInv, FactoryInv, [WorkerNext]_vars PROVE FactoryInv'
  OBVIOUS
<1>1. CASE StartUp
  <2>1. env' = env /\ (factory' = factory \/ factory' = NoFactory \/ factory' = FactoryFor(env))
    BY <1>1 DEF StartUp, StartupStep, LoadSettings, CheckRuntime, EnforceFips, RemoteCheck, Check,
                MakeFactory, Failed, given
  <2>2. env' = env => FactoryFor(env)' = FactoryFor(env)
    BY DEF FactoryFor, LocalFactory, ShouldUseFips, Local, Endpoint
  <2> QED
    BY <2>1, <2>2 DEF FactoryInv, NoFactory
<1>2. CASE StartUpFails \/ Replace
  BY <1>2 DEF StartUpFails, RemoteCheckFails, Failed, Replace, Restart, NoFactory, FactoryInv
<1>3. CASE WorkMoves \/ UNCHANGED <<startVars, workVars>>
  BY <1>3 DEF WorkMoves, startVars, given, FactoryInv, FactoryFor, LocalFactory, ShouldUseFips,
              Local, Endpoint
<1> QED
  BY <1>1, <1>2, <1>3, SortsOfStep

-----------------------------------------------------------------------------
(* One verdict: the row of the result is in the table only if its            *)
(* transaction took effect, which gave the claim up, so that the failure     *)
(* recorded afterwards is refused.                                           *)

VerdictInv ==
  /\ OneVerdict
  /\ task \in {"start", "route", "read", "claim", "reread", "write", "publish"} => rows = {}
  /\ task = "record" => kind \in {"save", "transact"}
  /\ task = "record" /\ OutboxRow(Completion) \in rows =>
       holder # "caller" /\ (kind = "transact" => effects = 0)

LEMMA RowsDiffer == OutboxRow(Completion) # OutboxRow(Failure)
<1>1. OutboxRow(Completion).eventType = "ANALYSIS_COMPLETED"
  BY DEF OutboxRow, Completion, WithNewEventType
<1>2. OutboxRow(Failure).eventType = "PROCESSING_FAILED"
  BY DEF OutboxRow, Failure, WithNewEventType
<1> QED
  BY <1>1, <1>2

\* A step that leaves the event: what its rows would be stays the same.
LEMMA SameRows ==
  ASSUME event' = event
  PROVE  /\ OutboxRow(Completion)' = OutboxRow(Completion)
         /\ OutboxRow(Failure)' = OutboxRow(Failure)
BY DEF OutboxRow, Completion, Failure, WithNewEventType

\* An answer, or the next call before the failure is recorded.
LEMMA AnswerVerdict ==
  ASSUME NEW o, NEW a, AnswerAfter(o, a), OneVerdict'
  PROVE  VerdictInv'
BY DEF AnswerAfter, VerdictInv

LEMMA MakeVerdict ==
  ASSUME NEW t \in {"claim", "reread", "write", "publish"}, NEW k, Make(t, k), rows' = {}
  PROVE  VerdictInv'
<1>1. task' = t /\ OneVerdict'
  BY DEF Make, OneVerdict
<1> QED
  BY <1>1 DEF VerdictInv

\* Recording a failure after a write that may have taken effect.
LEMMA FailureVerdict ==
  ASSUME NEW o, HandleFailure(o), rows' \subseteq {OutboxRow(Completion)},
         OutboxRow(Completion) \in rows' => holder # "caller"
  PROVE  VerdictInv'
<1>0. event' = event
  BY DEF HandleFailure, Make, Raise, AnswerAfter
<1>1. OneVerdict'
  BY <1>0, RowsDiffer, SameRows DEF OneVerdict
<1>2. CASE Raise(o)
  BY <1>1, <1>2, AnswerVerdict DEF Raise
<1>3. CASE \E k \in {"save", "transact"} : Make("record", k)
  <2>1. PICK k \in {"save", "transact"} : Make("record", k)
    BY <1>3
  <2>2. task' = "record" /\ kind' = k /\ effects' = 0 /\ (holder' = "caller" <=> holder = "caller")
    BY <2>1 DEF Make, Call
  <2> QED
    BY <1>0, <1>1, <2>2, SameRows DEF VerdictInv
<1> QED
  BY <1>2, <1>3 DEF HandleFailure

LEMMA HandleVerdict ==
  ASSUME CallInv, VerdictInv, Handle
  PROVE  VerdictInv'
<1>0. event' = event
  BY DEF Handle, Read, ReadFails, ClaimFails, ClaimRefused, Reread, Work, Written, WriteFails,
         Published, PublishFails, Recorded, Told, Duplicate, HandleFailure, Raise, Answer,
         AnswerAfter, Make
\* A transaction in hand that took effect has given up the claim.
<1>a. ASSUME rows = {}, rows' = RowsWith(Completion)
      PROVE  /\ rows' \subseteq {OutboxRow(Completion)}
             /\ OutboxRow(Completion) \in rows' => holder # "caller" /\ kind = "transact"
  BY <1>a DEF RowsWith, CallInv
<1>b. ASSUME rows' \subseteq {OutboxRow(Completion)} PROVE OneVerdict'
  BY <1>0, <1>b, RowsDiffer, SameRows DEF OneVerdict
<1>c. ASSUME NEW o, NEW a, AnswerAfter(o, a), rows' \subseteq {OutboxRow(Completion)}
      PROVE  VerdictInv'
  BY <1>b, <1>c, AnswerVerdict
<1>1. CASE Read \/ ReadFails \/ ClaimFails \/ ClaimRefused \/ Reread
  <2>1. rows' = {}
    BY <1>1 DEF Read, ReadFails, ClaimFails, ClaimRefused, Reread, Returned, VerdictInv
  <2> QED
    BY <1>1, <1>c, <2>1, MakeVerdict
    DEF Read, ReadFails, ClaimFails, ClaimRefused, Reread, Duplicate, Answer
<1>2. CASE Work
  <2>1. rows' = {}
    BY <1>2 DEF Work, Returned, VerdictInv
  <2> QED
    BY <1>2, <2>1, MakeVerdict, FailureVerdict DEF Work
<1>3. CASE Written
  <2>1. rows = {} /\ rows' = RowsWith(Completion)
    BY <1>3 DEF Written, Returned, VerdictInv
  <2>2. kind = "save" => rows' = {}
    BY <2>1 DEF RowsWith
  <2> QED
    BY <1>3, <1>a, <1>c, <2>1, <2>2, MakeVerdict DEF Written, Answer
<1>4. CASE WriteFails
  BY <1>4, <1>a, FailureVerdict DEF WriteFails, VerdictInv
<1>5. CASE PublishFails
  BY <1>5, FailureVerdict DEF PublishFails, Returned, VerdictInv
<1>6. CASE Published
  BY <1>6, <1>c DEF Published, Returned, VerdictInv, Answer
<1>7. CASE Recorded
  <2>1. OneVerdict'
    <3>1. rows' = rows \/ (kind = "transact" /\ effects > 0 /\ rows' = rows \cup {OutboxRow(Failure)})
      BY <1>7 DEF Recorded, RowsWith
    <3>2. task = "record" /\ OneVerdict
      BY <1>7 DEF Recorded, VerdictInv
    <3>3. kind = "transact" /\ effects > 0 => OutboxRow(Completion) \notin rows
      BY <3>2 DEF VerdictInv
    <3> QED
      BY <1>0, <3>1, <3>2, <3>3, RowsDiffer, SameRows DEF OneVerdict
  <2>2. CASE \E k : Make("tell", k)
    BY <2>1, <2>2 DEF Make, VerdictInv
  <2> QED
    BY <1>7, <2>1, <2>2, AnswerVerdict DEF Recorded, Raise
<1>8. CASE Told
  <2>1. OneVerdict'
    BY <1>0, <1>8, SameRows DEF Told, VerdictInv, OneVerdict
  <2> QED
    BY <1>8, <2>1, AnswerVerdict DEF Told, Raise
<1> QED
  BY <1>1, <1>2, <1>3, <1>4, <1>5, <1>6, <1>7, <1>8 DEF Handle

\* While the failure is being recorded the claim never comes back.
LEMMA CallVerdict ==
  ASSUME CallInv, VerdictInv, CallStep \/ Others
  PROVE  VerdictInv'
<1>1. UNCHANGED <<event, task, rows, kind>>
  BY DEF CallStep, Others, Send, SendExecuted, SendReplayed, SendRefused, SendFails, ClaimExpires,
         OtherClaims, OtherReleases, Meanwhile, workVars
<1>2. OneVerdict'
  BY <1>1, SameRows DEF VerdictInv, OneVerdict
<1>3. ASSUME kind \in {"save", "transact"}, holder # "caller"
      PROVE  holder' # "caller" /\ effects' = effects
  BY <1>3 DEF CallStep, Others, Send, SendExecuted, SendReplayed, SendRefused, SendFails,
              ClaimExpires, OtherClaims, OtherReleases, Meanwhile, Execute, Condition, NotExecuted
<1> QED
  BY <1>1, <1>2, <1>3, SameRows DEF VerdictInv

LEMMA VerdictStep == CallInv /\ VerdictInv /\ [WorkerNext]_vars => VerdictInv'
<1> SUFFICES ASSUME CallInv, VerdictInv, [WorkerNext]_vars PROVE VerdictInv'
  OBVIOUS
<1>1. CASE Handle
  BY <1>1, HandleVerdict
<1>2. CASE CallStep \/ Others
  BY <1>2, CallVerdict
<1>3. CASE (\E b \in BodiesOf(Input) : Take(b)) \/ (\E e \in Input : TakeRow(e))
  <2>1. rows' = {} /\ task' # "record"
    BY <1>3 DEF Take, TakeRow, Begin, AnswerAfter
  <2> QED
    BY <2>1 DEF VerdictInv, OneVerdict
<1>4. CASE Started
  <2>1. rows' = {} /\ task' # "record"
    BY <1>4 DEF Started, VerdictInv
  <2> QED
    BY <2>1 DEF VerdictInv, OneVerdict
<1>5. CASE StartFailed \/ Route
  <2>1. event' = event /\ UNCHANGED rows
    BY <1>5 DEF StartFailed, Route, Answer, AnswerAfter
  <2>2. OneVerdict'
    BY <2>1, SameRows DEF VerdictInv, OneVerdict
  <2> QED
    BY <1>5, <2>2, AnswerVerdict DEF StartFailed, Route, Answer
<1>6. CASE StartUp \/ StartUpFails \/ Replace \/ UNCHANGED vars
  <2>1. UNCHANGED <<event, task, rows, kind, holder, effects>>
    BY <1>6 DEF StartUp, StartUpFails, Replace, vars, callVars, workVars
  <2> QED
    BY <2>1, SameRows DEF VerdictInv, OneVerdict
<1> QED
  BY <1>1, <1>2, <1>3, <1>4, <1>5, <1>6 DEF WorkerNext

\* No attempt leaves both a result and a failure, whatever is lost or retried.
THEOREM ResultOrFailure == WorkerSpec => []OneVerdict
<1>1. WorkerInit => VerdictInv
  BY DEF WorkerInit, VerdictInv, OneVerdict
<1>2. VerdictInv => OneVerdict
  BY DEF VerdictInv
<1>3. WorkerSpec => []CallInv
  BY WorkerMakesCalls, CallInvariant, PTL
<1> QED
  BY <1>1, <1>2, <1>3, VerdictStep, PTL DEF WorkerSpec

-----------------------------------------------------------------------------
(* The contract of the events.                                              *)

LEMMA SameEventTaken ==
  ASSUME NEW E, NEW b \in BodiesOf(E)
  PROVE  /\ ContainerEvent(b) = LambdaEvent(b)
         /\ ContainerEvent(b) \in E \cup {NotAnEvent}
         /\ b \notin {Confirmation, NotJson} => ContainerEvent(b) \in E
<1>1. CASE \E e \in E : b = Raw(e)
  BY <1>1 DEF Raw, ContainerEvent, LambdaEvent, Whole
<1>2. CASE \E e \in E : b = Notification(e)
  BY <1>2 DEF Notification, EnvelopeKeys, ContainerEvent, LambdaEvent, Whole
<1>3. CASE b = Confirmation
  BY <1>3 DEF Confirmation, EnvelopeKeys, ContainerEvent, LambdaEvent, Whole
<1>4. CASE b = NotJson
  BY <1>4 DEF NotJson, ContainerEvent, LambdaEvent, Whole
<1> QED
  BY <1>1, <1>2, <1>3, <1>4 DEF BodiesOf

LEMMA NotAnEventIsRefused == NotAnEvent \in Event /\ ~Valid(NotAnEvent)
BY DEF NotAnEvent, Event, EventType, EventSource, InputId, OutputId, Valid

\* An output event is a valid one if its input was.
LEMMA OutputEvents ==
  ASSUME NEW e \in Event, NEW t \in EventType, NEW disc \in {"none", "claim"}
  PROVE  /\ WithNewEventType(e, t, disc) \in Event
         /\ WithNewEventType(e, t, disc).type = t
         /\ Valid(WithNewEventType(e, t, disc)) <=> e.fields
<1> DEFINE new == WithNewEventType(e, t, disc)
<1>1. SourceOf(t) \in EventSource /\ e.fields \in BOOLEAN
  BY DEF SourceOf, EventSource, Event
<1>2. new.id \in InputId \cup OutputId
  BY DEF WithNewEventType, OutputId
<1>3. new \in Event
  BY <1>1, <1>2 DEF WithNewEventType, Event
<1>4. /\ new.type = t /\ new.source = SourceOf(t) /\ new.fields = e.fields
      /\ new.result <=> (t = "ANALYSIS_COMPLETED")
      /\ new.failure <=> (t = "PROCESSING_FAILED")
  BY DEF WithNewEventType
<1> HIDE DEF new
<1>5. Valid(new) <=> e.fields
  BY <1>4 DEF Valid
<1> QED
  BY <1>3, <1>4, <1>5 DEF new

\* The container and the Lambda take the same event from whatever arrives.
THEOREM OneReadingOfBodies == WorkerSpec => []ConsumersAgree
<1>1. ConsumersAgree
  BY SameEventTaken DEF ConsumersAgree
<1> QED
  BY <1>1, PTL

-----------------------------------------------------------------------------
(* Types.                                                                   *)

WorkTypes ==
  /\ event \in Event
  /\ task \in Task
  /\ outcome \in {"none", "completed"} \cup Failing
  /\ \A r \in rows : r.payload \in Event
  /\ answer \in {"none", "acknowledged", "left", "again"}

LEMMA FactoryTypes ==
  /\ NoFactory \in [local : BOOLEAN, fips : BOOLEAN, made : BOOLEAN]
  /\ FactoryFor(env) \in [local : BOOLEAN, fips : BOOLEAN, made : BOOLEAN]
<1>1. LocalFactory(env) \in BOOLEAN /\ (ShouldUseFips(env) /\ ~LocalFactory(env)) \in BOOLEAN
  BY DEF LocalFactory
<1> QED
  BY <1>1 DEF NoFactory, FactoryFor

LEMMA StartUpTypes ==
  ASSUME StartupTypeOK, FipsInv', StartUp \/ StartUpFails \/ Replace
  PROVE  StartupTypeOK'
<1>1. UNCHANGED given
  BY DEF StartUp, StartUpFails, StartupStep, LoadSettings, CheckRuntime, EnforceFips, Check,
         MakeFactory, RemoteCheck, RemoteCheckFails, Replace, Restart
<1>2. startFaults' \in 0..MaxFaults
  BY StartupAssumption
  DEF StartupAssumption, StartupTypeOK, StartUp, StartUpFails, StartupStep, LoadSettings,
      CheckRuntime, EnforceFips, Check, MakeFactory, RemoteCheck, RemoteCheckFails, Replace, Restart
<1>3. CASE Replace
  BY <1>1, <1>2, <1>3, FactoryTypes DEF Replace, Restart, StartupTypeOK, FipsInv, given
<1>4. CASE StartUp \/ StartUpFails
  <2>1. (Passed /\ (factory' = factory \/ factory' = FactoryFor(env))) \/ Failed
    BY <1>4 DEF StartUp, StartUpFails, StartupStep, LoadSettings, CheckRuntime, EnforceFips,
                Check, MakeFactory, RemoteCheck, RemoteCheckFails
  <2>2. CASE Passed /\ (factory' = factory \/ factory' = FactoryFor(env))
    <3>1. state' \in {state, "serving"} /\ ready' \in {ready, TRUE}
      BY <2>2 DEF Passed
    <3> QED
      BY <1>1, <1>2, <2>2, <3>1, FactoryTypes DEF StartupTypeOK, FipsInv, given
  <2>3. CASE Failed
    BY <1>1, <1>2, <2>3, FactoryTypes DEF Failed, StartupTypeOK, FipsInv, given
  <2> QED
    BY <2>1, <2>2, <2>3
<1> QED
  BY <1>3, <1>4

LEMMA AnswerTypes ==
  ASSUME StartupTypeOK, NEW o, NEW a, AnswerAfter(o, a),
         o \in {"none", "completed"} \cup Failing, a \in {"acknowledged", "left", "again"},
         event \in Event, \A r \in rows' : r.payload \in Event
  PROVE  StartupTypeOK' /\ WorkTypes'
BY DEF AnswerAfter, StartupTypeOK, WorkTypes, Task, given

LEMMA MakeTypes ==
  ASSUME StartupTypeOK, WorkTypes, NEW t \in Task, NEW k, Make(t, k),
         outcome' \in {"none", "completed"} \cup Failing, \A r \in rows' : r.payload \in Event
  PROVE  StartupTypeOK' /\ WorkTypes'
BY DEF Make, StartupTypeOK, WorkTypes, startVars, given

LEMMA HandleTypes ==
  ASSUME StartupTypeOK, WorkTypes, Handle
  PROVE  StartupTypeOK' /\ WorkTypes'
<1>1. \A r \in rows' : r.payload \in Event
  <2>1. Completion \in Event /\ Failure \in Event
    BY OutputEvents DEF Completion, Failure, WorkTypes, EventType
  <2>2. OutboxRow(Completion).payload = Completion /\ OutboxRow(Failure).payload = Failure
    BY DEF OutboxRow
  <2>3. rows' \subseteq rows \cup {OutboxRow(Completion), OutboxRow(Failure)}
    BY DEF Handle, Read, ReadFails, ClaimFails, ClaimRefused, Reread, Work, Written, WriteFails,
           Published, PublishFails, Recorded, Told, RowsWith
  <2> QED
    BY <2>1, <2>2, <2>3 DEF WorkTypes
<1>2. Left \in {"left", "again"}
  BY DEF Left
<1>3. ASSUME NEW o, NEW a, AnswerAfter(o, a), o \in {"none", "completed"} \cup Failing,
             a \in {"acknowledged", "left", "again"}
      PROVE  StartupTypeOK' /\ WorkTypes'
  BY <1>1, <1>3, AnswerTypes DEF WorkTypes
<1>4. ASSUME NEW a, Answer(a), a \in {"acknowledged", "left", "again"}
      PROVE  StartupTypeOK' /\ WorkTypes'
  BY <1>3, <1>4 DEF Answer, WorkTypes
<1>5. ASSUME NEW t \in {"claim", "reread", "write", "publish", "record", "tell"}, NEW k, Make(t, k),
             outcome' \in {"none", "completed"} \cup Failing
      PROVE  StartupTypeOK' /\ WorkTypes'
  BY <1>1, <1>5, MakeTypes DEF Task
<1>6. ASSUME NEW o \in {"none", "completed"} \cup Failing, Raise(o)
      PROVE  StartupTypeOK' /\ WorkTypes'
  BY <1>2, <1>3, <1>6 DEF Raise
<1>7. ASSUME NEW o \in Failing, HandleFailure(o)
      PROVE  StartupTypeOK' /\ WorkTypes'
  BY <1>5, <1>6, <1>7 DEF HandleFailure
<1>a. outcome \in {"none", "completed"} \cup Failing
  BY DEF WorkTypes
<1>8. CASE Read \/ ReadFails \/ ClaimFails \/ ClaimRefused \/ Reread
  BY <1>2, <1>4, <1>5, <1>8, <1>a DEF Read, ReadFails, ClaimFails, ClaimRefused, Reread, Duplicate
<1>9. CASE Work
  BY <1>5, <1>7, <1>9 DEF Work
<1>10. CASE Written \/ Published
  BY <1>4, <1>5, <1>10, <1>a DEF Written, Published
<1>11. CASE WriteFails \/ PublishFails
  BY <1>7, <1>11 DEF WriteFails, PublishFails, Failing
<1>12. CASE Recorded \/ Told
  BY <1>5, <1>6, <1>12, <1>a DEF Recorded, Told
<1> QED
  BY <1>8, <1>9, <1>10, <1>11, <1>12 DEF Handle

LEMMA WorkerTypeStep ==
  StartupTypeOK /\ WorkTypes /\ FipsInv' /\ [WorkerNext]_vars => StartupTypeOK' /\ WorkTypes'
<1> SUFFICES ASSUME StartupTypeOK, WorkTypes, FipsInv', [WorkerNext]_vars
             PROVE  StartupTypeOK' /\ WorkTypes'
  OBVIOUS
<1>1. CASE StartUp \/ StartUpFails \/ Replace
  BY <1>1, StartUpTypes DEF StartUp, StartUpFails, Replace, workVars, WorkTypes
<1>2. ASSUME NEW e \in Event, NEW first \in {"read", "route"}, Begin(e, first)
      PROVE  StartupTypeOK' /\ WorkTypes'
  BY <1>2 DEF Begin, StartupTypeOK, WorkTypes, Task, given
<1>3. CASE \E b \in BodiesOf(Input) : Take(b)
  <2>1. PICK b \in BodiesOf(Input) : Take(b)
    BY <1>3
  <2>2. EventIn(b) \in Event
    BY SameEventTaken, NotAnEventIsRefused, InputAssumption DEF InputAssumption, EventIn
  <2>3. CASE Begin(EventIn(b), "read")
    BY <1>2, <2>2, <2>3
  <2>4. CASE AnswerAfter("none", Left) /\ rows' = {}
    BY <2>4, AnswerTypes DEF Left, WorkTypes
  <2> QED
    BY <2>1, <2>3, <2>4 DEF Take
<1>4. CASE \E e \in Input : TakeRow(e)
  <2>1. PICK e \in Input : Begin(e, "route") \/ (AnswerAfter("none", "again") /\ rows' = {})
    BY <1>4 DEF TakeRow
  <2>2. CASE Begin(e, "route")
    BY <1>2, <2>2, InputAssumption DEF InputAssumption
  <2>3. CASE AnswerAfter("none", "again") /\ rows' = {}
    BY <2>3, AnswerTypes DEF WorkTypes
  <2> QED
    BY <2>1, <2>2, <2>3
<1>5. CASE Started
  BY <1>5 DEF Started, startVars, given, StartupTypeOK, WorkTypes, Task
<1>6. CASE StartFailed \/ Route
  <2>1. (Answer("again") \/ Answer("acknowledged")) /\ UNCHANGED rows
    BY <1>6 DEF StartFailed, Route
  <2> QED
    BY <2>1, AnswerTypes DEF Answer, WorkTypes
<1>7. CASE Handle
  BY <1>7, HandleTypes
<1>8. CASE CallStep \/ Others \/ UNCHANGED vars
  BY <1>8 DEF CallStep, Others, vars, startVars, workVars, given, StartupTypeOK, WorkTypes
<1> QED
  BY <1>1, <1>3, <1>4, <1>5, <1>6, <1>7, <1>8 DEF WorkerNext

LEMMA WorkerInitTypes == WorkerInit => StartupTypeOK /\ WorkTypes
<1> SUFFICES ASSUME WorkerInit PROVE StartupTypeOK /\ WorkTypes
  OBVIOUS
<1>1. ready \in BOOLEAN
  BY Zenon DEF WorkerInit, StartupInit
<1>2. process \in ProcessKind /\ stage \in 1..Len(Steps(process))
  BY FipsInitially DEF FipsInv
<1>3. startFaults \in 0..MaxFaults
  BY StartupAssumption DEF StartupAssumption, WorkerInit, StartupInit
<1>4. /\ env \in Environment /\ host \in Host
      /\ state \in {"idle", "starting", "serving", "exited"} /\ factory = NoFactory
  BY DEF WorkerInit, StartupInit
<1>5. StartupTypeOK
  BY <1>1, <1>2, <1>3, <1>4, FactoryTypes DEF StartupTypeOK
<1> QED
  BY <1>5, NotAnEventIsRefused DEF WorkerInit, WorkTypes, Task

THEOREM WorkerInvariants == WorkerSpec => [](CallInv /\ FipsInv /\ StartupTypeOK /\ WorkTypes)
<1>1. WorkerSpec => []CallInv
  BY WorkerMakesCalls, CallInvariant, PTL
<1>2. WorkerSpec => []FipsInv
  BY FipsInitially, FipsStep, PTL DEF WorkerSpec
<1> QED
  BY <1>1, <1>2, WorkerInitTypes, WorkerTypeStep, PTL DEF WorkerSpec

\* Every variable of a process keeps its type, whatever it takes and whatever fails.
THEOREM WorkerTypeCorrect == WorkerSpec => []WorkerTypeOK
<1>1. CallInv /\ StartupTypeOK /\ WorkTypes => WorkerTypeOK
  BY DEF CallInv, WorkTypes, WorkerTypeOK
<1> QED
  BY <1>1, WorkerInvariants, PTL

\* The clients of AWS use FIPS endpoints when they are told to, in every environment
\* but one: an endpoint set to the empty string, which Settings takes for none and the
\* factory for one.
THEOREM ClientsUseFips == WorkerSpec => [](env.endpoint # "empty" => RealClientsUseFips)
<1>1. WorkerInit => FactoryInv
  BY DEF WorkerInit, StartupInit, NoFactory, FactoryInv
<1>2. WorkerSpec => []FactoryInv
  BY <1>1, FactoryStep, FipsInitially, FipsStep, PTL DEF WorkerSpec
<1>3. StartupTypeOK /\ FactoryInv => (env.endpoint # "empty" => RealClientsUseFips)
  <2> SUFFICES ASSUME StartupTypeOK, FactoryInv, env.endpoint # "empty", factory.made,
                      ~Endpoint(env), ShouldUseFips(env)
               PROVE  factory.fips
    BY DEF RealClientsUseFips
  <2>1. env.endpoint \in {"none", "empty", "url"}
    BY StartupAssumption DEF StartupTypeOK, AnyEnvironment
  <2>2. ~LocalFactory(env)
    BY <2>1 DEF Endpoint, LocalFactory
  <2>3. (ShouldUseFips(env) /\ ~LocalFactory(env)) = TRUE
    BY <2>2
  <2>4. FactoryFor(env) = [local |-> LocalFactory(env), fips |-> TRUE, made |-> TRUE]
    BY <2>3, Zenon DEF FactoryFor
  <2> QED
    BY <2>4 DEF FactoryInv
<1> QED
  BY <1>2, <1>3, WorkerInvariants, PTL

\* What a configured process is given passes every check of its own start-up.
LEMMA ConfiguredPasses ==
  ASSUME Configured, process \in ProcessKind
  PROVE  BaselineValid(env) /\ ~FactoryRaises(env) /\ RuntimeValid(env, process) /\ FipsOK
<1>1. CASE process = "publisher"
  BY <1>1 DEF Configured, RuntimeValid, OutboxMode, FipsOK
<1>2. CASE process = "lambda"
  BY <1>2 DEF Configured, RuntimeValid, ProcessorNames, IsLambda, OutboxMode, Has, FipsOK
<1>3. CASE process = "container"
  BY <1>3 DEF Configured, RuntimeValid, ProcessorNames, OutboxMode, Has, FipsOK
<1> QED
  BY <1>1, <1>2, <1>3 DEF ProcessKind

\* A configured process never leaves its start-up but to serve, unless a call to AWS
\* fails: no order of the checks, and no state an earlier attempt left, turns it away.
THEOREM OnlyFailedCallsStopStartup ==
  WorkerSpec => [][state = "starting" /\ Configured /\ state' \in {"idle", "exited"}
                     => startFaults' = startFaults + 1]_vars
<1> DEFINE Stopped == state = "starting" /\ Configured /\ state' \in {"idle", "exited"}
<1>1. ASSUME FipsInv, [WorkerNext]_vars, Stopped
      PROVE  startFaults' = startFaults + 1
  <2>1. BaselineValid(env) /\ ~FactoryRaises(env) /\ RuntimeValid(env, process) /\ FipsOK
    BY <1>1, ConfiguredPasses DEF FipsInv
  <2>2. ~Passed
    BY <1>1 DEF Passed
  <2>3. ~StartUp
    BY <2>1, <2>2 DEF StartUp, StartupStep, LoadSettings, CheckRuntime, EnforceFips, RemoteCheck,
                      Check, MakeFactory, FipsOK
  <2>4. ~Replace /\ ~WorkMoves /\ ~UNCHANGED <<startVars, workVars>>
    BY <1>1 DEF Replace, Restart, WorkMoves, startVars
  <2>5. StartUpFails
    BY <1>1, <2>3, <2>4, SortsOfStep
  <2> QED
    BY <2>5 DEF StartUpFails, RemoteCheckFails
<1> QED
  BY <1>1, FipsInitially, FipsStep, PTL DEF WorkerSpec

-----------------------------------------------------------------------------
(* What an answer says of the work.                                         *)

\* The event in hand has been validated; the publisher takes its rows unread.
InHandValid == task \notin {"none", "route"} /\ (task = "start" => Consumer) => Valid(event)

\* Which call each task makes: a result needs its event, and what goes through the
\* outbox is not published by the processor itself.
CallsMade ==
  /\ task = "write" => kind = WriteKind /\ (Scanned \/ Valid(Completion))
  /\ task = "record" => kind = (IF OutboxMode(env) THEN "transact" ELSE "save") /\ Valid(Failure)
  /\ task = "publish" => kind = "publish" /\ ~(OutboxMode(env) /\ ~Scanned)
  /\ task = "tell" => ~OutboxMode(env)
  /\ kind = "publish" /\ result = "ok" => effects > 0

RowsValid ==
  \A r \in rows : \E e \in Event :
    r = OutboxRow(e) /\ Valid(e) /\ e.type \in {"ANALYSIS_COMPLETED", "PROCESSING_FAILED"}

\* The inductive invariant: until it is answered, a message has no answer, and an
\* outcome only once it is claimed.
WorkInv ==
  /\ AcknowledgedIsRecorded /\ DiagnosticsWritten
  /\ task # "none" => answer = "none"
  /\ task \in {"start", "route", "read", "claim", "reread"} => outcome = "none"
  /\ InHandValid /\ CallsMade /\ RowsValid

LEMMA SameWork ==
  ASSUME event' = event, UNCHANGED given
  PROVE  /\ Completion' = Completion /\ Failure' = Failure
         /\ WriteKind' = WriteKind /\ Scanned' = Scanned /\ Consumer' = Consumer
         /\ OutboxMode(env)' = OutboxMode(env)
         /\ OutboxRow(Completion)' = OutboxRow(Completion)
         /\ OutboxRow(Failure)' = OutboxRow(Failure)
         /\ Valid(event)' = Valid(event) /\ Valid(Completion)' = Valid(Completion)
         /\ Valid(Failure)' = Valid(Failure)
<1>1. /\ Completion' = Completion /\ Failure' = Failure
      /\ Scanned' = Scanned /\ Consumer' = Consumer /\ OutboxMode(env)' = OutboxMode(env)
  BY DEF Completion, Failure, WithNewEventType, Scanned, Consumer, OutboxMode, Has, given
<1>2. WriteKind' = WriteKind
  BY <1>1 DEF WriteKind
<1>3. /\ OutboxRow(Completion)' = OutboxRow(Completion)
      /\ OutboxRow(Failure)' = OutboxRow(Failure)
  BY <1>1 DEF OutboxRow
<1>4. /\ Valid(event)' = Valid(event) /\ Valid(Completion)' = Valid(Completion)
      /\ Valid(Failure)' = Valid(Failure)
  BY <1>1 DEF Valid
<1> QED
  BY <1>1, <1>2, <1>3, <1>4

LEMMA AnswerKeepsWork ==
  ASSUME WorkInv, NEW o, NEW a, AnswerAfter(o, a), UNCHANGED callVars, RowsValid',
         a = "acknowledged" /\ o = "completed" =>
           /\ result = "ok" /\ effects > 0
           /\ OutboxMode(env) /\ ~Scanned => OutboxRow(Completion) \in rows',
         a \in {"left", "again"} /\ o \in {"rejected", "failed"} /\ OutboxMode(env)
           /\ result = "ok" => OutboxRow(Failure) \in rows'
  PROVE  WorkInv'
<1>1. /\ task' = "none" /\ outcome' = o /\ answer' = a /\ event' = event /\ UNCHANGED given
      /\ UNCHANGED <<kind, result, effects>>
  BY DEF AnswerAfter, callVars
<1>2. AcknowledgedIsRecorded'
  BY <1>1, SameWork DEF AcknowledgedIsRecorded
<1>3. DiagnosticsWritten'
  BY <1>1, SameWork DEF DiagnosticsWritten
<1>4. InHandValid' /\ CallsMade'
  BY <1>1 DEF InHandValid, CallsMade, WorkInv
<1> QED
  BY <1>1, <1>2, <1>3, <1>4 DEF WorkInv

LEMMA MakeKeepsWork ==
  ASSUME WorkInv, Valid(event), answer = "none", RowsValid',
         NEW t \in {"claim", "reread", "write", "publish", "record", "tell"}, NEW k, Make(t, k),
         t \in {"claim", "reread"} => outcome' = "none",
         t = "write" => k = WriteKind /\ (Scanned \/ Valid(Completion)),
         t = "record" =>
           k = (IF OutboxMode(env) THEN "transact" ELSE "save") /\ Valid(Failure),
         t = "publish" => k = "publish" /\ ~(OutboxMode(env) /\ ~Scanned),
         t = "tell" => ~OutboxMode(env)
  PROVE  WorkInv'
<1>1. /\ task' = t /\ kind' = k /\ result' = "pending" /\ answer' = "none"
      /\ event' = event /\ UNCHANGED given
  BY DEF Make, Call, startVars
<1>2. AcknowledgedIsRecorded' /\ DiagnosticsWritten'
  BY <1>1 DEF AcknowledgedIsRecorded, DiagnosticsWritten
<1>3. InHandValid'
  BY <1>1, SameWork DEF InHandValid
<1>4. CallsMade'
  BY <1>1, SameWork DEF CallsMade
<1> QED
  BY <1>1, <1>2, <1>3, <1>4 DEF WorkInv

\* A failure is recorded unless its exception has no text: its event is valid.
LEMMA FailureKeepsWork ==
  ASSUME WorkInv, WorkTypes, Valid(event), answer = "none", RowsValid',
         NEW o \in Failing, HandleFailure(o)
  PROVE  WorkInv'
<1>1. Valid(Failure) /\ Failure.type \in OutboxTypes
  BY OutputEvents DEF Failure, WorkTypes, EventType, Valid, OutboxTypes
<1>2. CASE o # "nameless"
  BY <1>1, <1>2, MakeKeepsWork DEF HandleFailure, FailureValid
<1>3. CASE o = "nameless"
  <2>1. Raise(o) /\ UNCHANGED callVars
    BY <1>3 DEF HandleFailure, FailureValid
  <2>2. AnswerAfter(o, "again")
    BY <1>3, <2>1 DEF Raise
  <2> QED
    BY <1>3, <2>1, <2>2, AnswerKeepsWork
<1> QED
  BY <1>2, <1>3

\* The rows of a result or a failure are those of valid events.
LEMMA RowsStayValid ==
  ASSUME WorkTypes, RowsValid,
         \/ rows' = rows
         \/ rows' = RowsWith(Completion) /\ (kind = "transact" => Valid(Completion))
         \/ rows' = RowsWith(Failure) /\ Valid(Failure)
  PROVE  RowsValid'
<1>1. /\ Completion \in Event /\ Completion.type = "ANALYSIS_COMPLETED"
      /\ Failure \in Event /\ Failure.type = "PROCESSING_FAILED"
  BY OutputEvents DEF Completion, Failure, WorkTypes, EventType
<1> SUFFICES ASSUME NEW r \in rows'
             PROVE  \E e \in Event : /\ r = OutboxRow(e) /\ Valid(e)
                                     /\ e.type \in {"ANALYSIS_COMPLETED", "PROCESSING_FAILED"}
  BY Zenon DEF RowsValid
<1>2. CASE r \in rows
  BY <1>2 DEF RowsValid
<1>3. CASE r \notin rows
  <2>1. \/ r = OutboxRow(Completion) /\ Valid(Completion)
        \/ r = OutboxRow(Failure) /\ Valid(Failure)
    BY <1>3 DEF RowsWith
  <2> QED
    BY <1>1, <2>1
<1> QED
  BY <1>2, <1>3

LEMMA HandleKeepsWork ==
  ASSUME CallInv, WorkTypes, WorkInv, Handle
  PROVE  WorkInv'
<1>1. /\ task \in Task \ {"none", "start", "route"} /\ Valid(event) /\ answer = "none"
      /\ RowsValid
  BY DEF Handle, Read, ReadFails, ClaimFails, ClaimRefused, Reread, Work, Written, WriteFails,
         Published, PublishFails, Recorded, Told, Returned, WorkInv, InHandValid, Task
<1>2. task = "write" /\ kind = "transact" => Valid(Completion)
  BY DEF WorkInv, CallsMade, WriteKind
<1>3. RowsValid'
  <2>1. UNCHANGED rows => RowsValid'
    BY <1>1, RowsStayValid
  <2>2. task = "write" /\ rows' = RowsWith(Completion) => RowsValid'
    BY <1>1, <1>2, RowsStayValid
  <2>3. task = "record" /\ rows' = RowsWith(Failure) => RowsValid'
    BY <1>1, RowsStayValid DEF WorkInv, CallsMade
  <2>4. \/ UNCHANGED rows
        \/ task = "write" /\ rows' = RowsWith(Completion)
        \/ task = "record" /\ rows' = RowsWith(Failure)
    BY DEF Handle, Read, ReadFails, ClaimFails, ClaimRefused, Reread, Work, Written, WriteFails,
           Published, PublishFails, Recorded, Told, Returned
  <2> QED
    BY <2>1, <2>2, <2>3, <2>4
\* Before the work there is no outcome for the answer to speak of.
<1>4. ASSUME NEW a, Answer(a), UNCHANGED callVars, task \in {"read", "claim", "reread"}
      PROVE  WorkInv'
  BY <1>3, <1>4, AnswerKeepsWork DEF Answer, WorkInv
<1>5. CASE Read \/ ReadFails \/ ClaimFails \/ Reread
  <2>1. task \in {"read", "claim", "reread"} /\ outcome = "none"
    BY <1>5 DEF Read, ReadFails, ClaimFails, Reread, Returned, WorkInv
  <2>2. CASE \E a : Answer(a) /\ UNCHANGED callVars
    BY <1>4, <2>1, <2>2
  <2>3. CASE Make("claim", "claim") /\ UNCHANGED outcome
    BY <1>1, <1>3, <2>1, <2>3, MakeKeepsWork
  <2> QED
    BY <1>5, <2>2, <2>3 DEF Read, ReadFails, ClaimFails, Reread, Duplicate
<1>6. CASE ClaimRefused
  <2>1. Make("reread", "read") /\ outcome' = "none"
    BY <1>6 DEF ClaimRefused, Returned, WorkInv
  <2> QED
    BY <1>1, <1>3, <2>1, MakeKeepsWork
<1>7. CASE Work
  <2>1. CASE (Scanned \/ Valid(Completion)) /\ Make("write", WriteKind)
    BY <1>1, <1>3, <2>1, MakeKeepsWork
  <2>2. CASE \E o \in Failing : HandleFailure(o)
    BY <1>1, <1>3, <2>2, FailureKeepsWork
  <2> QED
    BY <1>7, <2>1, <2>2 DEF Work
<1>8. CASE Written
  <2>1. /\ task = "write" /\ result = "ok" /\ kind = WriteKind /\ rows' = RowsWith(Completion)
    BY <1>8 DEF Written, Returned, WorkInv, CallsMade
  <2>2. CASE kind = "save" /\ ~Scanned
    <3>1. Make("publish", "publish") /\ ~OutboxMode(env)
      BY <1>8, <2>1, <2>2 DEF Written, WriteKind
    <3> QED
      BY <1>1, <1>3, <3>1, MakeKeepsWork
  <2>3. CASE ~(kind = "save" /\ ~Scanned)
    <3>1. AnswerAfter(outcome, "acknowledged") /\ UNCHANGED callVars
      BY <1>8, <2>3 DEF Written, Answer
    <3>2. effects > 0
      BY <2>1 DEF CallInv, WriteKind
    <3>3. OutboxMode(env) /\ ~Scanned => OutboxRow(Completion) \in rows'
      BY <2>1, <3>2 DEF RowsWith, WriteKind
    <3> QED
      BY <1>3, <2>1, <3>1, <3>2, <3>3, AnswerKeepsWork
  <2> QED
    BY <2>2, <2>3
<1>9. CASE WriteFails \/ PublishFails
  BY <1>1, <1>3, <1>9, FailureKeepsWork DEF WriteFails, PublishFails, Failing
<1>10. CASE Published
  <2>1. /\ AnswerAfter(outcome, "acknowledged") /\ UNCHANGED callVars
        /\ task = "publish" /\ result = "ok"
    BY <1>10 DEF Published, Answer, Returned
  <2>2. effects > 0 /\ ~(OutboxMode(env) /\ ~Scanned)
    BY <2>1 DEF WorkInv, CallsMade
  <2> QED
    BY <1>3, <2>1, <2>2, AnswerKeepsWork
<1>11. CASE Recorded
  <2>1. /\ task = "record" /\ rows' = RowsWith(Failure)
        /\ kind = IF OutboxMode(env) THEN "transact" ELSE "save"
    BY <1>11 DEF Recorded, WorkInv, CallsMade
  <2>2. CASE kind = "save" /\ result = "ok"
    <3>1. Make("tell", "publish") /\ ~OutboxMode(env)
      BY <1>11, <2>1, <2>2 DEF Recorded
    <3> QED
      BY <1>1, <1>3, <3>1, MakeKeepsWork
  <2>3. CASE ~(kind = "save" /\ result = "ok")
    <3>1. Raise(outcome) /\ UNCHANGED callVars
      BY <1>11, <2>3 DEF Recorded
    <3>2. PICK a \in {"left", "again"} : AnswerAfter(outcome, a)
      BY <3>1 DEF Raise, Left
    <3>3. OutboxMode(env) /\ result = "ok" => OutboxRow(Failure) \in rows'
      BY <2>1 DEF CallInv, RowsWith
    <3> QED
      BY <1>3, <3>1, <3>2, <3>3, AnswerKeepsWork
  <2> QED
    BY <2>2, <2>3
<1>12. CASE Told
  <2>1. PICK a \in {"left", "again"} : AnswerAfter(outcome, a)
    BY <1>12 DEF Told, Raise, Left
  <2>2. UNCHANGED callVars /\ ~OutboxMode(env)
    BY <1>12 DEF Told, WorkInv, CallsMade
  <2> QED
    BY <1>3, <2>1, <2>2, AnswerKeepsWork
<1> QED
  BY <1>5, <1>6, <1>7, <1>8, <1>9, <1>10, <1>11, <1>12 DEF Handle

\* A call in flight is one of a message that is not answered.
LEMMA CallKeepsWork ==
  ASSUME CallInv, FipsInv, WorkInv, CallStep \/ Others
  PROVE  WorkInv'
<1>1. Pending /\ UNCHANGED startVars /\ UNCHANGED workVars /\ kind' = kind
  BY DEF CallStep, Others, Send, SendExecuted, SendReplayed, SendRefused, SendFails, ClaimExpires,
         OtherClaims, OtherReleases, Meanwhile
<1>2. /\ UNCHANGED given /\ event' = event /\ task' = task /\ outcome' = outcome
      /\ rows' = rows /\ answer' = answer /\ answer = "none"
  BY <1>1 DEF startVars, workVars, FipsInv, WorkInv
<1>3. kind = "publish" /\ result' = "ok" => effects' > 0
  BY <1>1 DEF CallStep, Others, Send, SendExecuted, SendReplayed, SendRefused, SendFails, Replayed,
              Condition, Execute, ClaimExpires, OtherClaims, OtherReleases, Meanwhile, Return,
              Transient, Resend, TryAgain, GiveUp, Pending, CallInv, CallTypeOK
<1>4. AcknowledgedIsRecorded' /\ DiagnosticsWritten'
  BY <1>2 DEF AcknowledgedIsRecorded, DiagnosticsWritten
<1>5. InHandValid' /\ RowsValid'
  <2>1. RowsValid'
    BY <1>2 DEF WorkInv, RowsValid
  <2> QED
    BY <1>2, <2>1, SameWork DEF WorkInv, InHandValid
<1>6. CallsMade'
  BY <1>1, <1>2, <1>3, SameWork DEF WorkInv, CallsMade
<1> QED
  BY <1>2, <1>4, <1>5, <1>6 DEF WorkInv

LEMMA BeginKeepsWork ==
  ASSUME WorkInv, NEW e, NEW first \in {"read", "route"}, Begin(e, first),
         first = "read" => Consumer /\ Valid(e), first = "route" => ~Consumer,
         Call("read") \/ UNCHANGED callVars
  PROVE  WorkInv'
<1>1. /\ event' = e /\ outcome' = "none" /\ rows' = {} /\ answer' = "none"
      /\ task' \in {first, "start"} /\ UNCHANGED given
  BY DEF Begin
<1>2. Consumer' = Consumer /\ Valid(event)' = Valid(e)
  BY <1>1 DEF Consumer, given, Valid
<1>3. AcknowledgedIsRecorded' /\ DiagnosticsWritten' /\ RowsValid'
  BY <1>1 DEF AcknowledgedIsRecorded, DiagnosticsWritten, RowsValid
<1>4. InHandValid'
  BY <1>1, <1>2 DEF InHandValid
<1>5. CallsMade'
  <2>1. kind' = "publish" /\ result' = "ok" => effects' > 0
    BY DEF Call, callVars, WorkInv, CallsMade
  <2> QED
    BY <1>1, <2>1 DEF CallsMade
<1> QED
  BY <1>1, <1>3, <1>4, <1>5 DEF WorkInv

LEMMA WorkStep ==
  CallInv /\ FipsInv /\ WorkTypes /\ WorkInv /\ [WorkerNext]_vars => WorkInv'
<1> SUFFICES ASSUME CallInv, FipsInv, WorkTypes, WorkInv, [WorkerNext]_vars
             PROVE  WorkInv'
  OBVIOUS
<1>1. CASE Handle
  BY <1>1, HandleKeepsWork
<1>2. CASE CallStep \/ Others
  BY <1>2, CallKeepsWork
\* What is not work: the answer tells of no outcome.
<1>a. ASSUME NEW a, AnswerAfter("none", a), UNCHANGED callVars, rows' \in {{}, rows}
      PROVE  WorkInv'
  <2>1. RowsValid'
    BY <1>a DEF WorkInv, RowsValid
  <2> QED
    BY <1>a, <2>1, AnswerKeepsWork
<1>3. CASE \E b \in BodiesOf(Input) : Take(b)
  <2>1. PICK b \in BodiesOf(Input) : Take(b)
    BY <1>3
  <2>2. CASE Valid(EventIn(b))
    <3>1. Begin(EventIn(b), "read") /\ (Call("read") \/ UNCHANGED callVars) /\ Consumer
      BY <2>1, <2>2 DEF Take
    <3> QED
      BY <2>2, <3>1, BeginKeepsWork
  <2>3. CASE ~Valid(EventIn(b))
    BY <1>a, <2>1, <2>3 DEF Take
  <2> QED
    BY <2>2, <2>3
<1>4. CASE \E e \in Input : TakeRow(e)
  <2>1. PICK e \in Input : TakeRow(e)
    BY <1>4
  <2>2. ~Consumer /\ UNCHANGED callVars
    BY <2>1 DEF TakeRow, Consumer
  <2>3. CASE RuntimeValid(env, process)
    BY <2>1, <2>2, <2>3, BeginKeepsWork DEF TakeRow
  <2>4. CASE ~RuntimeValid(env, process)
    BY <1>a, <2>1, <2>2, <2>4 DEF TakeRow
  <2> QED
    BY <2>3, <2>4
<1>5. CASE Started
  <2>1. /\ UNCHANGED given /\ UNCHANGED <<event, outcome, rows, answer>>
        /\ task = "start" /\ answer = "none" /\ outcome = "none"
        /\ IF Consumer THEN task' = "read" /\ Call("read")
                       ELSE task' = "route" /\ UNCHANGED callVars
    BY <1>5 DEF Started, startVars, WorkInv
  <2>2. AcknowledgedIsRecorded' /\ DiagnosticsWritten' /\ RowsValid'
    BY <2>1 DEF AcknowledgedIsRecorded, DiagnosticsWritten, WorkInv, RowsValid
  <2>3. InHandValid'
    BY <2>1, SameWork DEF WorkInv, InHandValid
  <2>4. CallsMade'
    <3>1. kind' = "publish" /\ result' = "ok" => effects' > 0
      BY <2>1 DEF Call, callVars, WorkInv, CallsMade
    <3> QED
      BY <2>1, <3>1 DEF CallsMade
  <2> QED
    BY <2>1, <2>2, <2>3, <2>4 DEF WorkInv
<1>6. CASE StartFailed \/ Route
  <2>1. \E a : AnswerAfter("none", a) /\ UNCHANGED callVars /\ UNCHANGED rows
    BY <1>6 DEF StartFailed, Route, Answer, WorkInv
  <2> QED
    BY <1>a, <2>1
<1>7. CASE StartUp \/ StartUpFails \/ Replace \/ UNCHANGED vars
  <2>1. UNCHANGED given /\ UNCHANGED callVars /\ UNCHANGED workVars
    BY <1>7 DEF StartUp, StartUpFails, StartupStep, LoadSettings, CheckRuntime, EnforceFips, Check,
                MakeFactory, RemoteCheck, RemoteCheckFails, Replace, Restart, vars, startVars
  <2>2. AcknowledgedIsRecorded' /\ DiagnosticsWritten'
    BY <2>1, SameWork
    DEF callVars, workVars, WorkInv, AcknowledgedIsRecorded, DiagnosticsWritten
  <2>3. InHandValid' /\ CallsMade'
    BY <2>1, SameWork DEF callVars, workVars, WorkInv, InHandValid, CallsMade
  <2> QED
    BY <2>1, <2>2, <2>3 DEF workVars, WorkInv, RowsValid
<1> QED
  BY <1>1, <1>2, <1>3, <1>4, <1>5, <1>6, <1>7 DEF WorkerNext

THEOREM WorkInvariant == WorkerSpec => []WorkInv
<1>1. WorkerInit => WorkInv
  BY DEF WorkerInit, CallInit, WorkInv, AcknowledgedIsRecorded, DiagnosticsWritten, InHandValid,
         CallsMade, RowsValid
<1> QED
  BY <1>1, WorkStep, WorkerInvariants, PTL DEF WorkerSpec

\* Every row an attempt leaves in the outbox passes the publisher's checks, and
\* both consumers take its event back from the body it is published in.
THEOREM RowsArePublishable == WorkerSpec => []RowsPublishable
<1>1. WorkInv => RowsPublishable
  <2> SUFFICES ASSUME RowsValid, NEW r \in rows
               PROVE  /\ Publishable(r)
                      /\ \A b \in BodiesOf({r.payload}) \ {Confirmation, NotJson} :
                           Valid(ContainerEvent(b)) /\ Valid(LambdaEvent(b))
                      /\ r.payload.type \notin {"FILE_UPLOADED", "FILE_SCANNED"}
    BY Zenon DEF WorkInv, RowsPublishable
  <2>1. PICK e \in Event : /\ r = OutboxRow(e) /\ Valid(e)
                           /\ e.type \in {"ANALYSIS_COMPLETED", "PROCESSING_FAILED"}
    BY DEF RowsValid
  <2>2. r.payload = e /\ r.eventId = e.id /\ r.eventType = e.type
    BY <2>1 DEF OutboxRow
  <2>3. ASSUME NEW b \in BodiesOf({e}), b \notin {Confirmation, NotJson}
        PROVE  Valid(ContainerEvent(b)) /\ Valid(LambdaEvent(b))
    BY <2>1, <2>3, SameEventTaken
  <2> QED
    BY <2>1, <2>2, <2>3 DEF Publishable
<1> QED
  BY <1>1, WorkInvariant, PTL

\* A message whose work is done is acknowledged only after the write that was
\* made for it has taken effect, and its outbox row, where it has one, is there.
THEOREM AcknowledgedWorkIsRecorded == WorkerSpec => []AcknowledgedIsRecorded
<1>1. WorkInv => AcknowledgedIsRecorded
  BY DEF WorkInv
<1> QED
  BY <1>1, WorkInvariant, PTL

\* A failure that has a text, and gets through to the table, leaves its row there.
THEOREM FailuresAreDiagnosed == WorkerSpec => []DiagnosticsWritten
<1>1. WorkInv => DiagnosticsWritten
  BY DEF WorkInv
<1> QED
  BY <1>1, WorkInvariant, PTL
=============================================================================
