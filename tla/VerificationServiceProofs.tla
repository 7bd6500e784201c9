--------------------- MODULE VerificationServiceProofs ---------------------
(***************************************************************************)
(* Proofs about the verification service, for every set of requests,       *)
(* configurers and cancellers and every configuration; in the end, that it *)
(* implements the promise made to its callers.                             *)
(***************************************************************************)
EXTENDS ServicePromise, TLAPS

\* A cancel call that is about to stop a job has found one.
StopsAJob == \A k \in Cancellers : cancelPc[k] = "stop" => found[k] \in Requests

\* The definitions that say what a step does to a single variable.
USE DEF Goto, Return, Plain, Answer, Acquire, Release

LEMMA InitType == Init => TypeOK
<1> SUFFICES ASSUME Init PROVE TypeOK
  OBVIOUS
<1>1. started \in BOOLEAN
  <2>1. InitialConfig.viperServer \in BOOLEAN
    BY ConstantsAssumption DEF Configs
  <2> QED
    BY <2>1, ConstantsAssumption DEF Init
<1>2. ManagerTypeOK
  BY <1>1 DEF Init, ManagerInit, ManagerTypeOK, JobStates
<1>3. config \in Configs /\ resources \in Sizes
  BY ConstantsAssumption DEF Init, Configs
<1> QED
  BY <1>2, <1>3, ConstantsAssumption
  DEF Init, TypeOK, PcValues, Answers, AnswerKinds, Threads, DisableSettings

LEMMA RequestStepType ==
    ASSUME TypeOK, NEW r \in Requests, RequestStep(r)
    PROVE  TypeOK'
<1> USE ConstantsAssumption DEF TypeOK, ManagerTypeOK, managerVars, requestVars, configVars, errorVars,
       cancelVars, PcValues, Locked, Threads
<1>1. CASE Dispatch(r)
  BY <1>1 DEF Dispatch
<1>2. CASE BeginTranslation(r)
  BY <1>2 DEF BeginTranslation, ResetObligations, ClearedItems, DisableSettings
<1>3. CASE Analyze(r)
  BY <1>3 DEF Analyze, DisableSettings
<1>4. CASE Encode(r)
  BY <1>4 DEF Encode, Programs, Configs
<1>5. CASE FailTranslation(r)
  BY <1>5 DEF FailTranslation, Answers, AnswerKinds
<1>6. CASE TakeSnapshot(r)
  BY <1>6 DEF TakeSnapshot, ClearedItems
<1>7. CASE ChooseArgs(r)
  BY <1>7 DEF ChooseArgs, Configs
<1>8. CASE SubmitJob(r)
  BY <1>8 DEF SubmitJob, Submit, Configs, JobStates
<1>9. CASE SubmitRaises(r)
  BY <1>9 DEF SubmitRaises, Answers, AnswerKinds
<1>10. CASE Register(r)
  BY <1>10 DEF Register
<1>11. CASE Await(r)
  BY <1>11 DEF Await
<1>12. CASE Deregister(r)
  <2>1. jobs' \in [Tokens -> Requests \cup {NoJob}]
    BY <1>12 DEF Deregister, Deregistered
  <2>2. UnconvertedAnswer(r) \in Answers
    BY DEF UnconvertedAnswer, Answers, AnswerKinds
  <2> HIDE DEF UnconvertedAnswer, Answers
  <2>3. answer' \in [Requests -> Answers] /\ pc' \in [Requests -> PcValues]
    BY <1>12, <2>2 DEF Deregister
  <2> QED
    BY <1>12, <2>1, <2>3 DEF Deregister
<1>13. CASE InstallSnapshot(r)
  BY <1>13 DEF InstallSnapshot, Installed
<1>14. CASE ConvertErrors(r)
  BY <1>14 DEF ConvertErrors, Converted, ClearedItems, Answers, AnswerKinds, Configs
<1>15. CASE StartBackend(r)
  <2>1. config.backend \in Backends \cup {"none"}
    BY DEF Configs
  <2>2. ManagerTypeOK'
    <3>1. ManagerTypeOK /\ (StartServer \/ RunDirectly(r))
      BY <1>15 DEF StartBackend
    <3>2. CASE StartServer
      BY <3>1, <3>2 DEF StartServer
    <3>3. CASE RunDirectly(r)
      BY <3>1, <3>3 DEF RunDirectly, JobStates
    <3> QED
      BY <3>1, <3>2, <3>3
  <2>3. /\ backendArgs' \in [Requests -> Backends \cup {"none"}]
        /\ submittedTo' \in [Requests -> Backends \cup {"none"}]
    BY <1>15, <2>1 DEF StartBackend
  <2>4. pc' \in [Requests -> PcValues]
    BY <1>15 DEF StartBackend
  <2> QED
    BY <1>15, <2>2, <2>3, <2>4 DEF StartBackend
<1>16. CASE BackendRaises(r)
  BY <1>16 DEF BackendRaises, Answers, AnswerKinds
<1>17. CASE SerialAnswer(r)
  BY <1>17 DEF SerialAnswer, Converted, Answers, AnswerKinds, Configs
<1>18. CASE SubmitSerially(r)
  BY <1>18 DEF SubmitSerially, Submit, JobStates
<1>19. CASE SerialSubmitFails(r)
  BY <1>19 DEF SerialSubmitFails, Answers, AnswerKinds
<1> QED
  BY <1>1, <1>2, <1>3, <1>4, <1>5, <1>6, <1>7, <1>8, <1>9, <1>10, <1>11, <1>12,
     <1>13, <1>14, <1>15, <1>16, <1>17, <1>18, <1>19 DEF RequestStep

LEMMA EnvironmentType ==
    ASSUME TypeOK, NEW r \in Requests, Finishes(r) \/ Stops(r)
    PROVE  TypeOK'
BY OutcomesAssumption
DEF TypeOK, ManagerTypeOK, Finishes, Stops, BackendFinishes, StopDelivered, JobStates,
    Endings, serviceVars, requestVars, configVars, errorVars, cancelVars

LEMMA ConfigStepType ==
    ASSUME TypeOK, NEW c \in Configurers, ConfigStep(c)
    PROVE  TypeOK'
<1> USE ConstantsAssumption
    DEF TypeOK, ManagerTypeOK, managerVars, requestVars, errorVars, cancelVars, Threads
<1>1. CASE LockConfig(c)
  BY <1>1 DEF LockConfig
<1>2. CASE AssignLive(c)
  BY <1>2 DEF AssignLive, Configs
<1>3. CASE AssignResources(c)
  BY <1>3 DEF AssignResources, Configs
<1>4. CASE Reload(c)
  BY <1>4 DEF Reload, Configs
<1> QED
  BY <1>1, <1>2, <1>3, <1>4 DEF ConfigStep

LEMMA CancelStepType ==
    ASSUME TypeOK, StopsAJob, NEW k \in Cancellers, CancelStep(k)
    PROVE  TypeOK' /\ StopsAJob'
<1> USE ConstantsAssumption
    DEF TypeOK, StopsAJob, ManagerTypeOK, managerVars, requestVars, configVars, errorVars
<1>1. CASE CancelLookup(k)
  BY <1>1 DEF CancelLookup, Looked, TellStopAll
<1>2. CASE CancelStop(k)
  BY <1>2 DEF CancelStop, TellStop
<1> QED
  BY <1>1, <1>2 DEF CancelStep

LEMMA ShutdownType == TypeOK /\ Shutdown => TypeOK'
<1> SUFFICES ASSUME TypeOK, Shutdown PROVE TypeOK'
  OBVIOUS
<1>1. started' \in BOOLEAN /\ jobState' \in [Requests -> JobStates] /\ stopSent' = stopSent
  BY DEF Shutdown, StopServer, TypeOK, ManagerTypeOK, JobStates, Endings
<1> QED
  BY <1>1
  DEF Shutdown, TypeOK, ManagerTypeOK, requestVars, configVars, errorVars, cancelVars

LEMMA StutterType == TypeOK /\ UNCHANGED vars => TypeOK'
BY DEF TypeOK, ManagerTypeOK, vars, managerVars, requestVars, configVars, errorVars,
       cancelVars

\* Every variable keeps its type, and so every lookup in a table of requests,
\* tokens or threads finds an entry.
THEOREM TypeCorrect == Spec => []TypeOK
<1> DEFINE Inv == TypeOK /\ StopsAJob
<1>1. Init => Inv
  BY InitType DEF Init, StopsAJob
<1>2. Inv /\ [Next \/ Idle]_vars => Inv'
  <2> SUFFICES ASSUME Inv, [Next \/ Idle]_vars PROVE Inv'
    OBVIOUS
  <2>1. CASE \E k \in Cancellers : CancelStep(k)
    BY <2>1, CancelStepType
  <2>2. ASSUME ~ \E k \in Cancellers : CancelStep(k) PROVE TypeOK'
    BY <2>2, RequestStepType, EnvironmentType, ConfigStepType, ShutdownType, StutterType
    DEF Next, Idle
  <2>3. ASSUME ~ \E k \in Cancellers : CancelStep(k) PROVE UNCHANGED cancelVars
    <3>1. ASSUME NEW r \in Requests, RequestStep(r) PROVE UNCHANGED cancelVars
      BY <3>1 DEF RequestStep, Dispatch, BeginTranslation, Analyze, Encode,
         FailTranslation, TakeSnapshot, ChooseArgs, SubmitJob, SubmitRaises, Register,
         Await, Deregister, InstallSnapshot, ConvertErrors, StartBackend, BackendRaises,
         SubmitSerially, SerialSubmitFails, SerialAnswer
    <3>2. ASSUME NEW c \in Configurers, ConfigStep(c) PROVE UNCHANGED cancelVars
      BY <3>2 DEF ConfigStep, LockConfig, AssignLive, AssignResources, Reload
    <3> QED
      BY <2>3, <3>1, <3>2 DEF Next, Idle, Finishes, Stops, serviceVars, Shutdown, vars
  <2> QED
    BY <2>1, <2>2, <2>3 DEF StopsAJob, cancelVars
<1> QED
  BY <1>1, <1>2, PTL DEF Spec

----------------------------------------------------------------------------
(* The state lock                                                          *)

Reconfiguring == {"live", "resources", "reload"}

\* A thread is in its critical section exactly when it holds the state lock,
\* so there is at most one.
LockHeld ==
    /\ \A r \in Requests : pc[r] \in Locked <=> stateLock = r
    /\ \A c \in Configurers : configPc[c] \in Reconfiguring <=> stateLock = c

LEMMA LockHeldStep == TypeOK /\ LockHeld /\ [Next \/ Idle]_vars => LockHeld'
<1> SUFFICES ASSUME TypeOK, LockHeld, [Next \/ Idle]_vars PROVE LockHeld'
  OBVIOUS
<1> USE ConstantsAssumption
    DEF TypeOK, LockHeld, Locked, Reconfiguring, Threads, requestVars, configVars
<1>1. ASSUME NEW r \in Requests, RequestStep(r) PROVE LockHeld'
  <2>1. CASE BeginTranslation(r) \/ InstallSnapshot(r)
    BY <2>1 DEF BeginTranslation, InstallSnapshot
  <2>2. CASE Analyze(r) \/ Encode(r) \/ StartBackend(r) \/ SubmitSerially(r)
    BY <2>2 DEF Analyze, Encode, StartBackend, SubmitSerially
  <2>3. CASE FailTranslation(r) \/ TakeSnapshot(r) \/ ConvertErrors(r)
             \/ BackendRaises(r) \/ SerialSubmitFails(r) \/ SerialAnswer(r)
    BY <2>3 DEF FailTranslation, TakeSnapshot, ConvertErrors, BackendRaises,
       SerialSubmitFails, SerialAnswer
  <2>4. CASE Dispatch(r) \/ ChooseArgs(r) \/ SubmitJob(r) \/ SubmitRaises(r)
             \/ Register(r) \/ Await(r) \/ Deregister(r)
    BY <2>4 DEF Dispatch, ChooseArgs, SubmitJob, SubmitRaises, Register, Await, Deregister
  <2> QED
    BY <1>1, <2>1, <2>2, <2>3, <2>4 DEF RequestStep
<1>2. ASSUME NEW c \in Configurers, ConfigStep(c) PROVE LockHeld'
  BY <1>2 DEF ConfigStep, LockConfig, AssignLive, AssignResources, Reload
<1>3. CASE UNCHANGED <<requestVars, stateLock, configVars>>
  BY <1>3
<1> QED
  BY <1>1, <1>2, <1>3 DEF Next, Idle, Finishes, Stops, serviceVars, CancelStep,
     CancelLookup, CancelStop, Shutdown, vars

\* At most one thread works on the global state of the translator.
THEOREM LockIsHeld == Spec => []LockHeld
<1>1. Init => LockHeld
  BY ConstantsAssumption DEF Init, LockHeld, Locked, Reconfiguring, Threads
<1> QED
  BY <1>1, LockHeldStep, TypeCorrect, PTL DEF Spec

----------------------------------------------------------------------------
(* Back-translation                                                        *)

\* What the error manager holds while a thread works on it ...
ItemsHeld ==
    \A r \in Requests :
        /\ pc[r] \in {"analyze", "encode"} => items = {}
        /\ pc[r] \in {"snapshot", "backend", "serialSubmit", "serialAwait", "convert"}
             => items = {r}

\* ... and what a request on the concurrent path has taken from it.
SnapshotsHeld ==
    \A r \in Requests :
        pc[r] \in {"args", "submit", "register", "await", "deregister", "convertQueued",
                  "convert"} => snapshot[r] = {r}

Isolation == LockHeld /\ ItemsHeld /\ SnapshotsHeld /\ ErrorsAreOwn

LEMMA IsolationStep == TypeOK /\ Isolation /\ [Next \/ Idle]_vars => Isolation'
<1> SUFFICES ASSUME TypeOK, Isolation, [Next \/ Idle]_vars PROVE Isolation'
  OBVIOUS
<1>1. LockHeld'
  BY LockHeldStep DEF Isolation
<1>2. ASSUME NEW r \in Requests, RequestStep(r)
      PROVE  ItemsHeld' /\ SnapshotsHeld' /\ ErrorsAreOwn'
  <2> USE DEF TypeOK, Isolation, LockHeld, Locked, ItemsHeld, SnapshotsHeld, ErrorsAreOwn,
              errorVars, ClearedItems
  <2>1. CASE BeginTranslation(r)
    BY <2>1, <1>1, ConstantsAssumption DEF BeginTranslation, Threads
  <2>2. CASE InstallSnapshot(r)
    BY <2>2, <1>1, ConstantsAssumption DEF InstallSnapshot, Installed, Threads
  <2>3. CASE Analyze(r) \/ Encode(r) \/ StartBackend(r) \/ SubmitSerially(r)
    BY <2>3, <1>1 DEF Analyze, Encode, StartBackend, SubmitSerially
  <2>4. CASE FailTranslation(r) \/ BackendRaises(r) \/ SerialSubmitFails(r)
    BY <2>4, <1>1 DEF FailTranslation, BackendRaises, SerialSubmitFails
  <2>5. CASE TakeSnapshot(r)
    BY <2>5, <1>1 DEF TakeSnapshot
  <2>6. CASE ConvertErrors(r) \/ SerialAnswer(r)
    BY <2>6, <1>1 DEF ConvertErrors, SerialAnswer, Converted
  <2>7. CASE Dispatch(r) \/ ChooseArgs(r) \/ SubmitJob(r) \/ Register(r) \/ Await(r)
    BY <2>7 DEF Dispatch, ChooseArgs, SubmitJob, Register, Await
  <2>8. CASE SubmitRaises(r) \/ Deregister(r)
    BY <2>8 DEF SubmitRaises, Deregister, UnconvertedAnswer
  <2> QED
    BY <1>2, <2>1, <2>2, <2>3, <2>4, <2>5, <2>6, <2>7, <2>8 DEF RequestStep
<1>3. CASE UNCHANGED <<requestVars, errorVars>>
  BY <1>1, <1>3 DEF Isolation, ItemsHeld, SnapshotsHeld, ErrorsAreOwn, requestVars, errorVars
<1>4. ASSUME NEW r \in Requests, Finishes(r) \/ Stops(r)
      PROVE  UNCHANGED <<requestVars, errorVars>>
  BY <1>4 DEF Finishes, Stops, serviceVars
<1>5. ASSUME NEW c \in Configurers, ConfigStep(c) PROVE UNCHANGED <<requestVars, errorVars>>
  BY <1>5 DEF ConfigStep, LockConfig, AssignLive, AssignResources, Reload
<1>6. ASSUME NEW k \in Cancellers, CancelStep(k) PROVE UNCHANGED <<requestVars, errorVars>>
  BY <1>6 DEF CancelStep, CancelLookup, CancelStop
<1>7. CASE Shutdown \/ UNCHANGED vars
  BY <1>3, <1>7 DEF Shutdown, vars
<1> QED
  BY <1>1, <1>2, <1>3, <1>4, <1>5, <1>6, <1>7 DEF Isolation, Next, Idle

LEMMA IsolationInvariant == Spec => []Isolation
<1>1. Init => Isolation
  BY ConstantsAssumption DEF Init, Isolation, LockHeld, Locked, Reconfiguring, Threads,
     ItemsHeld, SnapshotsHeld, ErrorsAreOwn
<1> QED
  BY <1>1, IsolationStep, TypeCorrect, PTL DEF Spec

\* Whatever other requests do to the global error manager in between, the
\* errors a verify call returns are back-translated to its own program.
THEOREM ErrorsStayOwn == Spec => []ErrorsAreOwn
BY IsolationInvariant, PTL DEF Isolation

----------------------------------------------------------------------------
(* The obligation setting                                                  *)

\* What the global setting is while a thread translates a program.
SettingHeld ==
    \A r \in Requests :
        /\ pc[r] = "analyze" => disableAll = InitialDisableAll
        /\ pc[r] = "encode" => (disableAll # "true" <=> WantsObligations(r))

Encoding == LockHeld /\ SettingHeld /\ ObligationsAreOwn

LEMMA EncodingStep == TypeOK /\ Encoding /\ [Next \/ Idle]_vars => Encoding'
<1> SUFFICES ASSUME TypeOK, Encoding, [Next \/ Idle]_vars PROVE Encoding'
  OBVIOUS
<1>1. LockHeld'
  BY LockHeldStep DEF Encoding
<1>2. ASSUME NEW r \in Requests, RequestStep(r) PROVE SettingHeld' /\ ObligationsAreOwn'
  <2> USE DEF TypeOK, Encoding, LockHeld, Locked, SettingHeld, ObligationsAreOwn,
              WantsObligations
  <2>1. CASE BeginTranslation(r)
    BY <2>1, <1>1, ConstantsAssumption DEF BeginTranslation, ResetObligations, Threads
  <2>2. CASE Analyze(r)
    BY <2>2, <1>1, ConstantsAssumption DEF Analyze, DisableSettings
  <2>3. CASE Encode(r)
    <3>1. program'[r].obligations <=> WantsObligations(r)
      <4>1. program'[r].obligations = (disableAll # "true")
        BY <2>3 DEF Encode
      <4> QED
        BY <2>3, <4>1 DEF Encode
    <3>2. \A q \in Requests : q # r => program'[q] = program[q] /\ pc'[q] \notin Locked
      BY <2>3, <1>1 DEF Encode
    <3>3. pc'[r] \in {"backend", "snapshot"}
      BY <2>3 DEF Encode
    <3> QED
      BY <3>1, <3>2, <3>3
  <2>4. CASE InstallSnapshot(r)
    BY <2>4, <1>1, ConstantsAssumption DEF InstallSnapshot, Threads
  <2>5. CASE FailTranslation(r) \/ TakeSnapshot(r) \/ ConvertErrors(r)
             \/ StartBackend(r) \/ BackendRaises(r) \/ SubmitSerially(r)
             \/ SerialSubmitFails(r) \/ SerialAnswer(r)
    BY <2>5, <1>1
    DEF FailTranslation, TakeSnapshot, ConvertErrors, StartBackend, BackendRaises,
        SubmitSerially, SerialSubmitFails, SerialAnswer
  <2>6. CASE Dispatch(r) \/ ChooseArgs(r) \/ SubmitJob(r) \/ SubmitRaises(r)
             \/ Register(r) \/ Await(r) \/ Deregister(r)
    BY <2>6 DEF Dispatch, ChooseArgs, SubmitJob, SubmitRaises, Register, Await, Deregister
  <2> QED
    BY <1>2, <2>1, <2>2, <2>3, <2>4, <2>5, <2>6 DEF RequestStep
<1>3. CASE UNCHANGED <<requestVars, disableAll>>
  BY <1>1, <1>3 DEF Encoding, SettingHeld, ObligationsAreOwn, WantsObligations, requestVars
<1>4. ASSUME NEW r \in Requests, Finishes(r) \/ Stops(r)
      PROVE  UNCHANGED <<requestVars, disableAll>>
  BY <1>4 DEF Finishes, Stops, serviceVars
<1>5. ASSUME NEW c \in Configurers, ConfigStep(c) PROVE UNCHANGED <<requestVars, disableAll>>
  BY <1>5 DEF ConfigStep, LockConfig, AssignLive, AssignResources, Reload
<1>6. ASSUME NEW k \in Cancellers, CancelStep(k) PROVE UNCHANGED <<requestVars, disableAll>>
  BY <1>6 DEF CancelStep, CancelLookup, CancelStop
<1>7. CASE Shutdown \/ UNCHANGED vars
  BY <1>3, <1>7 DEF Shutdown, vars
<1> QED
  BY <1>1, <1>2, <1>3, <1>4, <1>5, <1>6, <1>7 DEF Encoding, Next, Idle

\* Whichever programs the service has verified before, a program is encoded
\* with obligations if and only if it uses them or they were forced on.
THEOREM ObligationsStayOwn == Spec => []ObligationsAreOwn
<1>1. Init => Encoding
  BY ConstantsAssumption DEF Init, Encoding, LockHeld, Locked, Reconfiguring, Threads,
     SettingHeld, ObligationsAreOwn
<1>2. Encoding => ObligationsAreOwn
  BY DEF Encoding
<1> QED
  BY <1>1, <1>2, EncodingStep, TypeCorrect, PTL DEF Spec

----------------------------------------------------------------------------
(* The registry and cancellation                                           *)

\* The job a cancel call is about to stop was registered under its token.
LookupsHeld ==
    \A k \in Cancellers : cancelPc[k] = "stop" =>
        /\ found[k] \in Requests
        /\ Token[found[k]] = Target[k]

Registry == RegisteredIsInFlight /\ LookupsHeld /\ CancelIsPrecise

LEMMA RegistryStep == TypeOK /\ Registry /\ [Next \/ Idle]_vars => Registry'
<1> SUFFICES ASSUME TypeOK, Registry, [Next \/ Idle]_vars PROVE Registry'
  OBVIOUS
<1> USE DEF TypeOK, ManagerTypeOK, Registry, RegisteredIsInFlight, LookupsHeld,
            CancelIsPrecise
<1>1. ASSUME NEW r \in Requests, RequestStep(r) PROVE Registry'
  <2>1. UNCHANGED <<cancelVars, stopSent>>
    BY <1>1 DEF RequestStep, Dispatch, BeginTranslation, Analyze, Encode,
       FailTranslation, TakeSnapshot, ChooseArgs, SubmitJob, SubmitRaises, Register,
       Await, Deregister, InstallSnapshot, ConvertErrors, StartBackend, BackendRaises,
       SubmitSerially, SerialSubmitFails, SerialAnswer, Submit, StartServer, RunDirectly,
       managerVars
  <2>2. CASE Register(r)
    BY <2>1, <2>2, ConstantsAssumption DEF Register, cancelVars
  <2>3. CASE Deregister(r)
    BY <2>1, <2>3, ConstantsAssumption DEF Deregister, Deregistered, cancelVars
  <2>4. ASSUME jobs' = jobs, pc[r] # "deregister", pc[r] = "await" => pc'[r] = "deregister",
               \E l \in PcValues : pc' = [pc EXCEPT ![r] = l]
        PROVE  Registry'
    BY <2>1, <2>4 DEF cancelVars
  <2>5. CASE Dispatch(r) \/ BeginTranslation(r) \/ Analyze(r) \/ Encode(r)
             \/ FailTranslation(r) \/ TakeSnapshot(r) \/ ChooseArgs(r)
             \/ SubmitJob(r) \/ SubmitRaises(r) \/ Await(r) \/ InstallSnapshot(r)
             \/ ConvertErrors(r) \/ StartBackend(r) \/ BackendRaises(r)
             \/ SubmitSerially(r) \/ SerialSubmitFails(r) \/ SerialAnswer(r)
    BY <2>4, <2>5
    DEF Dispatch, BeginTranslation, Analyze, Encode, FailTranslation, TakeSnapshot,
        ChooseArgs, SubmitJob, SubmitRaises, Await, InstallSnapshot, ConvertErrors,
        StartBackend, BackendRaises, SubmitSerially, SerialSubmitFails, SerialAnswer,
        PcValues, Locked
  <2> QED
    BY <1>1, <2>2, <2>3, <2>5 DEF RequestStep
<1>2. ASSUME NEW k \in Cancellers, CancelLookup(k) PROVE Registry'
  BY <1>2, ConstantsAssumption DEF CancelLookup, Looked, TellStopAll, managerVars, requestVars
<1>3. ASSUME NEW k \in Cancellers, CancelStop(k) PROVE Registry'
  BY <1>3 DEF CancelStop, TellStop, requestVars
<1>4. CASE UNCHANGED <<requestVars, jobs, cancelVars, stopSent>>
  BY <1>4 DEF requestVars, cancelVars
<1>5. ASSUME NEW r \in Requests, Finishes(r) \/ Stops(r)
      PROVE  UNCHANGED <<requestVars, jobs, cancelVars, stopSent>>
  BY <1>5 DEF Finishes, Stops, BackendFinishes, StopDelivered, serviceVars
<1>6. ASSUME NEW c \in Configurers, ConfigStep(c)
      PROVE  UNCHANGED <<requestVars, jobs, cancelVars, stopSent>>
  BY <1>6 DEF ConfigStep, LockConfig, AssignLive, AssignResources, Reload, managerVars
<1>7. CASE Shutdown \/ UNCHANGED vars
  BY <1>4, <1>7 DEF Shutdown, StopServer, managerVars, vars
<1> QED
  BY <1>1, <1>2, <1>3, <1>4, <1>5, <1>6, <1>7 DEF Next, Idle, CancelStep

LEMMA RegistryInvariant == Spec => []Registry
<1>1. Init => Registry
  BY ConstantsAssumption DEF Init, ManagerInit, Registry, RegisteredIsInFlight, LookupsHeld,
     CancelIsPrecise
<1> QED
  BY <1>1, RegistryStep, TypeCorrect, PTL DEF Spec

\* An entry of the registry always names a job in flight, under its own token.
THEOREM RegistryIsInFlight == Spec => []RegisteredIsInFlight
BY RegistryInvariant, PTL DEF Registry

\* Nobody's job is stopped except on behalf of a cancel call that meant it.
THEOREM CancellationIsPrecise == Spec => []CancelIsPrecise
BY RegistryInvariant, PTL DEF Registry

\* A run never removes the registration of another run that uses its token.
THEOREM OnlyOwnersUnregister == Spec => OnlyOwnerUnregisters
<1> DEFINE Removes(t) == jobs[t] # NoJob /\ jobs'[t] = NoJob
           Owned == \A t \in Tokens : Removes(t) =>
                        pc[jobs[t]] = "deregister" /\ pc'[jobs[t]] # "deregister"
<1>1. TypeOK /\ TypeOK' /\ [Next \/ Idle]_vars => [Owned]_vars
  <2> SUFFICES ASSUME TypeOK, [Next \/ Idle]_vars, NEW t \in Tokens, Removes(t)
               PROVE  pc[jobs[t]] = "deregister" /\ pc'[jobs[t]] # "deregister"
    OBVIOUS
  <2>1. jobs' # jobs
    OBVIOUS
  <2>2. ASSUME NEW r \in Requests, RequestStep(r) PROVE Register(r) \/ Deregister(r)
    BY <2>1, <2>2 DEF RequestStep, Dispatch, BeginTranslation, Analyze, Encode,
       FailTranslation, TakeSnapshot, ChooseArgs, SubmitJob, SubmitRaises, Await,
       InstallSnapshot, ConvertErrors, StartBackend, BackendRaises, SubmitSerially,
       SerialSubmitFails, SerialAnswer
  <2>3. ASSUME NEW r \in Requests, Register(r) PROVE FALSE
    BY <2>3, ConstantsAssumption DEF Register, TypeOK
  <2>4. ASSUME NEW r \in Requests, Deregister(r)
        PROVE  pc[jobs[t]] = "deregister" /\ pc'[jobs[t]] # "deregister"
    BY <2>4, ConstantsAssumption DEF Deregister, Deregistered, TypeOK
  <2>5. \E r \in Requests : RequestStep(r)
    BY <2>1 DEF Next, Idle, Finishes, Stops, serviceVars, ConfigStep, LockConfig,
       AssignLive, AssignResources, Reload, CancelStep, CancelLookup, CancelStop,
       Shutdown, vars
  <2> QED
    BY <2>2, <2>3, <2>4, <2>5
<1> QED
  BY <1>1, TypeCorrect, PTL DEF Spec, OnlyOwnerUnregisters

----------------------------------------------------------------------------
(* Reconfiguration                                                         *)

\* While a request holds the lock and rests, the global state of the
\* translator rests too.
THEOREM LockProtects == Spec => LockProtectsGlobals
<1> DEFINE Protected == \A r \in Requests :
               stateLock = r /\ stateLock' = r /\ pc'[r] = pc[r] =>
                   UNCHANGED <<config, resources, disableAll, items>>
<1>1. TypeOK /\ LockHeld /\ [Next \/ Idle]_vars => [Protected]_vars
  <2> SUFFICES ASSUME TypeOK, LockHeld, [Next \/ Idle]_vars, NEW r \in Requests,
                      stateLock = r, stateLock' = r, pc'[r] = pc[r]
               PROVE  UNCHANGED <<config, resources, disableAll, items>>
    OBVIOUS
  <2> USE ConstantsAssumption DEF TypeOK, LockHeld, Locked, Reconfiguring, Threads
  <2>1. ASSUME NEW q \in Requests, RequestStep(q)
        PROVE  UNCHANGED <<config, resources, disableAll, items>>
    <3>1. CASE q = r
      BY <2>1, <3>1 DEF RequestStep, Dispatch, BeginTranslation, Analyze, Encode,
         FailTranslation, TakeSnapshot, ChooseArgs, SubmitJob, SubmitRaises, Register,
         Await, Deregister, InstallSnapshot, ConvertErrors, StartBackend, BackendRaises,
         SubmitSerially, SerialSubmitFails, SerialAnswer
    <3>2. CASE q # r
      BY <2>1, <3>2 DEF RequestStep, Dispatch, BeginTranslation, Analyze, Encode,
         FailTranslation, TakeSnapshot, ChooseArgs, SubmitJob, SubmitRaises, Register,
         Await, Deregister, InstallSnapshot, ConvertErrors, StartBackend, BackendRaises,
         SubmitSerially, SerialSubmitFails, SerialAnswer, configVars, errorVars
    <3> QED
      BY <3>1, <3>2
  <2>2. ASSUME NEW c \in Configurers, ConfigStep(c) PROVE FALSE
    BY <2>2 DEF ConfigStep, LockConfig, AssignLive, AssignResources, Reload
  <2> QED
    BY <2>1, <2>2 DEF Next, Idle, Finishes, Stops, serviceVars, CancelStep, CancelLookup,
       CancelStop, Shutdown, vars, configVars, errorVars
<1> QED
  BY <1>1, TypeCorrect, LockIsHeld, PTL DEF Spec, LockProtectsGlobals

\* Only a reconfigure call that is about to reload has let them diverge.
ResourcesHeld ==
    (\A c \in Configurers : configPc[c] # "reload") => resources = config.size

\* When every size can be loaded, the loaded Silver resources are those of the
\* current options whenever no reconfigure call is under way.
THEOREM ResourcesFollowOptions ==
    ASSUME BadSizes = {}
    PROVE  Spec => []ResourcesMatchOptions
<1>1. Init => ResourcesHeld
  BY DEF Init, ResourcesHeld
<1>2. TypeOK /\ LockHeld /\ ResourcesHeld /\ [Next \/ Idle]_vars => ResourcesHeld'
  <2> SUFFICES ASSUME TypeOK, LockHeld, ResourcesHeld, [Next \/ Idle]_vars
               PROVE  ResourcesHeld'
    OBVIOUS
  <2>1. ASSUME NEW c \in Configurers, ConfigStep(c) PROVE ResourcesHeld'
    <3> USE ConstantsAssumption DEF TypeOK, LockHeld, Reconfiguring, ResourcesHeld, Configs
    <3>1. \A d \in Configurers : configPc[d] = "reload" /\ configPc[c] # "idle" => d = c
      BY <2>1 DEF ConfigStep, LockConfig, AssignLive, AssignResources, Reload
    <3>2. CASE LockConfig(c)
      BY <3>2 DEF LockConfig
    <3>3. CASE AssignLive(c)
      BY <3>3, <3>1 DEF AssignLive
    <3>4. CASE AssignResources(c)
      BY <3>4, <3>1 DEF AssignResources, ReloadNeeded
    <3>5. CASE Reload(c)
      BY <3>5 DEF Reload
    <3> QED
      BY <2>1, <3>2, <3>3, <3>4, <3>5 DEF ConfigStep
  <2>2. CASE UNCHANGED configVars
    BY <2>2 DEF ResourcesHeld, configVars
  <2>3. ASSUME NEW r \in Requests, RequestStep(r) PROVE UNCHANGED configVars
    BY <2>3 DEF RequestStep, Dispatch, BeginTranslation, Analyze, Encode,
       FailTranslation, TakeSnapshot, ChooseArgs, SubmitJob, SubmitRaises, Register,
       Await, Deregister, InstallSnapshot, ConvertErrors, StartBackend, BackendRaises,
       SubmitSerially, SerialSubmitFails, SerialAnswer
  <2> QED
    BY <2>1, <2>2, <2>3 DEF Next, Idle, Finishes, Stops, serviceVars, CancelStep,
       CancelLookup, CancelStop, Shutdown, vars
<1>3. TypeOK /\ LockHeld /\ ResourcesHeld => ResourcesMatchOptions
  BY ConstantsAssumption
  DEF TypeOK, LockHeld, Reconfiguring, ResourcesHeld, ResourcesMatchOptions, Threads
<1> QED
  BY <1>1, <1>2, <1>3, TypeCorrect, LockIsHeld, PTL DEF Spec

----------------------------------------------------------------------------
(* The promise, provided that ViperServer never completes a job with null: *)
(* the serial path would take that for a success.                          *)

HIDE DEF Plain, Answer

Waiting == {"register", "await", "serialAwait"}
BeforeJob == {"idle", "queued", "analyze", "encode", "snapshot", "backend", "args",
              "submit", "serialSubmit"}

\* How far a request's job is, by where its thread is, and that a request is
\* answered when its thread returns and not earlier.
JobsHeld ==
    \A r \in Requests :
        /\ pc[r] # "done" => answer[r] = Plain("none")
        /\ pc[r] \in BeforeJob => jobState[r] = "none"
        /\ jobState[r] \in {"running", "direct"} => pc[r] \in Waiting
        /\ pc[r] = "deregister" => Ended(r)
        /\ pc[r] \in {"convertQueued", "convert"} => jobState[r] = "failure"
        /\ jobState[r] # "null"

LEMMA JobsHeldStep ==
    ASSUME "null" \notin Outcomes
    PROVE  TypeOK /\ JobsHeld /\ [Next \/ Idle]_vars => JobsHeld'
<1> SUFFICES ASSUME TypeOK, JobsHeld, [Next \/ Idle]_vars PROVE JobsHeld'
  OBVIOUS
<1> USE DEF TypeOK, ManagerTypeOK, JobsHeld, Waiting, BeforeJob, Ended, Endings
<1>1. ASSUME NEW r \in Requests, RequestStep(r) PROVE JobsHeld'
  <2>1. CASE Dispatch(r) \/ BeginTranslation(r) \/ Analyze(r) \/ Encode(r)
             \/ TakeSnapshot(r) \/ ChooseArgs(r)
    BY <2>1 DEF Dispatch, BeginTranslation, Analyze, Encode, TakeSnapshot, ChooseArgs,
       managerVars
  <2>2. CASE FailTranslation(r) \/ SubmitRaises(r) \/ BackendRaises(r)
             \/ SerialSubmitFails(r)
    BY <2>2 DEF FailTranslation, SubmitRaises, BackendRaises, SerialSubmitFails, managerVars
  <2>3. CASE SubmitJob(r) \/ SubmitSerially(r)
    BY <2>3 DEF SubmitJob, SubmitSerially, Submit
  <2>4. CASE Register(r) \/ Await(r)
    BY <2>4 DEF Register, Await, managerVars
  <2>5. CASE Deregister(r)
    BY <2>5 DEF Deregister, managerVars
  <2>6. CASE InstallSnapshot(r) \/ ConvertErrors(r) \/ SerialAnswer(r)
    BY <2>6 DEF InstallSnapshot, ConvertErrors, SerialAnswer, managerVars
  <2>7. CASE StartBackend(r)
    BY <2>7 DEF StartBackend, StartServer, RunDirectly
  <2> QED
    BY <1>1, <2>1, <2>2, <2>3, <2>4, <2>5, <2>6, <2>7 DEF RequestStep
<1>2. ASSUME NEW r \in Requests, Finishes(r) \/ Stops(r) PROVE JobsHeld'
  BY <1>2, OutcomesAssumption
  DEF Finishes, Stops, BackendFinishes, StopDelivered, serviceVars, requestVars
<1>3. CASE Shutdown
  BY <1>3 DEF Shutdown, StopServer, requestVars
<1>4. CASE UNCHANGED <<requestVars, jobState>>
  BY <1>4 DEF requestVars
<1>5. ASSUME NEW c \in Configurers, ConfigStep(c) PROVE UNCHANGED <<requestVars, jobState>>
  BY <1>5 DEF ConfigStep, LockConfig, AssignLive, AssignResources, Reload, managerVars
<1>6. ASSUME NEW k \in Cancellers, CancelStep(k) PROVE UNCHANGED <<requestVars, jobState>>
  BY <1>6 DEF CancelStep, CancelLookup, CancelStop, TellStop, TellStopAll, managerVars
<1>7. CASE UNCHANGED vars
  BY <1>4, <1>7 DEF vars, managerVars
<1> QED
  BY <1>1, <1>2, <1>3, <1>4, <1>5, <1>6, <1>7 DEF Next, Idle

LEMMA JobsHeldInvariant ==
    ASSUME "null" \notin Outcomes
    PROVE  Spec => []JobsHeld
<1>1. Init => JobsHeld
  <2> SUFFICES ASSUME Init, NEW r \in Requests
               PROVE  pc[r] = "idle" /\ jobState[r] = "none" /\ answer[r] = Plain("none")
    BY DEF JobsHeld, Waiting, BeforeJob
  <2> QED
    BY DEF Init, ManagerInit
<1>2. TypeOK /\ JobsHeld /\ [Next \/ Idle]_vars => JobsHeld'
  BY JobsHeldStep
<1> QED
  BY <1>1, <1>2, TypeCorrect, PTL DEF Spec

\* What r may be answered, given what has become of its job.
Justified(r, a) ==
    \/ jobState[r] = "none"
       /\ a \in {Plain("translationFailed"), Plain("raised"), Plain("verifierError")}
    \/ jobState[r] = "success" /\ a = Plain("success")
    \/ jobState[r] = "failure" /\ a.kind = "errors" /\ a.of = {r}
    \/ jobState[r] \in {"failed", "stopped"}
       /\ a \in {Plain("cancelled"), Plain("verifierError")}

\* A request's own steps start its job, answer it, or change neither.
Starts(r) ==
    /\ pc[r] # "done" /\ jobState[r] = "none"
    /\ \E s \in {"running", "direct"} : jobState' = [jobState EXCEPT ![r] = s]
    /\ UNCHANGED <<stopSent, answer>>

Responds(r) ==
    /\ pc[r] # "done"
    /\ \E a \in Answers : Justified(r, a) /\ answer' = [answer EXCEPT ![r] = a]
    /\ UNCHANGED <<jobState, stopSent>>

LEMMA RequestStepCases ==
    ASSUME TypeOK, TypeOK', Isolation, JobsHeld, NEW r \in Requests, RequestStep(r)
    PROVE  \/ Starts(r)
           \/ Responds(r)
           \/ UNCHANGED <<jobState, stopSent, answer>>
<1> USE DEF TypeOK, ManagerTypeOK, managerVars
<1>1. CASE Dispatch(r) \/ BeginTranslation(r) \/ Analyze(r) \/ Encode(r)
           \/ TakeSnapshot(r) \/ ChooseArgs(r) \/ Register(r) \/ Await(r)
           \/ InstallSnapshot(r)
  BY <1>1 DEF Dispatch, BeginTranslation, Analyze, Encode, TakeSnapshot, ChooseArgs,
     Register, Await, InstallSnapshot
<1>2. CASE SubmitJob(r) \/ SubmitSerially(r) \/ StartBackend(r)
  BY <1>2 DEF SubmitJob, SubmitSerially, Submit, StartBackend, StartServer, RunDirectly,
     Starts, JobsHeld, BeforeJob
<1>3. CASE FailTranslation(r) \/ SubmitRaises(r) \/ BackendRaises(r) \/ SerialSubmitFails(r)
  <2>1. \E k \in {"translationFailed", "raised", "verifierError"} :
           answer' = [answer EXCEPT ![r] = Plain(k)]
    BY <1>3 DEF FailTranslation, SubmitRaises, BackendRaises, SerialSubmitFails
  <2>2. pc[r] # "done" /\ jobState[r] = "none" /\ UNCHANGED <<jobState, stopSent>>
    BY <1>3 DEF FailTranslation, SubmitRaises, BackendRaises, SerialSubmitFails, JobsHeld,
       BeforeJob
  <2>3. \A k \in {"translationFailed", "raised", "verifierError"} : Plain(k) \in Answers
    BY DEF Plain, Answer, Answers, AnswerKinds
  <2> QED
    BY <2>1, <2>2, <2>3 DEF Responds, Justified
<1>4. CASE Deregister(r)
  <2>1. CASE jobState[r] = "failure"
    BY <1>4, <2>1 DEF Deregister
  <2>2. CASE jobState[r] # "failure"
    <3>1. jobState[r] \in {"success", "failed", "stopped"}
      BY <1>4, <2>2 DEF Deregister, JobsHeld, Ended, Endings
    <3>2. UnconvertedAnswer(r) \in {Plain("success"), Plain("cancelled")}
      BY <3>1 DEF UnconvertedAnswer
    <3>3. Justified(r, UnconvertedAnswer(r))
      BY <3>1 DEF UnconvertedAnswer, Justified
    <3>4. UnconvertedAnswer(r) \in Answers
      <4>1. Plain("success") \in Answers /\ Plain("cancelled") \in Answers
        BY DEF Plain, Answer, Answers, AnswerKinds
      <4> QED
        BY <3>2, <4>1
    <3> QED
      BY <1>4, <2>2, <3>3, <3>4 DEF Deregister, Responds
  <2> QED
    BY <2>1, <2>2
<1>5. ASSUME r \in items, items = {r}
      PROVE  Converted(r) \in Answers /\ Converted(r).kind = "errors" /\ Converted(r).of = {r}
  BY <1>5 DEF Converted, Answer, Answers, AnswerKinds, Configs
<1>6. CASE ConvertErrors(r)
  <2>1. jobState[r] = "failure" /\ items = {r} /\ pc[r] # "done"
    BY <1>6 DEF ConvertErrors, JobsHeld, Isolation, ItemsHeld
  <2> QED
    BY <1>5, <1>6, <2>1 DEF ConvertErrors, Responds, Justified
<1>7. CASE SerialAnswer(r)
  <2>1. items = {r} /\ pc[r] # "done"
        /\ jobState[r] \in {"success", "failure", "failed", "stopped"}
    BY <1>7 DEF SerialAnswer, JobsHeld, Isolation, ItemsHeld, Ended, Endings
  <2>2. Plain("success") \in Answers /\ Plain("verifierError") \in Answers
    BY DEF Plain, Answer, Answers, AnswerKinds
  <2>3. CASE jobState[r] = "failure"
    BY <1>5, <1>7, <2>1, <2>3 DEF SerialAnswer, Responds, Justified
  <2>4. CASE jobState[r] # "failure"
    BY <1>7, <2>1, <2>2, <2>4 DEF SerialAnswer, Responds, Justified
  <2> QED
    BY <2>3, <2>4
<1> QED
  BY <1>1, <1>2, <1>3, <1>4, <1>6, <1>7 DEF RequestStep

\* A success is reported only for a job that succeeded, and errors only for one
\* that failed.
THEOREM VerdictsAreKept ==
    ASSUME "null" \notin Outcomes
    PROVE  Spec => []AnswersMatchVerdicts
<1>1. Init => AnswersMatchVerdicts
  <2> SUFFICES ASSUME Init, NEW r \in Requests PROVE answer[r].kind = "none"
    BY DEF AnswersMatchVerdicts
  <2>1. answer[r] = Plain("none")
    BY DEF Init
  <2> QED
    BY <2>1 DEF Plain, Answer
<1>2. TypeOK /\ TypeOK' /\ Isolation /\ JobsHeld /\ AnswersMatchVerdicts
        /\ [Next \/ Idle]_vars => AnswersMatchVerdicts'
  <2> SUFFICES ASSUME TypeOK, TypeOK', Isolation, JobsHeld, AnswersMatchVerdicts,
                      [Next \/ Idle]_vars
               PROVE  AnswersMatchVerdicts'
    OBVIOUS
  <2> USE DEF TypeOK, ManagerTypeOK, AnswersMatchVerdicts
  <2>0. \A q \in Requests : pc[q] # "done" => answer[q].kind = "none"
    BY DEF JobsHeld, Plain, Answer
  <2>1. ASSUME NEW r \in Requests, RequestStep(r) PROVE AnswersMatchVerdicts'
    <3>1. CASE Starts(r)
      BY <2>0, <3>1 DEF Starts
    <3>2. CASE Responds(r)
      BY <3>2 DEF Responds, Justified, Plain, Answer
    <3>3. CASE UNCHANGED <<jobState, stopSent, answer>>
      BY <3>3
    <3> QED
      BY <2>1, <3>1, <3>2, <3>3, RequestStepCases
  <2>2. ASSUME NEW r \in Requests, Finishes(r) \/ Stops(r) PROVE AnswersMatchVerdicts'
    BY <2>0, <2>2 DEF Finishes, Stops, BackendFinishes, StopDelivered, serviceVars,
       requestVars, JobsHeld, Waiting
  <2>3. CASE Shutdown
    BY <2>3 DEF Shutdown, StopServer, requestVars
  <2>4. ASSUME NEW c \in Configurers, ConfigStep(c) PROVE UNCHANGED <<answer, jobState>>
    BY <2>4 DEF ConfigStep, LockConfig, AssignLive, AssignResources, Reload, managerVars,
       requestVars
  <2>5. ASSUME NEW k \in Cancellers, CancelStep(k) PROVE UNCHANGED <<answer, jobState>>
    BY <2>5 DEF CancelStep, CancelLookup, CancelStop, TellStop, TellStopAll, managerVars,
       requestVars
  <2>6. CASE UNCHANGED <<answer, jobState>>
    BY <2>6
  <2> QED
    BY <2>1, <2>2, <2>3, <2>4, <2>5, <2>6 DEF Next, Idle, vars, requestVars, managerVars
<1> QED
  BY <1>1, <1>2, JobsHeldInvariant, IsolationInvariant, TypeCorrect, PTL DEF Spec

----------------------------------------------------------------------------
(* The refinement                                                          *)

LEMMA PromiseInitially == Init => Promise!PromiseInit
<1> SUFFICES ASSUME Init PROVE Promise!PromiseInit
  OBVIOUS
<1>1. jobState = [r \in Requests |-> "none"] /\ stopSent = {}
      /\ answer = [r \in Requests |-> Plain("none")]
  BY DEF Init, ManagerInit
<1> QED
  BY <1>1 DEF Promise!PromiseInit, Promise!NoAnswer, Promise!About, verdict, promised, Plain,
     Answer

\* An answer is a response, and whatever decides a job decides it before.
LEMMA ResponseMaps ==
    ASSUME TypeOK, JobsHeld, NEW r \in Requests, Responds(r)
    PROVE  Promise!Respond(r)
<1>1. PICK a \in Answers : Justified(r, a) /\ answer' = [answer EXCEPT ![r] = a]
  BY DEF Responds
<1> DEFINE x == [kind |-> a.kind, of |-> a.of]
<1>2. promised' = [promised EXCEPT ![r] = x]
  BY <1>1 DEF TypeOK, promised
<1>3. promised[r] = Promise!NoAnswer
  BY DEF Responds, JobsHeld, promised, Promise!NoAnswer, Promise!About, Plain, Answer
<1>4. UNCHANGED <<verdict, stopSent>>
  BY DEF Responds, verdict
<1>5. x \in Promise!Replies(r) /\ Promise!Supports(verdict[r], x)
  <2> USE DEF Promise!Replies, Promise!About, Promise!Supports
  <2>1. verdict[r] = IF jobState[r] \in {"running", "direct"} THEN "none" ELSE jobState[r]
    BY DEF verdict
  <2>2. CASE jobState[r] = "failure" /\ a.kind = "errors" /\ a.of = {r}
    BY <2>1, <2>2
  <2>3. ASSUME NEW k \in {"translationFailed", "raised", "verifierError", "success",
                          "cancelled"},
               a = Plain(k)
        PROVE  x = Promise!About(k, {})
    BY <2>3 DEF Plain, Answer
  <2>4. CASE jobState[r] = "none"
    BY <1>1, <2>1, <2>3, <2>4 DEF Justified
  <2>5. CASE jobState[r] = "success"
    BY <1>1, <2>1, <2>3, <2>5 DEF Justified
  <2>6. CASE jobState[r] \in {"failed", "stopped"}
    BY <1>1, <2>1, <2>3, <2>6 DEF Justified
  <2> QED
    BY <1>1, <2>2, <2>4, <2>5, <2>6 DEF Justified
<1> QED
  BY <1>2, <1>3, <1>4, <1>5 DEF Promise!Respond

LEMMA DecisionMaps ==
    ASSUME TypeOK, TypeOK', JobsHeld, UNCHANGED <<stopSent, answer>>,
           \A r \in Requests : jobState'[r] # jobState[r] =>
               /\ jobState[r] \in {"running", "direct"}
               /\ jobState'[r] \in Endings \cup {"stopped"}
               /\ jobState'[r] = "stopped" => r \in stopSent
    PROVE  Promise!Decide
<1> USE DEF TypeOK, ManagerTypeOK
<1>1. verdict' \in [Requests -> Promise!Verdicts \cup {"none"}]
  BY DEF verdict, JobStates, Endings, Promise!Verdicts
<1>2. promised' = promised
  BY DEF promised
<1>3. ASSUME NEW r \in Requests, verdict'[r] # verdict[r]
      PROVE  /\ verdict[r] = "none" /\ promised[r] = Promise!NoAnswer
             /\ verdict'[r] = "stopped" => r \in stopSent
  <2>1. jobState[r] \in {"running", "direct"} /\ pc[r] # "done"
        /\ (jobState'[r] = "stopped" => r \in stopSent)
    BY <1>3 DEF verdict, JobsHeld, Waiting
  <2>2. promised[r] = Promise!NoAnswer
    <3>1. answer[r] = Plain("none")
      BY <2>1 DEF JobsHeld
    <3> QED
      BY <3>1, promised[r] = [kind |-> answer[r].kind, of |-> answer[r].of]
      DEF promised, Promise!NoAnswer, Promise!About, Plain, Answer
  <2> QED
    BY <2>1, <2>2 DEF verdict
<1> QED
  BY <1>1, <1>2, <1>3 DEF Promise!Decide

\* Every step of the service is a step of the promise, or none.
LEMMA PromiseStep ==
    ASSUME "null" \notin Outcomes
    PROVE  TypeOK /\ TypeOK' /\ Isolation /\ JobsHeld /\ [Next \/ Idle]_vars
             => [Promise!PromiseNext]_(Promise!promiseVars)
<1> SUFFICES ASSUME TypeOK, TypeOK', Isolation, JobsHeld, [Next \/ Idle]_vars
             PROVE  Promise!PromiseNext \/ UNCHANGED Promise!promiseVars
  OBVIOUS
<1> USE DEF TypeOK, ManagerTypeOK
<1>1. CASE UNCHANGED <<jobState, stopSent, answer>>
  BY <1>1 DEF Promise!promiseVars, verdict, promised
<1>2. ASSUME NEW r \in Requests, RequestStep(r)
      PROVE  Promise!PromiseNext \/ UNCHANGED Promise!promiseVars
  <2>1. CASE Starts(r)
    <3>1. verdict' = verdict
      BY <2>1 DEF Starts, verdict
    <3> QED
      BY <2>1, <3>1 DEF Starts, Promise!promiseVars, promised
  <2>2. CASE Responds(r)
    BY <2>2, ResponseMaps DEF Promise!PromiseNext
  <2> QED
    BY <1>1, <1>2, <2>1, <2>2, RequestStepCases
<1>3. ASSUME NEW r \in Requests, Finishes(r) \/ Stops(r) PROVE Promise!PromiseNext
  <2>1. UNCHANGED <<stopSent, answer>>
    BY <1>3 DEF Finishes, Stops, BackendFinishes, StopDelivered, serviceVars, requestVars
  <2>2. \A q \in Requests : jobState'[q] # jobState[q] =>
           /\ jobState[q] \in {"running", "direct"}
           /\ jobState'[q] \in Endings \cup {"stopped"}
           /\ jobState'[q] = "stopped" => q \in stopSent
    BY <1>3, OutcomesAssumption DEF Finishes, Stops, BackendFinishes, StopDelivered, Endings
  <2> QED
    BY <2>1, <2>2, DecisionMaps DEF Promise!PromiseNext
<1>4. CASE Shutdown
  <2>1. UNCHANGED <<stopSent, answer>>
    BY <1>4 DEF Shutdown, StopServer, requestVars
  <2>2. \A q \in Requests : jobState'[q] # jobState[q] =>
           jobState[q] = "running" /\ jobState'[q] = "failed"
    BY <1>4 DEF Shutdown, StopServer
  <2> QED
    BY <2>1, <2>2, DecisionMaps DEF Promise!PromiseNext, Endings
<1>5. ASSUME NEW c \in Configurers, ConfigStep(c) PROVE UNCHANGED <<jobState, stopSent, answer>>
  BY <1>5 DEF ConfigStep, LockConfig, AssignLive, AssignResources, Reload, managerVars,
     requestVars
<1>6. ASSUME NEW k \in Cancellers, CancelStep(k) PROVE Promise!PromiseNext
  <2>1. UNCHANGED <<jobState, answer>>
    BY <1>6 DEF CancelStep, CancelLookup, CancelStop, TellStop, TellStopAll, managerVars,
       requestVars
  <2>2. stopSent' = stopSent \cup stopSent'
    BY <1>6 DEF CancelStep, CancelLookup, CancelStop, TellStop, TellStopAll, managerVars
  <2>3. verdict' = verdict /\ promised' = promised
    BY <2>1 DEF verdict, promised
  <2> QED
    BY <2>2, <2>3 DEF Promise!PromiseNext, Promise!Ask
<1> QED
  BY <1>1, <1>2, <1>3, <1>4, <1>5, <1>6 DEF Next, Idle, vars, requestVars, managerVars

\* The service with its threads, its locks and its global error manager
\* implements the promise.
THEOREM ServiceKeepsPromise ==
    ASSUME "null" \notin Outcomes
    PROVE  Spec => KeepsPromise
BY PromiseInitially, PromiseStep, JobsHeldInvariant, IsolationInvariant, TypeCorrect, PTL
   DEF Spec, KeepsPromise, Promise!PromiseSpec
=============================================================================
