------------------------ MODULE LanguageServerProofs ------------------------
(***************************************************************************)
(* The language server: it uses the service as the service may be used, it *)
(* builds one, and a run that was stopped publishes nothing.  For every    *)
(* number of runs, documents and workers.                                  *)
(***************************************************************************)
EXTENDS LanguageServer, VerificationServiceProofs

USE DEF Goto, Return, Acquire, Release

RunPcs == Working \cup {"unsaved", "cancelling", "queued", "returned", "failed", "settled"}

----------------------------------------------------------------------------
(* Composition                                                             *)

\* A step of the language server is a step of the service, or none.
LEMMA ServiceStep == [LspNext]_allVars => [Next \/ Idle]_vars
<1> SUFFICES ASSUME [LspNext]_allVars PROVE [Next]_vars
  BY DEF Next
<1>1. ASSUME NEW r \in Requests, RunStep(r) PROVE [Next]_vars
  <2>1. CASE Supersede(r)
    BY <2>1, LspAssumption DEF Supersede, Next
  <2>2. CASE VerifyBlocking(r)
    BY <2>2 DEF VerifyBlocking, Next
  <2>3. CASE Enqueue(r) \/ CheckService(r) \/ LockService(r) \/ CheckAgain(r)
             \/ BuildService(r) \/ WorkerReturns(r) \/ Resume(r)
    BY <2>3 DEF Enqueue, CheckService, LockService, CheckAgain, BuildService,
       WorkerReturns, Resume
  <2> QED
    BY <1>1, <2>1, <2>2, <2>3 DEF RunStep
<1>2. ASSUME NEW r \in Requests, LspFinishes(r) \/ LspStops(r) PROVE [Next]_vars
  BY <1>2 DEF LspFinishes, LspStops, Next
<1>3. ASSUME NEW r \in Requests, Save(r) PROVE UNCHANGED vars
  BY <1>3 DEF Save
<1>4. CASE TakeRun
  BY <1>4 DEF TakeRun
<1>5. CASE UNCHANGED allVars
  BY <1>5 DEF allVars
<1> QED
  BY <1>1, <1>2, <1>3, <1>4, <1>5 DEF LspNext

\* The language server keeps to the interface of the service: what is proved
\* of every use of the service holds of this one.
THEOREM UsesTheService == LspSpec => Spec
<1>1. LspInit => Init
  BY DEF LspInit
<1> QED
  BY <1>1, ServiceStep, PTL DEF LspSpec, Spec

----------------------------------------------------------------------------
(* Double-checked locking                                                  *)

\* Who holds the lock, and that nothing was built since its second check.
BuildersHeld ==
    /\ services \in Nat
    /\ runPc \in [Requests -> RunPcs]
    /\ \A r \in Requests :
          /\ runPc[r] \in {"checking", "building"} => serviceLock = r
          /\ runPc[r] = "building" => services = 0

BuildInv == BuildersHeld /\ OneService

LEMMA BuildStep == BuildInv /\ [LspNext]_allVars => BuildInv'
<1> SUFFICES ASSUME BuildInv, [LspNext]_allVars PROVE BuildInv'
  OBVIOUS
<1> USE DEF BuildInv, BuildersHeld, OneService, MoveTo, RunPcs, Working
<1>1. ASSUME NEW r \in Requests, CheckService(r) \/ Enqueue(r) \/ WorkerReturns(r)
                                 \/ Resume(r) \/ Save(r)
      PROVE  BuildInv'
  BY <1>1 DEF CheckService, Enqueue, WorkerReturns, Resume, Save
<1>2. ASSUME NEW r \in Requests, LockService(r) PROVE BuildInv'
  BY <1>2, LspAssumption DEF LockService
<1>3. ASSUME NEW r \in Requests, CheckAgain(r) PROVE BuildInv'
  BY <1>3, LspAssumption DEF CheckAgain, BuiltMeanwhile, LockLeft
<1>4. ASSUME NEW r \in Requests, BuildService(r) PROVE BuildInv'
  BY <1>4, LspAssumption DEF BuildService, LockLeft
<1>5. CASE TakeRun
  BY <1>5 DEF TakeRun
<1>6. CASE UNCHANGED lspVars
  BY <1>6 DEF lspVars
<1>7. ASSUME NEW r \in Requests,
             Supersede(r) \/ VerifyBlocking(r) \/ LspFinishes(r) \/ LspStops(r)
      PROVE  UNCHANGED lspVars
  BY <1>7 DEF Supersede, VerifyBlocking, LspFinishes, LspStops
<1> QED
  BY <1>1, <1>2, <1>3, <1>4, <1>5, <1>6, <1>7 DEF LspNext, RunStep, allVars

\* However many first verifications there are at once, and whatever becomes of
\* a construction, there is one service.
THEOREM OneServiceIsBuilt == LspSpec => []OneService
<1>1. LspInit => BuildInv
  BY DEF LspInit, BuildInv, BuildersHeld, OneService, RunPcs, Working
<1>2. BuildInv => OneService
  BY DEF BuildInv
<1> QED
  BY <1>1, <1>2, BuildStep, PTL DEF LspSpec

----------------------------------------------------------------------------
(* Stopped runs                                                            *)

Submitted == {"await", "deregister", "convertQueued", "convert", "done"}

\* Only a registered job is ever stopped, so its thread is past submission on
\* the concurrent path, where a stopped job is answered as cancelled.
StopsHeld ==
    /\ \A k \in Cancellers : cancelPc[k] = "stop" =>
          found[k] \in Requests /\ pc[found[k]] \in Submitted
    /\ \A r \in stopSent : pc[r] \in Submitted
    /\ \A r \in Requests :
          /\ jobState[r] = "stopped" => r \in stopSent
          /\ pc[r] \in {"convertQueued", "convert"} => jobState[r] = "failure"
          /\ pc[r] = "deregister" => Ended(r)
          /\ pc[r] = "done" => jobState[r] \notin {"running", "direct"}
          /\ pc[r] \in BeforeJob => jobState[r] = "none"
          /\ pc[r] = "done" /\ jobState[r] = "stopped" => answer[r].kind = "cancelled"

LEMMA StopsStep ==
    ASSUME \A k \in Cancellers : Target[k] # NoToken
    PROVE  TypeOK /\ Registry /\ StopsHeld /\ [Next \/ Idle]_vars => StopsHeld'
<1> SUFFICES ASSUME TypeOK, Registry, StopsHeld, [Next \/ Idle]_vars PROVE StopsHeld'
  OBVIOUS
<1> USE DEF TypeOK, ManagerTypeOK, StopsHeld, Submitted, BeforeJob, Ended, Endings
<1>1. ASSUME NEW r \in Requests, RequestStep(r) PROVE StopsHeld'
  <2>1. UNCHANGED <<cancelVars, stopSent>>
    BY <1>1 DEF RequestStep, Dispatch, BeginTranslation, Analyze, Encode,
       FailTranslation, TakeSnapshot, ChooseArgs, SubmitJob, SubmitRaises, Register,
       Await, Deregister, InstallSnapshot, ConvertErrors, StartBackend, BackendRaises,
       SubmitSerially, SerialSubmitFails, SerialAnswer, Submit, StartServer, RunDirectly,
       managerVars
  <2> USE <2>1 DEF cancelVars
  <2>2. CASE Dispatch(r) \/ BeginTranslation(r) \/ Analyze(r) \/ Encode(r)
             \/ TakeSnapshot(r) \/ ChooseArgs(r)
    BY <2>2 DEF Dispatch, BeginTranslation, Analyze, Encode, TakeSnapshot, ChooseArgs,
       managerVars
  <2>3. CASE FailTranslation(r) \/ SubmitRaises(r) \/ BackendRaises(r)
             \/ SerialSubmitFails(r)
    BY <2>3 DEF FailTranslation, SubmitRaises, BackendRaises, SerialSubmitFails, managerVars
  <2>4. CASE SubmitJob(r) \/ SubmitSerially(r)
    BY <2>4 DEF SubmitJob, SubmitSerially, Submit
  <2>5. CASE Register(r) \/ Await(r)
    BY <2>5 DEF Register, Await, managerVars
  <2>6. CASE Deregister(r)
    <3>1. jobState[r] = "stopped" => UnconvertedAnswer(r).kind = "cancelled"
      BY DEF UnconvertedAnswer, Plain, Answer
    <3>2. CASE jobState[r] = "failure"
      BY <2>6, <3>2 DEF Deregister, managerVars
    <3>3. CASE jobState[r] # "failure"
      BY <2>6, <3>1, <3>3 DEF Deregister, managerVars
    <3> QED
      BY <3>2, <3>3
  <2>7. CASE InstallSnapshot(r) \/ ConvertErrors(r) \/ SerialAnswer(r)
    BY <2>7 DEF InstallSnapshot, ConvertErrors, SerialAnswer, managerVars
  <2>8. CASE StartBackend(r)
    BY <2>8 DEF StartBackend, StartServer, RunDirectly
  <2> QED
    BY <1>1, <2>2, <2>3, <2>4, <2>5, <2>6, <2>7, <2>8 DEF RequestStep
<1>2. ASSUME NEW r \in Requests, Finishes(r) \/ Stops(r) PROVE StopsHeld'
  BY <1>2, OutcomesAssumption
  DEF Finishes, Stops, BackendFinishes, StopDelivered, serviceVars, requestVars, cancelVars
<1>3. ASSUME NEW k \in Cancellers, CancelLookup(k) PROVE StopsHeld'
  <2>1. Target[k] \in Tokens
    BY ConstantsAssumption
  <2> QED
    BY <1>3, <2>1 DEF CancelLookup, Looked, Registry, RegisteredIsInFlight, managerVars,
       requestVars
<1>4. ASSUME NEW k \in Cancellers, CancelStop(k) PROVE StopsHeld'
  BY <1>4 DEF CancelStop, TellStop, requestVars
<1>5. CASE Shutdown
  BY <1>5 DEF Shutdown, StopServer, requestVars, cancelVars
<1>6. CASE UNCHANGED <<requestVars, cancelVars, stopSent, jobState>>
  BY <1>6 DEF requestVars, cancelVars
<1>7. ASSUME NEW c \in Configurers, ConfigStep(c)
      PROVE  UNCHANGED <<requestVars, cancelVars, stopSent, jobState>>
  BY <1>7 DEF ConfigStep, LockConfig, AssignLive, AssignResources, Reload, managerVars
<1>8. CASE UNCHANGED vars
  BY <1>6, <1>8 DEF vars, managerVars
<1> QED
  BY <1>1, <1>2, <1>3, <1>4, <1>5, <1>6, <1>7, <1>8 DEF Next, Idle, CancelStep

LEMMA StopsInvariant ==
    ASSUME \A k \in Cancellers : Target[k] # NoToken
    PROVE  Spec => []StopsHeld
<1>1. Init => StopsHeld
  BY DEF Init, ManagerInit, StopsHeld, Submitted, BeforeJob
<1>2. TypeOK /\ Registry /\ StopsHeld /\ [Next \/ Idle]_vars => StopsHeld'
  BY StopsStep
<1> QED
  BY <1>1, <1>2, TypeCorrect, RegistryInvariant, PTL DEF Spec

\* What a document shows came out of a verify call that has returned, and that
\* was not answered as cancelled.
Shown ==
    /\ lastDiagnostics \in [Tokens -> Requests \cup {NoRun}]
    /\ \A t \in Tokens : lastDiagnostics[t] # NoRun =>
          pc[lastDiagnostics[t]] = "done" /\ answer[lastDiagnostics[t]].kind # "cancelled"
    /\ runPc \in [Requests -> RunPcs]
    /\ \A r \in Requests : runPc[r] = "returned" => pc[r] = "done"

\* A request that has returned takes no further step.
LEMMA DoneStays ==
    TypeOK /\ [Next \/ Idle]_vars
        => \A r \in Requests : pc[r] = "done" => pc'[r] = "done" /\ answer'[r] = answer[r]
<1> SUFFICES ASSUME TypeOK, [Next \/ Idle]_vars, NEW r \in Requests, pc[r] = "done"
             PROVE  pc'[r] = "done" /\ answer'[r] = answer[r]
  OBVIOUS
<1>1. ASSUME NEW q \in Requests, RequestStep(q) PROVE pc'[r] = "done" /\ answer'[r] = answer[r]
  <2>1. q # r
    BY <1>1 DEF RequestStep, Dispatch, BeginTranslation, Analyze, Encode,
       FailTranslation, TakeSnapshot, ChooseArgs, SubmitJob, SubmitRaises, Register,
       Await, Deregister, InstallSnapshot, ConvertErrors, StartBackend, BackendRaises,
       SubmitSerially, SerialSubmitFails, SerialAnswer
  <2>2. /\ \E l : pc' = [pc EXCEPT ![q] = l]
        /\ answer' = answer \/ \E a : answer' = [answer EXCEPT ![q] = a]
    BY <1>1 DEF RequestStep, Dispatch, BeginTranslation, Analyze, Encode,
       FailTranslation, TakeSnapshot, ChooseArgs, SubmitJob, SubmitRaises, Register,
       Await, Deregister, InstallSnapshot, ConvertErrors, StartBackend, BackendRaises,
       SubmitSerially, SerialSubmitFails, SerialAnswer
  <2> QED
    BY <2>1, <2>2 DEF TypeOK
<1>2. CASE UNCHANGED requestVars
  BY <1>2 DEF requestVars
<1>3. CASE ~ \E q \in Requests : RequestStep(q)
  BY <1>2, <1>3 DEF Next, Idle, Finishes, Stops, serviceVars, ConfigStep, LockConfig,
     AssignLive, AssignResources, Reload, CancelStep, CancelLookup, CancelStop, Shutdown,
     vars
<1> QED
  BY <1>1, <1>3

LEMMA ShownStep == TypeOK /\ Shown /\ [LspNext]_allVars => Shown'
<1> SUFFICES ASSUME TypeOK, Shown, [LspNext]_allVars PROVE Shown'
  OBVIOUS
<1> USE DEF Shown, MoveTo, RunPcs, Working
<1>1. \A r \in Requests : pc[r] = "done" => pc'[r] = "done" /\ answer'[r] = answer[r]
  BY ServiceStep, DoneStays
<1>2. ASSUME NEW r \in Requests, Resume(r) PROVE Shown'
  BY <1>2, LspAssumption DEF Resume, HasDiagnostics, vars, requestVars
<1>3. ASSUME NEW r \in Requests,
             Save(r) \/ Enqueue(r) \/ CheckService(r) \/ LockService(r)
             \/ CheckAgain(r) \/ BuildService(r) \/ WorkerReturns(r)
      PROVE  Shown'
  BY <1>1, <1>3, LspAssumption
  DEF Save, Enqueue, CheckService, LockService, CheckAgain, BuildService, WorkerReturns,
      vars, requestVars
<1>4. CASE TakeRun
  BY <1>1, <1>4, LspAssumption DEF TakeRun, vars, requestVars
<1>5. CASE UNCHANGED lspVars
  BY <1>1, <1>5, LspAssumption DEF lspVars
<1>6. ASSUME NEW r \in Requests,
             Supersede(r) \/ VerifyBlocking(r) \/ LspFinishes(r) \/ LspStops(r)
      PROVE  UNCHANGED lspVars
  BY <1>6 DEF Supersede, VerifyBlocking, LspFinishes, LspStops
<1> QED
  BY <1>2, <1>3, <1>4, <1>5, <1>6 DEF LspNext, RunStep, allVars

\* However the answer, the stop message and the handlers of several documents
\* interleave, a stopped run never replaces what a document shows.
THEOREM StoppedStaySilent == LspSpec => []StoppedRunsAreSilent
<1>1. LspInit => Shown
  BY DEF LspInit, Shown, RunPcs, Working
<1>2. LspSpec => []TypeOK /\ []StopsHeld
  <2>1. \A k \in Cancellers : Target[k] # NoToken
    BY LspAssumption, ConstantsAssumption
  <2> QED
    BY <2>1, StopsInvariant, TypeCorrect, UsesTheService, PTL
<1>3. Shown /\ StopsHeld => StoppedRunsAreSilent
  BY DEF Shown, StopsHeld, StoppedRunsAreSilent
<1> QED
  BY <1>1, <1>2, <1>3, ShownStep, PTL DEF LspSpec

=============================================================================
