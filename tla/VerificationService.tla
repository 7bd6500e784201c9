------------------------ MODULE VerificationService ------------------------
(***************************************************************************)
(* The long-lived verification service (service.py) on top of the shared   *)
(* ViperServer manager.                                                    *)
(*                                                                         *)
(* Every call of verify runs in a thread of its own, and so does every     *)
(* call of reconfigure and cancel.  Translation and error conversion work  *)
(* on the global error manager, the global obligation setting and the      *)
(* global Silver resources and are serialized by the state lock; the Viper *)
(* verification of a concurrent request runs outside it.  One action is    *)
(* what a thread does between two points where another thread can be       *)
(* observed: a lock operation, a call into Viper, or a read of an          *)
(* attribute that reconfigure may be writing.                              *)
(***************************************************************************)
EXTENDS ViperServerManager

CONSTANTS
    Configurers,        \* identities of reconfigure calls
    Cancellers,         \* identities of cancel calls
    Tokens, NoToken,    \* job tokens, and the absent token
    Nobody,             \* the state lock is free
    NoJob,              \* no job is registered under a token
    NoProgram,          \* a request that has not been translated
    Sizes,              \* values of int_bitops_size
    BadSizes,           \* those for which loading the Silver resources raises
    Token,              \* Token[r]: the job_token of request r
    Arp,                \* Arp[r]: request r asks for abstract read permissions
    NeedsObligations,   \* NeedsObligations[r]: r's program uses obligations
    InitialDisableAll,  \* obligation_config.disable_all at construction
    InitialConfig,      \* the constructor's options
    Options,            \* Options[c]: the configuration c asks for
    Target,             \* Target[k]: what canceller k cancels, NoToken for all
    CanShutDown,        \* the frontend may shut the service down
    StartMayFail        \* a backend may be missing from the class path

VARIABLES
    pc,             \* where each request's thread is
    path,           \* the path verify has taken for it
    stateLock,      \* the thread that holds _state_lock, or Nobody
    config,         \* _backend, use_viper_server, _sif, _bv_size
    resources,      \* the size main.sil_programs was loaded for
    disableAll,     \* obligation_config.disable_all
    items,          \* requests whose item ids are in the error manager
    snapshot,       \* each request's copy of the error manager's state
    program,        \* what each request's program was translated with
    backendArgs,    \* the backend each request's arguments were built for
    submittedTo,    \* the backend each request's job was submitted to
    jobs,           \* _jobs: the job registered under each token
    answer,         \* what verify returned for each request
    configPc,       \* where each reconfigure call is
    cancelPc,       \* where each cancel call is
    found           \* the job each cancel call looked up

requestVars == <<pc, path, program, backendArgs, submittedTo, answer>>
errorVars == <<items, snapshot>>
configVars == <<config, resources, configPc>>
cancelVars == <<cancelPc, found>>
vars == <<managerVars, requestVars, stateLock, configVars, disableAll, errorVars,
          jobs, cancelVars>>

Backends == {"silicon", "carbon"}
DisableSettings == {"unset", "true", "false"}
Configs == [backend : Backends, viperServer : BOOLEAN, sif : BOOLEAN, size : Sizes]
Programs == [obligations : BOOLEAN, sif : BOOLEAN, size : Sizes]

Threads == Requests \cup Configurers

ASSUME ConstantsAssumption ==
    /\ NoToken \notin Tokens
    /\ NoJob \notin Requests
    /\ NoProgram \notin Programs
    /\ Nobody \notin Threads
    /\ Requests \cap Configurers = {}
    /\ BadSizes \subseteq Sizes
    /\ Token \in [Requests -> Tokens \cup {NoToken}]
    /\ Arp \in [Requests -> BOOLEAN]
    /\ NeedsObligations \in [Requests -> BOOLEAN]
    /\ InitialDisableAll \in DisableSettings
    /\ InitialConfig \in Configs /\ InitialConfig.size \notin BadSizes
    /\ Options \in [Configurers -> Configs]
    /\ Target \in [Cancellers -> Tokens \cup {NoToken}]
    /\ CanShutDown \in BOOLEAN /\ StartMayFail \in BOOLEAN

\* The points at which a request's thread holds the state lock.
Locked == {"analyze", "encode", "snapshot", "backend", "serialSubmit", "serialAwait",
           "convert"}
PcValues == Locked \cup {"idle", "queued", "args", "submit", "register",
                         "await", "deregister", "convertQueued", "done"}
AnswerKinds == {"none", "success", "errors", "cancelled", "translationFailed",
                "verifierError", "unmapped", "raised"}

\* A verdict carries the requests the reported error items belong to and the
\* SIF mode the errors were converted in.
Answer(kind, of, sif) == [kind |-> kind, of |-> of, sif |-> sif]
Plain(kind) == Answer(kind, {}, FALSE)
Answers == [kind : AnswerKinds, of : SUBSET Requests, sif : BOOLEAN]

TypeOK ==
    /\ ManagerTypeOK
    /\ pc \in [Requests -> PcValues]
    /\ path \in [Requests -> {"none", "concurrent", "serial"}]
    /\ stateLock \in Threads \cup {Nobody}
    /\ config \in Configs
    /\ resources \in Sizes
    /\ disableAll \in DisableSettings
    /\ items \in SUBSET Requests
    /\ snapshot \in [Requests -> SUBSET Requests]
    /\ program \in [Requests -> Programs \cup {NoProgram}]
    /\ backendArgs \in [Requests -> Backends \cup {"none"}]
    /\ submittedTo \in [Requests -> Backends \cup {"none"}]
    /\ jobs \in [Tokens -> Requests \cup {NoJob}]
    /\ answer \in [Requests -> Answers]
    /\ configPc \in [Configurers -> {"idle", "live", "resources", "reload", "done"}]
    /\ cancelPc \in [Cancellers -> {"idle", "stop", "done"}]
    /\ found \in [Cancellers -> Requests \cup {NoJob}]

Init ==
    /\ ManagerInit
    /\ started \in {InitialConfig.viperServer, InitialConfig.viperServer /\ ~StartMayFail}
    /\ pc = [r \in Requests |-> "idle"]
    /\ path = [r \in Requests |-> "none"]
    /\ stateLock = Nobody
    /\ config = InitialConfig
    /\ resources = InitialConfig.size
    /\ disableAll = InitialDisableAll
    /\ items = {}
    /\ snapshot = [r \in Requests |-> {}]
    /\ program = [r \in Requests |-> NoProgram]
    /\ backendArgs = [r \in Requests |-> "none"]
    /\ submittedTo = [r \in Requests |-> "none"]
    /\ jobs = [t \in Tokens |-> NoJob]
    /\ answer = [r \in Requests |-> Plain("none")]
    /\ configPc = [c \in Configurers |-> "idle"]
    /\ cancelPc = [k \in Cancellers |-> "idle"]
    /\ found = [k \in Cancellers |-> NoJob]

----------------------------------------------------------------------------
(* verify                                                                  *)

Goto(r, label) == pc' = [pc EXCEPT ![r] = label]

\* Mutant: take the lock from whoever holds it.
Overtake(t) == stateLock' = t

\* with self._state_lock
Acquire(t) == stateLock = Nobody /\ stateLock' = t

\* Mutant: an early return that leaves the lock taken.
ReleaseForgotten == UNCHANGED stateLock

Release == stateLock' = Nobody

\* ErrorManager.clear
ClearedItems == {}

\* Mutants: the obligation setting the previous program left behind; None,
\* written to the configuration as the string it prints as.
KeptObligations == disableAll

ObligationsWritten ==
    IF InitialDisableAll = "unset" THEN "None" ELSE InitialDisableAll

\* _reset_obligations
ResetObligations == InitialDisableAll

Return(r, a) ==
    /\ Goto(r, "done")
    /\ answer' = [answer EXCEPT ![r] = a]

CanRunConcurrently(r) ==
    /\ ~Arp[r]
    /\ ~config.sif
    /\ config.backend \in Backends
    /\ config.viperServer
    /\ started

\* verify decides, without the lock, which of the two paths to take.
Dispatch(r) ==
    /\ pc[r] = "idle"
    /\ path' = [path EXCEPT ![r] =
                  IF CanRunConcurrently(r) THEN "concurrent" ELSE "serial"]
    /\ Goto(r, "queued")
    /\ UNCHANGED <<managerVars, program, backendArgs, submittedTo, answer,
                   stateLock, configVars, disableAll, errorVars, jobs, cancelVars>>

\* Take the lock, restore the obligation setting, and enter translate, which
\* clears the error manager.
BeginTranslation(r) ==
    /\ pc[r] = "queued"
    /\ Acquire(r)
    /\ disableAll' = ResetObligations
    /\ items' = ClearedItems
    /\ Goto(r, "analyze")
    /\ UNCHANGED <<managerVars, path, program, backendArgs, submittedTo, answer,
                   configVars, snapshot, jobs, cancelVars>>

\* translate, up to the choice of the obligation encoding: a program without
\* obligations switches the encoding off unless the setting was forced.
Analyze(r) ==
    /\ pc[r] = "analyze"
    /\ disableAll' = IF ~NeedsObligations[r] /\ disableAll = "unset"
                     THEN "true" ELSE disableAll
    /\ Goto(r, "encode")
    /\ UNCHANGED <<managerVars, path, program, backendArgs, submittedTo, answer,
                   stateLock, configVars, errorVars, jobs, cancelVars>>

\* translate_program: the encoded program, and its items in the error manager.
\* Only the serial path passes the service's SIF mode on.
Encode(r) ==
    /\ pc[r] = "encode"
    /\ items' = items \cup {r}
    /\ program' = [program EXCEPT ![r] =
                     [obligations |-> disableAll # "true",
                      sif |-> path[r] = "serial" /\ config.sif,
                      size |-> resources]]
    /\ Goto(r, IF path[r] = "serial" THEN "backend" ELSE "snapshot")
    /\ UNCHANGED <<managerVars, path, backendArgs, submittedTo, answer,
                   stateLock, configVars, disableAll, snapshot, jobs, cancelVars>>

\* translate fails: the errors it anticipates become an answer, any other
\* exception propagates.  Items it has added so far stay behind.
FailTranslation(r) ==
    /\ pc[r] \in {"analyze", "encode"}
    /\ items' \in IF pc[r] = "encode" THEN {items, items \cup {r}} ELSE {items}
    /\ \E kind \in {"translationFailed", "raised"} : Return(r, Plain(kind))
    /\ Release
    /\ UNCHANGED <<managerVars, path, program, backendArgs, submittedTo,
                   configVars, disableAll, snapshot, jobs, cancelVars>>

----------------------------------------------------------------------------
(* The concurrent path                                                     *)

\* Copy the error manager's dictionaries, clear them and release the lock.
TakeSnapshot(r) ==
    /\ pc[r] = "snapshot"
    /\ snapshot' = [snapshot EXCEPT ![r] = items]
    /\ items' = ClearedItems
    /\ Release
    /\ Goto(r, "args")
    /\ UNCHANGED <<managerVars, path, program, backendArgs, submittedTo, answer,
                   configVars, disableAll, jobs, cancelVars>>

\* Build the backend's arguments, reading the options again without the lock.
ChooseArgs(r) ==
    /\ pc[r] = "args"
    /\ backendArgs' = [backendArgs EXCEPT ![r] = config.backend]
    /\ Goto(r, "submit")
    /\ UNCHANGED <<managerVars, path, program, submittedTo, answer, stateLock,
                   configVars, disableAll, errorVars, jobs, cancelVars>>

\* Submit the job to the backend that is configured by now.
SubmitJob(r) ==
    /\ pc[r] = "submit"
    /\ Submit(r)
    /\ submittedTo' = [submittedTo EXCEPT ![r] = config.backend]
    /\ Goto(r, IF Token[r] = NoToken THEN "await" ELSE "register")
    /\ UNCHANGED <<path, program, backendArgs, answer, stateLock, configVars,
                   disableAll, errorVars, jobs, cancelVars>>

\* The server has gone down: submit raises out of verify.
SubmitRaises(r) ==
    /\ pc[r] = "submit"
    /\ ~started
    /\ Return(r, Plain("raised"))
    /\ UNCHANGED <<managerVars, path, program, backendArgs, submittedTo,
                   stateLock, configVars, disableAll, errorVars, jobs, cancelVars>>

Register(r) ==
    /\ pc[r] = "register"
    /\ jobs' = [jobs EXCEPT ![Token[r]] = r]
    /\ Goto(r, "await")
    /\ UNCHANGED <<managerVars, path, program, backendArgs, submittedTo, answer,
                   stateLock, configVars, disableAll, errorVars, cancelVars>>

\* await_result returns or raises.
Await(r) ==
    /\ pc[r] = "await"
    /\ Ended(r)
    /\ Goto(r, "deregister")
    /\ UNCHANGED <<managerVars, path, program, backendArgs, submittedTo, answer,
                   stateLock, configVars, disableAll, errorVars, jobs, cancelVars>>

\* Mutants: the entry is left behind; the entry is removed whoever owns it.
NeverDeregistered(r) == jobs

DeregisteredByToken(r) ==
    IF Token[r] # NoToken THEN [jobs EXCEPT ![Token[r]] = NoJob] ELSE jobs

\* The registry after r has removed its own entry; another run's stays.
Deregistered(r) ==
    IF Token[r] # NoToken /\ jobs[Token[r]] = r
    THEN [jobs EXCEPT ![Token[r]] = NoJob] ELSE jobs

\* Mutants: a missing result is a success; a failed future is a success.
NullSucceeds(r) ==
    Plain(IF jobState[r] \in {"success", "null"} THEN "success" ELSE "cancelled")

FailureSucceeds(r) ==
    Plain(IF jobState[r] = "null" THEN "verifierError" ELSE "success")

\* What a job that is no verification failure is answered with.
UnconvertedAnswer(r) ==
    Plain(IF jobState[r] \in {"failed", "stopped"} THEN "cancelled"
          ELSE IF jobState[r] = "null" THEN "verifierError" ELSE "success")

\* The finally clause, and the answer unless errors are to be converted.
Deregister(r) ==
    /\ pc[r] = "deregister"
    /\ jobs' = Deregistered(r)
    /\ \/ /\ jobState[r] = "failure"
          /\ Goto(r, "convertQueued")
          /\ UNCHANGED answer
       \/ /\ jobState[r] # "failure"
          /\ Return(r, UnconvertedAnswer(r))
    /\ UNCHANGED <<managerVars, path, program, backendArgs, submittedTo,
                   stateLock, configVars, disableAll, errorVars, cancelVars>>

\* Mutant: errors are converted with whatever the error manager holds.
NotInstalled(r) == items

Installed(r) == snapshot[r]

InstallSnapshot(r) ==
    /\ pc[r] = "convertQueued"
    /\ Acquire(r)
    /\ items' = Installed(r)
    /\ Goto(r, "convert")
    /\ UNCHANGED <<managerVars, path, program, backendArgs, submittedTo, answer,
                   configVars, disableAll, snapshot, jobs, cancelVars>>

\* Back-translate r's errors through the error manager: an item id it does
\* not know is a KeyError.
Converted(r) ==
    IF r \in items THEN Answer("errors", items, config.sif) ELSE Plain("unmapped")

ConvertErrors(r) ==
    /\ pc[r] = "convert"
    /\ Return(r, Converted(r))
    /\ items' = ClearedItems
    /\ Release
    /\ UNCHANGED <<managerVars, path, program, backendArgs, submittedTo,
                   configVars, disableAll, snapshot, jobs, cancelVars>>

----------------------------------------------------------------------------
(* The serial path, all of it under the lock                               *)

WantsServer(r) ==
    config.viperServer /\ config.backend \in Backends /\ ~Arp[r] /\ ~config.sif

\* get_verifier prefers the server, starting it on demand, and falls back to
\* the direct front end when that raises.
StartBackend(r) ==
    /\ pc[r] = "backend"
    /\ \/ /\ WantsServer(r)
          /\ StartServer
          /\ Goto(r, "serialSubmit")
          /\ UNCHANGED submittedTo
       \/ /\ WantsServer(r) => ~started /\ StartMayFail
          /\ RunDirectly(r)
          /\ Goto(r, "serialAwait")
          /\ submittedTo' = [submittedTo EXCEPT ![r] = config.backend]
    /\ backendArgs' = [backendArgs EXCEPT ![r] = config.backend]
    /\ UNCHANGED <<path, program, answer, stateLock, configVars, disableAll,
                   errorVars, jobs, cancelVars>>

\* ViperServer.verify, up to its wait.
SubmitSerially(r) ==
    /\ pc[r] = "serialSubmit"
    /\ Submit(r)
    /\ submittedTo' = [submittedTo EXCEPT ![r] = backendArgs[r]]
    /\ Goto(r, "serialAwait")
    /\ UNCHANGED <<path, program, backendArgs, answer, stateLock, configVars,
                   disableAll, errorVars, jobs, cancelVars>>

\* The server has been shut down since it was started: main.verify turns the
\* Java exception into None.
SerialSubmitFails(r) ==
    /\ pc[r] = "serialSubmit"
    /\ ~started
    /\ Return(r, Plain("verifierError"))
    /\ Release
    /\ UNCHANGED <<managerVars, path, program, backendArgs, submittedTo,
                   configVars, disableAll, errorVars, jobs, cancelVars>>

\* The direct front end is missing: its constructor raises out of verify.
BackendRaises(r) ==
    /\ pc[r] = "backend"
    /\ StartMayFail
    /\ Return(r, Plain("raised"))
    /\ Release
    /\ UNCHANGED <<managerVars, path, program, backendArgs, submittedTo,
                   configVars, disableAll, errorVars, jobs, cancelVars>>

\* The front end's result.  A Java exception becomes None, and every other
\* result that is not a Failure counts as Success.
SerialAnswer(r) ==
    /\ pc[r] = "serialAwait"
    /\ Ended(r)
    /\ Return(r, IF jobState[r] = "failure" THEN Converted(r)
                 ELSE Plain(IF jobState[r] \in {"success", "null"} THEN "success"
                            ELSE "verifierError"))
    /\ Release
    /\ UNCHANGED <<managerVars, path, program, backendArgs, submittedTo,
                   configVars, disableAll, errorVars, jobs, cancelVars>>

----------------------------------------------------------------------------
(* reconfigure                                                             *)

LockConfig(c) ==
    /\ configPc[c] = "idle"
    /\ Acquire(c)
    /\ configPc' = [configPc EXCEPT ![c] = "live"]
    /\ UNCHANGED <<managerVars, requestVars, config, resources, disableAll,
                   errorVars, jobs, cancelVars>>

\* The options that threads outside the lock read first.
AssignLive(c) ==
    /\ configPc[c] = "live"
    /\ config' = [config EXCEPT !.backend = Options[c].backend,
                                !.viperServer = Options[c].viperServer]
    /\ configPc' = [configPc EXCEPT ![c] = "resources"]
    /\ UNCHANGED <<managerVars, requestVars, stateLock, resources, disableAll,
                   errorVars, jobs, cancelVars>>

\* Mutant: only a change of the SIF mode reloads the resources.
ReloadNeededForSif(c) == config.sif # Options[c].sif

ReloadNeeded(c) ==
    config.sif # Options[c].sif \/ config.size # Options[c].size

AssignResources(c) ==
    /\ configPc[c] = "resources"
    /\ config' = [config EXCEPT !.sif = Options[c].sif, !.size = Options[c].size]
    /\ configPc' = [configPc EXCEPT ![c] = IF ReloadNeeded(c) THEN "reload" ELSE "done"]
    /\ IF ReloadNeeded(c) THEN UNCHANGED stateLock ELSE Release
    /\ UNCHANGED <<managerVars, requestVars, resources, disableAll, errorVars,
                   jobs, cancelVars>>

\* load_sil_files, which raises out of reconfigure for an unusable size.
Reload(c) ==
    /\ configPc[c] = "reload"
    /\ resources' = IF config.size \in BadSizes THEN resources ELSE config.size
    /\ configPc' = [configPc EXCEPT ![c] = "done"]
    /\ Release
    /\ UNCHANGED <<managerVars, requestVars, config, disableAll, errorVars,
                   jobs, cancelVars>>

----------------------------------------------------------------------------
(* cancel and shutdown                                                     *)

\* Mutant: the single job slot of a service without job tokens.
LookedRunning(k) ==
    LET running == {r \in Requests : jobState[r] = "running"}
    IN IF running = {} THEN NoJob ELSE CHOOSE r \in running : TRUE

\* The job that a cancel call finds under its token.
Looked(k) == IF Target[k] = NoToken THEN NoJob ELSE jobs[Target[k]]

CancelLookup(k) ==
    /\ cancelPc[k] = "idle"
    /\ IF config.viperServer /\ Target[k] = NoToken
       THEN TellStopAll ELSE UNCHANGED managerVars
    /\ IF config.viperServer /\ Looked(k) # NoJob
       THEN /\ found' = [found EXCEPT ![k] = Looked(k)]
            /\ cancelPc' = [cancelPc EXCEPT ![k] = "stop"]
       ELSE /\ cancelPc' = [cancelPc EXCEPT ![k] = "done"]
            /\ UNCHANGED found
    /\ UNCHANGED <<requestVars, stateLock, configVars, disableAll, errorVars, jobs>>

CancelStop(k) ==
    /\ cancelPc[k] = "stop"
    /\ TellStop(found[k])
    /\ cancelPc' = [cancelPc EXCEPT ![k] = "done"]
    /\ UNCHANGED <<requestVars, stateLock, configVars, disableAll, errorVars,
                   jobs, found>>

Shutdown ==
    /\ CanShutDown
    /\ config.viperServer
    /\ StopServer
    /\ UNCHANGED <<requestVars, stateLock, configVars, disableAll, errorVars,
                   jobs, cancelVars>>

----------------------------------------------------------------------------

RequestStep(r) ==
    \/ Dispatch(r) \/ BeginTranslation(r) \/ Analyze(r) \/ Encode(r)
    \/ FailTranslation(r) \/ TakeSnapshot(r) \/ ChooseArgs(r) \/ SubmitJob(r)
    \/ SubmitRaises(r) \/ Register(r) \/ Await(r) \/ Deregister(r)
    \/ InstallSnapshot(r) \/ ConvertErrors(r) \/ StartBackend(r) \/ BackendRaises(r)
    \/ SubmitSerially(r) \/ SerialSubmitFails(r) \/ SerialAnswer(r)

ConfigStep(c) == LockConfig(c) \/ AssignLive(c) \/ AssignResources(c) \/ Reload(c)

CancelStep(k) == CancelLookup(k) \/ CancelStop(k)

serviceVars == <<requestVars, stateLock, configVars, disableAll, errorVars,
                 jobs, cancelVars>>

Finishes(r) == BackendFinishes(r) /\ UNCHANGED serviceVars
Stops(r) == StopDelivered(r) /\ UNCHANGED serviceVars

\* Every thread has returned and every job has ended.
AllDone ==
    /\ \A r \in Requests : pc[r] = "done" /\ jobState[r] \notin {"running", "direct"}
    /\ \A c \in Configurers : configPc[c] = "done"
    /\ \A k \in Cancellers : cancelPc[k] = "done"

Next ==
    \/ \E r \in Requests : RequestStep(r) \/ Finishes(r) \/ Stops(r)
    \/ \E c \in Configurers : ConfigStep(c)
    \/ \E k \in Cancellers : CancelStep(k)
    \/ Shutdown

\* Once all calls have returned, nothing is left to do.
Idle == AllDone /\ UNCHANGED vars

Spec == Init /\ [][Next \/ Idle]_vars

\* Threads are scheduled, and StopVerification reaches its actor; a job may
\* run for ever.
FairSpec ==
    /\ Init /\ [][Next]_vars
    /\ \A r \in Requests : WF_vars(RequestStep(r)) /\ WF_vars(Stops(r))
    /\ \A c \in Configurers : WF_vars(ConfigStep(c))
    /\ \A k \in Cancellers : WF_vars(CancelStep(k))

----------------------------------------------------------------------------
(* Properties                                                              *)

\* Back-translation never mixes requests: the errors verify returns map to
\* items of its own program only, and every item it needs is still there,
\* whatever other requests did to the global error manager between the
\* request's translation and its conversion.
ErrorsAreOwn ==
    \A r \in Requests :
        /\ answer[r].kind # "unmapped"
        /\ answer[r].kind = "errors" => answer[r].of = {r}

WantsObligations(r) ==
    \/ InitialDisableAll = "false"
    \/ InitialDisableAll = "unset" /\ NeedsObligations[r]

\* The obligation encoding of a program is decided by that program and the
\* setting the service was built with, not by the programs verified before.
ObligationsAreOwn ==
    \A r \in Requests :
        program[r] # NoProgram => (program[r].obligations <=> WantsObligations(r))

\* The registry names only jobs that are in flight, under their own token: an
\* answered request is never found by cancel.
RegisteredIsInFlight ==
    \A t \in Tokens : jobs[t] # NoJob =>
        /\ Token[jobs[t]] = t
        /\ pc[jobs[t]] \in {"await", "deregister"}

\* A run that ends removes its own registration only, so that a newer run
\* which reuses the token stays cancellable.
OnlyOwnerUnregisters ==
    [][\A t \in Tokens : jobs[t] # NoJob /\ jobs'[t] = NoJob =>
           pc[jobs[t]] = "deregister" /\ pc'[jobs[t]] # "deregister"]_vars

\* A job is told to stop only on behalf of a cancel call that named its token
\* or asked for all of them; the others keep verifying.
CancelIsPrecise ==
    \A r \in stopSent : \E k \in Cancellers :
        /\ cancelPc[k] # "idle"
        /\ Target[k] \in {Token[r], NoToken}

\* While a request holds the state lock and rests between two of its steps,
\* no other thread changes what its translation or conversion works on.
LockProtectsGlobals ==
    [][\A r \in Requests : stateLock = r /\ stateLock' = r /\ pc'[r] = pc[r] =>
           UNCHANGED <<config, resources, disableAll, items>>]_vars

\* Outside reconfigure, the loaded Silver resources are those of the options
\* that current_options reports.
ResourcesMatchOptions ==
    stateLock \notin Configurers => resources = config.size

\* A success is only ever reported for a job that succeeded, and an error
\* report for one that failed.
AnswersMatchVerdicts ==
    \A r \in Requests :
        /\ answer[r].kind = "success" => jobState[r] = "success"
        /\ answer[r].kind = "errors" => jobState[r] = "failure"

\* Every verify call returns when Viper's jobs end by themselves: whatever
\* fails, is stopped, reconfigured or shut down, nobody keeps the state lock
\* and no thread is left waiting.
EveryRequestReturns ==
    (\A r \in Requests : WF_vars(Finishes(r))) => \A r \in Requests : <>(pc[r] = "done")

\* As long as no request runs serially, a job that was told to stop frees its
\* caller even when Viper would never have ended it or the others.
StoppedRequestsReturn ==
    [](\A r \in Requests : path[r] # "serial")
        => \A r \in Requests : r \in stopSent ~> pc[r] = "done"

\* A verify call comes to an end together with its job, whether the job ends by
\* itself or is told to stop.
RequestsReturn == EveryRequestReturns /\ StoppedRequestsReturn

=============================================================================
