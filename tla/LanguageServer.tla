--------------------------- MODULE LanguageServer ---------------------------
(***************************************************************************)
(* The language server (lsp_server.py) on top of the verification service. *)
(*                                                                         *)
(* Every save (or open, or "verify method") of a document starts a run.    *)
(* Its handler cancels the run of the same document it finds registered,   *)
(* on the event loop, hands the new run to a pool of worker threads and    *)
(* awaits it; when the worker is done the handler resumes on the event     *)
(* loop and publishes the diagnostics.  A run is a request of the service, *)
(* its document is the request's job token, and its cancel call is the     *)
(* canceller of the same name, so the module is used with                  *)
(* Cancellers = Requests and Target = Token.                               *)
(***************************************************************************)
EXTENDS VerificationService, Naturals, Sequences, FiniteSets

CONSTANTS
    Workers,        \* number of threads in the executor
    NoRun,          \* no run: a free event loop, lock, or document
    BuildMayFail    \* the service's constructor may raise (no jar, no Z3)

VARIABLES
    runPc,              \* where each run's handler and worker are
    saved,              \* the runs in the order in which they were started
    queue,              \* runs waiting for a worker
    loop,               \* the run whose handler occupies the event loop
    serviceLock,        \* the run whose worker holds _service_lock
    services,           \* how many services have been built
    lastDiagnostics     \* _last_diagnostics: the run that set them, per document

lspVars == <<runPc, saved, queue, loop, serviceLock, services, lastDiagnostics>>
allVars == <<vars, lspVars>>

ASSUME LspAssumption ==
    /\ Cancellers = Requests /\ Target = Token
    /\ \A r \in Requests : Token[r] \in Tokens
    /\ Configurers = {} /\ ~CanShutDown
    /\ Workers \in Nat \ {0}
    /\ NoRun \notin Requests
    /\ BuildMayFail \in BOOLEAN

\* Where a run occupies a worker.
Working == {"ensure", "waitService", "checking", "building", "verifying"}

LspInit ==
    /\ Init
    /\ runPc = [r \in Requests |-> "unsaved"]
    /\ saved = <<>> /\ queue = <<>>
    /\ loop = NoRun /\ serviceLock = NoRun
    /\ services = 0
    /\ lastDiagnostics = [t \in Tokens |-> NoRun]

MoveTo(r, label) == runPc' = [runPc EXCEPT ![r] = label]

----------------------------------------------------------------------------
(* run_verification, up to its await                                       *)

\* A handler is entered when no other one occupies the event loop.
Save(r) ==
    /\ runPc[r] = "unsaved"
    /\ loop = NoRun
    /\ loop' = r
    /\ saved' = Append(saved, r)
    /\ MoveTo(r, "cancelling")
    /\ UNCHANGED <<vars, queue, serviceLock, services, lastDiagnostics>>

\* service.cancel(job_token=uri), in its two steps.
Supersede(r) ==
    /\ runPc[r] = "cancelling"
    /\ services > 0
    /\ CancelStep(r)
    /\ UNCHANGED lspVars

\* Mutant: the run goes on while the cancellation is left for later.
SupersededLater(r) == TRUE

\* The cancellation is done, or there is no service to ask.
Superseded(r) == services = 0 \/ cancelPc[r] = "done"

\* run_in_executor; the handler leaves the event loop.
Enqueue(r) ==
    /\ runPc[r] = "cancelling"
    /\ Superseded(r)
    /\ queue' = Append(queue, r)
    /\ MoveTo(r, "queued")
    /\ loop' = NoRun
    /\ UNCHANGED <<vars, saved, serviceLock, services, lastDiagnostics>>

----------------------------------------------------------------------------
(* The worker threads: _verify_blocking                                    *)

Busy == {r \in Requests : runPc[r] \in Working}

TakeRun ==
    /\ queue # <<>>
    /\ Cardinality(Busy) < Workers
    /\ MoveTo(Head(queue), "ensure")
    /\ queue' = Tail(queue)
    /\ UNCHANGED <<vars, saved, loop, serviceLock, services, lastDiagnostics>>

\* ensure_service, before taking the lock.
CheckService(r) ==
    /\ runPc[r] = "ensure"
    /\ MoveTo(r, IF services > 0 THEN "verifying" ELSE "waitService")
    /\ UNCHANGED <<vars, saved, queue, loop, serviceLock, services, lastDiagnostics>>

LockService(r) ==
    /\ runPc[r] = "waitService"
    /\ serviceLock = NoRun
    /\ serviceLock' = r
    /\ MoveTo(r, "checking")
    /\ UNCHANGED <<vars, saved, queue, loop, services, lastDiagnostics>>

\* Mutant: no second check under the lock.
BuiltUnchecked == FALSE

\* Mutant: the lock is left taken.
LockKept == serviceLock

\* The end of the with block, however it ends.
LockLeft == NoRun

\* The second check of the double-checked locking.
BuiltMeanwhile == services > 0

CheckAgain(r) ==
    /\ runPc[r] = "checking"
    /\ IF BuiltMeanwhile
       THEN MoveTo(r, "verifying") /\ serviceLock' = LockLeft
       ELSE MoveTo(r, "building") /\ UNCHANGED serviceLock
    /\ UNCHANGED <<vars, saved, queue, loop, services, lastDiagnostics>>

\* The construction takes its time, starts the JVM, and may raise.
BuildService(r) ==
    /\ runPc[r] = "building"
    /\ \/ /\ MoveTo(r, "verifying")
          /\ services' = services + 1
       \/ /\ BuildMayFail
          /\ MoveTo(r, "failed")
          /\ UNCHANGED services
    /\ serviceLock' = LockLeft
    /\ UNCHANGED <<vars, saved, queue, loop, lastDiagnostics>>

VerifyBlocking(r) ==
    /\ runPc[r] = "verifying"
    /\ RequestStep(r)
    /\ UNCHANGED lspVars

\* verify has returned or raised: the worker is free, the future complete.
WorkerReturns(r) ==
    /\ runPc[r] = "verifying"
    /\ pc[r] = "done"
    /\ MoveTo(r, "returned")
    /\ UNCHANGED <<vars, saved, queue, loop, serviceLock, services, lastDiagnostics>>

----------------------------------------------------------------------------
(* run_verification, after its await                                       *)

\* An exception and a cancelled result leave the existing diagnostics alone.
HasDiagnostics(r) ==
    /\ runPc[r] = "returned"
    /\ answer[r].kind \notin {"raised", "unmapped", "cancelled"}

Resume(r) ==
    /\ runPc[r] \in {"returned", "failed"}
    /\ loop = NoRun
    /\ lastDiagnostics' = IF HasDiagnostics(r)
                          THEN [lastDiagnostics EXCEPT ![Token[r]] = r]
                          ELSE lastDiagnostics
    /\ MoveTo(r, "settled")
    /\ UNCHANGED <<vars, saved, queue, loop, serviceLock, services>>

----------------------------------------------------------------------------

\* Everything but the user's decision to save.
RunStep(r) ==
    \/ Supersede(r) \/ Enqueue(r) \/ CheckService(r) \/ LockService(r)
    \/ CheckAgain(r) \/ BuildService(r) \/ VerifyBlocking(r)
    \/ WorkerReturns(r) \/ Resume(r)

LspFinishes(r) == Finishes(r) /\ UNCHANGED lspVars
LspStops(r) == Stops(r) /\ UNCHANGED lspVars

LspNext ==
    \/ \E r \in Requests : Save(r) \/ RunStep(r) \/ LspFinishes(r) \/ LspStops(r)
    \/ TakeRun

LspSpec == LspInit /\ [][LspNext]_allVars

\* The event loop and the workers are scheduled, and stops are delivered.  A job
\* may run for ever, and nobody has to save.
LspFairness ==
    /\ WF_allVars(TakeRun)
    /\ \A r \in Requests : WF_allVars(RunStep(r)) /\ WF_allVars(LspStops(r))

FairLspSpec == LspSpec /\ LspFairness

----------------------------------------------------------------------------
(* Properties                                                              *)

Newer(q, r) ==
    \E i, j \in DOMAIN saved : i < j /\ saved[i] = r /\ saved[j] = q

\* Concurrent first verifications share one service, and so one JVM, one
\* state lock and one registry.
OneService == services <= 1

\* A run that was stopped never replaces a document's diagnostics.
StoppedRunsAreSilent ==
    \A t \in Tokens : lastDiagnostics[t] # NoRun =>
        jobState[lastDiagnostics[t]] # "stopped"

\* Run r cannot end before the job of q has: it is r's own, the one of a run
\* that may occupy the worker r waits for, or one that is awaited under the
\* state lock.
HoldsUp(q, r) ==
    /\ jobState[q] \in {"running", "direct"}
    /\ q = r \/ Newer(r, q) \/ path[q] = "serial"

\* Only jobs that never end keep a run from being settled, and only those of
\* runs ahead of it: whatever fails to build, to translate or to verify gives
\* back its worker and its locks.
RunsTakeTurns ==
    \A r \in Requests :
        (\A q \in Requests : HoldsUp(q, r) ~> ~HoldsUp(q, r))
            => (runPc[r] = "cancelling" ~> runPc[r] = "settled")

\* A registered run that a newer one of its document comes to supersede gives
\* back its worker although its job would never end, as long as none is awaited
\* under the state lock and no third run has registered in its place.
SupersededRunsEnd ==
    [](\A q \in Requests : path[q] # "serial") =>
        \A q \in Requests :
            (\E r \in Requests : /\ runPc[r] = "cancelling" /\ cancelPc[r] = "idle"
                               /\ jobs[Token[r]] = q)
                ~> runPc[q] = "settled" \/ jobs[Token[q]] \notin {q, NoJob}

\* Every run is settled in the end unless a job that nobody can stop keeps it.
EveryRunSettles == RunsTakeTurns /\ SupersededRunsEnd

\* What a comment in run_verification says; the code does not live up to it.

\* A run supersedes those in flight for its document, so that the diagnostics
\* shown never go back to an older state of the document.
DiagnosticsNeverGoBack ==
    [][\A t \in Tokens :
           lastDiagnostics[t] # NoRun /\ lastDiagnostics'[t] # lastDiagnostics[t]
           => Newer(lastDiagnostics'[t], lastDiagnostics[t])]_allVars

=============================================================================
