------------------------- MODULE ViperServerManager -------------------------
(***************************************************************************)
(* The process-wide ViperServer manager (viper_server.py): one long-lived  *)
(* server, started lazily, that runs verification jobs concurrently and    *)
(* stops them on request.  A call of VerificationService.verify submits at *)
(* most one job, so the request itself stands for its VerJobId.            *)
(*                                                                         *)
(* The server's actors are not part of this repository.  They appear as    *)
(* the environment actions BackendFinishes and StopDelivered, with what    *)
(* the Python code expects of them: a job yields a result, yields null, or *)
(* its future fails; a stopped job's future fails.                         *)
(***************************************************************************)
CONSTANTS
    Requests,       \* identities of verify calls, and of the jobs they submit
    Outcomes        \* how a job can end on its own, a subset of Endings

VARIABLES
    started,        \* ViperServerManager._started
    jobState,       \* what has become of each request's job
    stopSent        \* jobs whose actor was told StopVerification

managerVars == <<started, jobState, stopSent>>

Endings == {"success", "failure", "null", "failed"}

\* "running" jobs belong to the server; "direct" ones run in this process,
\* on the Silicon or Carbon front end, where no stop message reaches them.
JobStates == Endings \cup {"none", "running", "direct", "stopped"}

ASSUME OutcomesAssumption == Outcomes \subseteq Endings

ManagerTypeOK ==
    /\ started \in BOOLEAN
    /\ jobState \in [Requests -> JobStates]
    /\ stopSent \in SUBSET Requests

ManagerInit ==
    /\ jobState = [r \in Requests |-> "none"]
    /\ stopSent = {}

\* Mutant: a stopped job's future never completes.
EndedOnItsOwn(r) == jobState[r] \in Endings

\* The future of r's result is completed.
Ended(r) == jobState[r] \in Endings \cup {"stopped"}

----------------------------------------------------------------------------

\* submit: the job starts running in the server.
Submit(r) ==
    /\ started
    /\ jobState' = [jobState EXCEPT ![r] = "running"]
    /\ UNCHANGED <<started, stopSent>>

\* start, which does nothing if the server runs already.
StartServer ==
    /\ started' = TRUE
    /\ UNCHANGED <<jobState, stopSent>>

\* The direct front ends, which the manager does not know about.
RunDirectly(r) ==
    /\ jobState' = [jobState EXCEPT ![r] = "direct"]
    /\ UNCHANGED <<started, stopSent>>

\* cancel_job: only a started server is asked, and only a job it still runs
\* is told to stop.
TellStop(r) ==
    /\ stopSent' = IF started /\ jobState[r] = "running"
                   THEN stopSent \cup {r} ELSE stopSent
    /\ UNCHANGED <<started, jobState>>

\* cancel_all: interrupt everything that runs in the server.
TellStopAll ==
    /\ stopSent' = IF started
                   THEN stopSent \cup {r \in Requests : jobState[r] = "running"}
                   ELSE stopSent
    /\ UNCHANGED <<started, jobState>>

\* stop: the actor system goes down, and with it every job it was running.
StopServer ==
    /\ started
    /\ started' = FALSE
    /\ jobState' = [r \in Requests |->
                      IF jobState[r] = "running" THEN "failed" ELSE jobState[r]]
    /\ UNCHANGED stopSent

----------------------------------------------------------------------------
(* The environment: Viper's own actors and front ends.                     *)

BackendFinishes(r) ==
    /\ jobState[r] \in {"running", "direct"}
    /\ \E o \in Outcomes :
          /\ jobState[r] = "direct" => o # "null"
          /\ jobState' = [jobState EXCEPT ![r] = o]
    /\ UNCHANGED <<started, stopSent>>

StopDelivered(r) ==
    /\ jobState[r] = "running"
    /\ r \in stopSent
    /\ jobState' = [jobState EXCEPT ![r] = "stopped"]
    /\ UNCHANGED <<started, stopSent>>

=============================================================================
