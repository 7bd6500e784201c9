--------------------------- MODULE ServicePromise ---------------------------
(***************************************************************************)
(* The verification service implements the promise made to its callers:    *)
(* the job's state is the verdict, the sent stop messages are the requests *)
(* to stop, and the SIF mode of an answer is an implementation detail.     *)
(***************************************************************************)
EXTENDS VerificationService

verdict ==
    [r \in Requests |->
        IF jobState[r] \in {"running", "direct"} THEN "none" ELSE jobState[r]]

promised ==
    [r \in Requests |-> [kind |-> answer[r].kind, of |-> answer[r].of]]

Promise == INSTANCE VerifyPromise WITH
    verdict <- verdict, asked <- stopSent, answer <- promised

\* Every behaviour of the service is one of the promise: whatever its threads,
\* its shared error manager and its reconfigurations do, a request is answered
\* once, about its own program, by the verdict its own job reached.
KeepsPromise == Promise!PromiseSpec

=============================================================================
