--------------------------- MODULE VerifyPromise ---------------------------
(***************************************************************************)
(* What a caller of VerificationService.verify is promised, with no locks, *)
(* threads or global state: each request is decided by a verdict about its *)
(* own program and is answered once, with an answer that this verdict      *)
(* supports.  A request may also be answered without a verdict, when its   *)
(* program cannot be translated or the service cannot run it; only a job   *)
(* that somebody asked to stop is ever stopped.                            *)
(***************************************************************************)
CONSTANT Requests

VARIABLES
    verdict,    \* what the verifier found out about each request's program
    asked,      \* requests that were asked to stop
    answer      \* what each request was answered

promiseVars == <<verdict, asked, answer>>

Verdicts == {"success", "failure", "null", "failed", "stopped"}

\* An answer about a set of programs; only an error report is about any.
About(kind, of) == [kind |-> kind, of |-> of]
NoAnswer == About("none", {})

\* The answers a request can get, and those that a verdict supports.
Replies(r) ==
    {About("errors", {r})} \cup
    {About(k, {}) : k \in {"translationFailed", "raised", "success", "verifierError",
                           "cancelled"}}

Supports(v, x) ==
    \/ v = "none" /\ x.kind \in {"translationFailed", "raised", "verifierError"}
    \/ v = "success" /\ x.kind = "success"
    \/ v = "failure" /\ x.kind = "errors"
    \/ v = "null" /\ x.kind = "verifierError"
    \/ v \in {"failed", "stopped"} /\ x.kind \in {"cancelled", "verifierError"}

PromiseInit ==
    /\ verdict = [r \in Requests |-> "none"]
    /\ asked = {}
    /\ answer = [r \in Requests |-> NoAnswer]

Ask ==
    /\ \E R \in SUBSET Requests : asked' = asked \cup R
    /\ UNCHANGED <<verdict, answer>>

\* Some requests get a verdict; a shutdown may decide several at once.
Decide ==
    /\ \E v \in [Requests -> Verdicts \cup {"none"}] :
          /\ verdict' = v
          /\ \A r \in Requests : v[r] # verdict[r] =>
                /\ verdict[r] = "none" /\ answer[r] = NoAnswer
                /\ v[r] = "stopped" => r \in asked
    /\ UNCHANGED <<asked, answer>>

Respond(r) ==
    /\ answer[r] = NoAnswer
    /\ \E x \in Replies(r) :
          /\ Supports(verdict[r], x)
          /\ answer' = [answer EXCEPT ![r] = x]
    /\ UNCHANGED <<verdict, asked>>

PromiseNext == Ask \/ Decide \/ \E r \in Requests : Respond(r)

PromiseSpec == PromiseInit /\ [][PromiseNext]_promiseVars

=============================================================================
