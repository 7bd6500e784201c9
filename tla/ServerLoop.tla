----------------------------- MODULE ServerLoop -----------------------------
(***************************************************************************)
(* nagini --server and nagini_client: a ZeroMQ REP socket served by a loop *)
(* that receives a file name, translates and verifies the file and sends   *)
(* back what would have been printed (main.py, client.py).                 *)
(*                                                                         *)
(* One thread handles one request after the other, so there is no race     *)
(* here.  What can go wrong is the state that survives from one request to *)
(* the next - the global error manager and the global obligation setting - *)
(* and an exception that ends the loop.                                    *)
(***************************************************************************)
EXTENDS Naturals, Sequences

CONSTANTS
    Clients,            \* client processes, each sending one request
    NoClient,
    NeedsObligations,   \* NeedsObligations[c]: c's file uses obligations
    Forced,             \* the setting of --ignore- or --force-obligations
    MayRaise            \* a request may raise something nobody catches

VARIABLES
    clientPc,       \* what each client is waiting for
    inbox,          \* requests that have reached the server's socket
    serving,        \* the client being served, or NoClient
    serverPc,       \* where the loop is
    disableAll,     \* obligation_config.disable_all
    items,          \* clients whose item ids are in the error manager
    response,       \* whose results are in the response
    encoded,        \* whether each client's program was encoded with obligations
    reply           \* whose results each client has received

vars == <<clientPc, inbox, serving, serverPc, disableAll, items, response,
          encoded, reply>>

ASSUME ServerAssumption ==
    /\ NoClient \notin Clients
    /\ NeedsObligations \in [Clients -> BOOLEAN]
    /\ Forced \in {"unset", "true", "false"}
    /\ MayRaise \in BOOLEAN

ServerPcs == {"receive", "analyze", "encode", "verify", "send", "dead"}

Init ==
    /\ clientPc = [c \in Clients |-> "start"]
    /\ inbox = <<>>
    /\ serving = NoClient
    /\ serverPc = "receive"
    /\ disableAll = Forced
    /\ items = {}
    /\ response = {}
    /\ encoded = [c \in Clients |-> "no"]
    /\ reply = [c \in Clients |-> {}]

----------------------------------------------------------------------------

\* client.main: send the request and block in recv_string.
Send(c) ==
    /\ clientPc[c] = "start"
    /\ clientPc' = [clientPc EXCEPT ![c] = "waiting"]
    /\ inbox' = Append(inbox, c)
    /\ UNCHANGED <<serving, serverPc, disableAll, items, response, encoded, reply>>

\* Mutants: the response list is shared by all requests; it starts out
\* with a placeholder.
KeptResponse == response

FreshResponse == {}

\* recv_string; every request gets a response of its own, and translate
\* begins by clearing the error manager.
Receive ==
    /\ serverPc = "receive"
    /\ inbox # <<>>
    /\ serving' = Head(inbox)
    /\ inbox' = Tail(inbox)
    /\ response' = FreshResponse
    /\ items' = {}
    /\ serverPc' = "analyze"
    /\ UNCHANGED <<clientPc, disableAll, encoded, reply>>

\* translate decides whether this program is encoded with obligations.
Analyze ==
    /\ serverPc = "analyze"
    /\ disableAll' = IF ~NeedsObligations[serving] /\ disableAll = "unset"
                     THEN "true" ELSE disableAll
    /\ serverPc' = "encode"
    /\ UNCHANGED <<clientPc, inbox, serving, items, response, encoded, reply>>

Encode ==
    /\ serverPc = "encode"
    /\ items' = items \cup {serving}
    /\ encoded' = [encoded EXCEPT ![serving] =
                     IF disableAll = "true" THEN "plain" ELSE "obligations"]
    /\ serverPc' = "verify"
    /\ UNCHANGED <<clientPc, inbox, serving, disableAll, response, reply>>

\* Mutant: a request that fails to translate is not answered.
GiveUp == "receive"

AnswerFailure == "send"

\* An anticipated translation error is reported like a result.
FailTranslation ==
    /\ serverPc \in {"analyze", "encode"}
    /\ response' = response \cup {serving}
    /\ serverPc' = AnswerFailure
    /\ UNCHANGED <<clientPc, inbox, serving, disableAll, items, encoded, reply>>

\* A success, or errors back-translated through the error manager.
Verify ==
    /\ serverPc = "verify"
    /\ \E found \in {{}, items} : response' = response \cup {serving} \cup found
    /\ serverPc' = "send"
    /\ UNCHANGED <<clientPc, inbox, serving, disableAll, items, encoded, reply>>

\* verify prints a Java exception and returns None, which to_string is then
\* called on; type checking without a result cannot be unpacked; any other
\* exception is nobody's business either.  All of them end the loop.
Raise ==
    /\ MayRaise
    /\ serverPc \in {"analyze", "encode", "verify"}
    /\ serverPc' = "dead"
    /\ UNCHANGED <<clientPc, inbox, serving, disableAll, items, response, encoded,
                   reply>>

Reply ==
    /\ serverPc = "send"
    /\ clientPc' = [clientPc EXCEPT ![serving] = "answered"]
    /\ reply' = [reply EXCEPT ![serving] = response]
    /\ serving' = NoClient
    /\ serverPc' = "receive"
    /\ UNCHANGED <<inbox, disableAll, items, response, encoded>>

ServerStep ==
    Receive \/ Analyze \/ Encode \/ FailTranslation \/ Verify \/ Raise \/ Reply

Next == ServerStep \/ \E c \in Clients : Send(c)

Spec == Init /\ [][Next]_vars /\ WF_vars(ServerStep)

----------------------------------------------------------------------------
(* Properties                                                              *)

\* The server answers every client with the results of that client's file and
\* with nothing else, although the response is collected by a callback and
\* errors come out of a global error manager.
RepliesAreOwn == \A c \in Clients : reply[c] \in {{}, {c}}

\* A client that is waiting is answered unless an uncaught exception has ended
\* the loop, whatever the translation of the files before it came to.
ClientsAreAnswered ==
    \A c \in Clients :
        clientPc[c] = "waiting" ~> clientPc[c] = "answered" \/ serverPc = "dead"

=============================================================================
