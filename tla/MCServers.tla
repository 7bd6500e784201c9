----------------------------- MODULE MCServers -----------------------------
(* Small instances, for TLC, of the two servers that share the             *)
(* verification service.  Each behaviour is one of one server.             *)
EXTENDS LanguageServer, TLC

CONSTANTS
    r1, r2, a, c1, k1,
    Systems             \* the servers that are started

VARIABLES
    system,             \* the server of this behaviour: "lsp", "lspPair" or "mcp"
    callPc, tasks, running, eventLoop, directories      \* of the MCP server

SameDocument == (r1 :> a) @@ (r2 :> a)

NoArp == [r \in Requests |-> FALSE]
NoObligations == [r \in Requests |-> FALSE]
Concurrent == [backend |-> "silicon", viperServer |-> TRUE, sif |-> FALSE, size |-> 8]
NoOptions == [c \in {} |-> Concurrent]

\* The language server with a second worker, and Viper at hand.
Pair == INSTANCE LanguageServer WITH
    Workers <- 2,
    Outcomes <- {"failure"},
    StartMayFail <- FALSE

\* r1 verifies a file under a token, r2 a snippet; verifications run serially, for
\* secure information flow, until the service is switched back to ordinary ones;
\* a cancel call names r1.
Mcp == INSTANCE McpServer WITH
    Configurers <- {c1},
    Cancellers <- {k1},
    InitialConfig <- [Concurrent EXCEPT !.sif = TRUE],
    Options <- [c \in {c1} |-> Concurrent],
    Token <- (r1 :> a) @@ (r2 :> NoToken),
    Target <- (k1 :> a),
    Outcomes <- {"success"},
    CanShutDown <- FALSE,
    StartMayFail <- FALSE,
    PoolSize <- 1,
    Snippets <- {r2},
    NoCall <- NoRun

ASSUME McpCalls == Mcp!McpAssumption

mcpOnly == <<callPc, tasks, running, eventLoop, directories>>
all == <<system, allVars, mcpOnly>>

StartLsp ==
    /\ system \in {"lsp", "lspPair"} /\ LspInit
    /\ callPc = [x \in {r1, r2, c1, k1} |-> "unsent"]
    /\ tasks = <<>> /\ running = {} /\ eventLoop = NoRun
    /\ directories = {}

StartMcp ==
    /\ system = "mcp" /\ Mcp!McpInit
    /\ runPc = [r \in Requests |-> "unsaved"]
    /\ saved = <<>> /\ queue = <<>>
    /\ loop = NoRun /\ serviceLock = NoRun
    /\ services = 0
    /\ lastDiagnostics = [t \in Tokens |-> NoRun]

ServersInit == system \in Systems /\ (StartLsp \/ StartMcp)

ServersNext ==
    /\ \/ system = "lsp" /\ LspNext /\ UNCHANGED mcpOnly
       \/ system = "lspPair" /\ Pair!LspNext /\ UNCHANGED mcpOnly
       \/ system = "mcp" /\ Mcp!McpNext /\ UNCHANGED lspVars
    /\ UNCHANGED system

ServersSpec == ServersInit /\ [][ServersNext]_all

\* The actions of one server are not enabled in the behaviours of the other,
\* but for the delivery of stops, which is the same in both.  A second worker
\* need not be scheduled.
FairServersSpec == ServersSpec /\ LspFairness /\ Mcp!McpFairness

\* See McpServer.
EveryCallSettles == Mcp!EveryCallSettles
ResourcesAreAccounted == system = "mcp" => Mcp!ResourcesAreAccounted

=============================================================================
