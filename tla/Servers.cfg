\* The language server with two runs of one document on one worker and on two,
\* everything that can fail, and jobs that need not end; and the MCP server with a file, a snippet, one
\* configure and one cancel call.
SPECIFICATION FairServersSpec
CONSTANTS
    r1 = r1
    r2 = r2
    a = a
    c1 = c1
    k1 = k1
    Requests = {r1, r2}
    Configurers = {}
    Cancellers = {r1, r2}
    Tokens = {a}
    NoToken = NoToken
    Nobody = Nobody
    NoJob = NoJob
    NoProgram = NoProgram
    NoRun = NoRun
    Sizes = {8}
    BadSizes = {}
    Outcomes = {"failure", "failed"}
    Token <- SameDocument
    Target <- SameDocument
    Arp <- NoArp
    NeedsObligations <- NoObligations
    InitialDisableAll = "unset"
    InitialConfig <- Concurrent
    Options <- NoOptions
    CanShutDown = FALSE
    StartMayFail = TRUE
    BuildMayFail = TRUE
    Workers = 1
    Systems = {"lsp", "lspPair", "mcp"}
INVARIANTS
    OneService
    StoppedRunsAreSilent
    ResourcesAreAccounted
PROPERTIES
    EveryRunSettles
    EveryCallSettles
\* All calls are settled, and then the system stops.
CHECK_DEADLOCK FALSE
