\* Two runs of one document, the older of which is still being translated.
SPECIFICATION ServersSpec
CONSTANTS
    r1 = r1
    r2 = r2
    a = a
    c1 = c1
    k1 = k1
    Requests = {r1, r2}
    Configurers = {}
    Cancellers = {r1, r2}
    Tokens = {a}
    NoToken = NoToken
    Nobody = Nobody
    NoJob = NoJob
    NoProgram = NoProgram
    NoRun = NoRun
    Sizes = {8}
    BadSizes = {}
    Outcomes = {"success"}
    Token <- SameDocument
    Target <- SameDocument
    Arp <- NoArp
    NeedsObligations <- NoObligations
    InitialDisableAll = "unset"
    InitialConfig <- Concurrent
    Options <- NoOptions
    CanShutDown = FALSE
    StartMayFail = FALSE
    BuildMayFail = FALSE
    Workers = 2
    Systems = {"lsp"}
PROPERTY
    DiagnosticsNeverGoBack
\* All runs are settled, and then the system stops.
CHECK_DEADLOCK FALSE
