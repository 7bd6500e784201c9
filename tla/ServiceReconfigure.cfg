\* Two requests while the service is switched to the direct back end with other
\* resources, everything is cancelled and the server shut down.
SPECIFICATION FairSpec
CONSTANTS
    r1 = r1
    r2 = r2
    r3 = r3
    a = a
    b = b
    c1 = c1
    k1 = k1
    Requests = {r1, r2}
    Configurers = {c1}
    Cancellers = {k1}
    Tokens = {a}
    NoToken = NoToken
    Nobody = Nobody
    NoJob = NoJob
    NoProgram = NoProgram
    Sizes = {8, 16}
    BadSizes = {}
    Outcomes = {"success", "failure", "failed"}
    Token <- OneToken
    Arp <- NoArp
    NeedsObligations <- SomeObligations
    InitialDisableAll = "unset"
    InitialConfig <- Concurrent
    Options <- ToDirect16
    Target <- CancelEverything
    CanShutDown = TRUE
    StartMayFail = TRUE
INVARIANTS
    ResourcesMatchOptions
PROPERTIES
    LockProtectsGlobals
    KeepsPromise
    RequestsReturn
\* All calls return, and then the system stops.
CHECK_DEADLOCK FALSE
