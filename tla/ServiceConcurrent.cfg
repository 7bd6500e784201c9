\* Three concurrent requests, two of them for the same document, which is
\* cancelled once.
SPECIFICATION Spec
CONSTANTS
    r1 = r1
    r2 = r2
    r3 = r3
    a = a
    b = b
    c1 = c1
    k1 = k1
    Requests = {r1, r2, r3}
    Configurers = {}
    Cancellers = {k1}
    Tokens = {a, b}
    NoToken = NoToken
    Nobody = Nobody
    NoJob = NoJob
    NoProgram = NoProgram
    Sizes = {8}
    BadSizes = {}
    Outcomes = {"success", "failure", "null"}
    Token <- SharedToken
    Arp <- NoArp
    NeedsObligations <- SomeObligations
    InitialDisableAll = "unset"
    InitialConfig <- Concurrent
    Options <- NoOptions
    Target <- CancelDocument
    CanShutDown = FALSE
    StartMayFail = FALSE
INVARIANTS
    TypeOK
    ErrorsAreOwn
    ObligationsAreOwn
    RegisteredIsInFlight
    AnswersMatchVerdicts
    CancelIsPrecise
PROPERTY
    OnlyOwnerUnregisters
