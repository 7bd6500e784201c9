\* Three clients of one server whose requests may raise.
SPECIFICATION Spec
CONSTANTS
    c1 = c1
    c2 = c2
    c3 = c3
    Clients = {c1, c2, c3}
    NoClient = NoClient
    NeedsObligations <- OneUsesObligations
    Forced = "unset"
    MayRaise = TRUE
INVARIANTS
    RepliesAreOwn
PROPERTY
    ClientsAreAnswered
\* The server waits for the next client when all have been answered.
CHECK_DEADLOCK FALSE
