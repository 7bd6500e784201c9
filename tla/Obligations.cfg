\* One thread with calls and loops four deep and one lock.
SPECIFICATION Spec
CONSTANTS
    t1 = t1
    t2 = t2
    l1 = l1
    l2 = l2
    Threads = {t1}
    Main = t1
    Locks = {l1}
    Level <- LevelByName
    CThread = CThread
    Nobody = Nobody
    Contracts <- AllContracts
    Invariants <- AllInvariants
    MaxDepth = 4
    MaxStatements = 2
    MaxMeasure = 2
INVARIANTS
    CarriersAreComeBackTo
    MeasuresDecrease
PROPERTIES
    LocksAreReleased
    PromisesAreKept
\* A thread stops where its program would be rejected.
CHECK_DEADLOCK FALSE
