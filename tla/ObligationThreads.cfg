\* Two threads and two locks: fork, join, and locks handed over.
SPECIFICATION Spec
CONSTANTS
    t1 = t1
    t2 = t2
    l1 = l1
    l2 = l2
    Threads = {t1, t2}
    Main = t1
    Locks = {l1, l2}
    Level <- LevelByName
    CThread = CThread
    Nobody = Nobody
    Contracts <- LockingContracts
    Invariants <- LockingInvariants
    MaxDepth = 3
    MaxStatements = 2
    MaxMeasure = 2
INVARIANTS
    EveryLockHasOneCarrier
    LocksDoNotDeadlock
\* A thread stops where its program would be rejected.
CHECK_DEADLOCK FALSE
