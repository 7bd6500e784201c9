\* Two threads without loops; does a join never close a circle?
SPECIFICATION Spec
CONSTANTS
    t1 = t1
    t2 = t2
    l1 = l1
    l2 = l2
    Threads = {t1, t2}
    Main = t1
    Locks = {l1, l2}
    Level <- LevelByName
    CThread = CThread
    Nobody = Nobody
    Contracts <- LockingContracts
    Invariants = {}
    MaxDepth = 1
    MaxStatements = 3
    MaxMeasure = 2
INVARIANT
    JoinsDoNotDeadlock
CHECK_DEADLOCK FALSE
