--------------------------- MODULE MCObligations ---------------------------
(* Small instances of the obligation encoding for TLC.                     *)
EXTENDS Obligations

CONSTANTS t1, t2, l1, l2, MaxMeasure

LevelByName == [l \in Locks |-> IF l = l1 THEN 1 ELSE 2]

\* A contract with a measure on termination, or none if it is 0, and a part
\* about one lock.
Contract(measure, part) ==
    [part EXCEPT !.measures =
        @ @@ [k \in (IF measure = 0 THEN {} ELSE {CThread}) |-> measure]]

NoLock == [measures |-> None, fresh |-> {}, waits |-> {},
           gives |-> {}, returns |-> {}]
MayTake(l) == [NoLock EXCEPT !.waits = {l}]
Given(l, measure) == [NoLock EXCEPT !.measures = (l :> measure)]
GivenFresh(l) == [NoLock EXCEPT !.fresh = {l}]

\* The contract hands the lock on: without a measure if it has taken it,
\* with one if it was given it.
Taking(part) == [part EXCEPT !.gives = part.waits]
Returning(part) ==
    [part EXCEPT !.returns = part.fresh \cup DOMAIN part.measures]

Parts(l) ==
    {NoLock, MayTake(l), GivenFresh(l)}
        \cup {Given(l, measure) : measure \in 1 .. MaxMeasure}

AllParts ==
    Parts(l1) \cup {Taking(MayTake(l1))} \cup
        {Returning(part) : part \in Parts(l1) \ {NoLock, MayTake(l1)}}

AllContracts ==
    {Contract(measure, part) : measure \in 0 .. MaxMeasure, part \in AllParts}

AllInvariants ==
    {Contract(measure, part) : measure \in 0 .. MaxMeasure, part \in Parts(l1)}

\* Methods that promise to terminate and are given at most one lock, either
\* to take or to release, or give back the one they are given.
LockingContracts ==
    {Contract(MaxMeasure, part) :
        part \in {NoLock} \cup {MayTake(l) : l \in Locks}
                    \cup {Given(l, MaxMeasure) : l \in Locks}
                    \cup {Returning(Given(l1, MaxMeasure))}}

\* Loops that promise to terminate and may take l2 or carry l1.
LockingInvariants ==
    {Contract(MaxMeasure, part) :
        part \in {MayTake(l2), GivenFresh(l1)}
                    \cup {Given(l1, measure) : measure \in 1 .. MaxMeasure}}

=============================================================================
