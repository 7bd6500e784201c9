---------------------------- MODULE Obligations ----------------------------
(***************************************************************************)
(* The obligation encoding (translators/obligation) as the runs of the     *)
(* programs it lets Viper accept: threads that call methods, run loops,    *)
(* take locks, fork and join, where every step satisfies the checks the    *)
(* encoding emits for it.                                                  *)
(*                                                                         *)
(* A thread is a stack of contexts.  A context is what Viper verifies in   *)
(* one piece, a method body or one iteration of a loop, with the           *)
(* MustRelease permissions in its own heap (bounded and unbounded), the    *)
(* measures it started with, and what it knows about its residue level,    *)
(* the highest level of a lock held below it in the stack.  The program    *)
(* text is not fixed: any contract may be called and any invariant may     *)
(* hold at the end of an iteration, as long as the checks pass.            *)
(*                                                                         *)
(* What the encoding promises is about the locks themselves (owner): they  *)
(* are released after finitely many steps, methods that promise to         *)
(* terminate do, and threads do not wait for each other in a circle.       *)
(***************************************************************************)
EXTENDS Integers, Sequences, FiniteSets, TLC

CONSTANTS
    Threads,
    Main,           \* the thread that runs the main module
    Locks,
    Level,          \* Level[l]: the position of l in the locking order
    CThread,        \* the target of MustTerminate: the current thread
    Nobody,
    Contracts,      \* contracts methods may have
    Invariants,     \* what loop invariants may say at some iteration
    MaxDepth,       \* bound: contexts on a stack
    MaxStatements   \* bound: statements of a method or loop body

VARIABLES
    stack,      \* the contexts of each thread, the running one first
    waiting,    \* the lock or thread each thread is waiting for
    owner,      \* the thread that has taken each lock
    taken,      \* the height of the stack at which each lock was taken
    started     \* whether each thread has been started, and may be joined

vars == <<stack, waiting, owner, taken, started>>

\* The obligations of a contract.  measures maps the target of each
\* obligation that has a measure to it, CThread standing for MustTerminate;
\* locks in fresh are MustRelease(l) without a measure; waits are those of
\* WaitLevel() < Level(l); gives and returns are the MustRelease of the
\* postcondition, without and with a measure.
ObligationsAssumption ==
    /\ Main \in Threads
    /\ IsFiniteSet(Threads)
    /\ Threads \cap Locks = {}
    /\ CThread \notin Locks
    /\ Nobody \notin Threads \cup Locks
    /\ Level \in [Locks -> Int]
    /\ \A q \in Contracts \cup Invariants :
        /\ DOMAIN q = {"measures", "fresh", "waits", "gives", "returns"}
        /\ DOMAIN q.measures \subseteq Locks \cup {CThread}
        /\ \A k \in DOMAIN q.measures : q.measures[k] \in Int
        /\ q.fresh \subseteq Locks \ DOMAIN q.measures
        /\ q.waits \subseteq Locks
        /\ q.gives \subseteq Locks
        /\ q.returns \subseteq Locks \ q.gives
    /\ MaxDepth \in Nat \ {0}
    /\ MaxStatements \in Nat

ASSUME ObligationsAssumption

None == [x \in {} |-> 0]

-----------------------------------------------------------------------------
(* Contexts and the checks on them.                                        *)

Measured(q) == DOMAIN q.measures \cap Locks

Promises(q) == CThread \in DOMAIN q.measures

Held(c) == c.bounded \cup c.unbounded

\* Measure$check: the value is below every measure of the map for the key.
Check(map, key, value) == key \in DOMAIN map => map[key] > value

\* Mutant: fresh obligations stay unbounded.
UnboundedBody(q) ==
    [contract |-> q, loop |-> FALSE, promised |-> Promises(q),
     calls |-> q.measures, bounded |-> Measured(q),
     unbounded |-> q.fresh, left |-> MaxStatements, children |-> None]

\* A method body: its fresh obligations become bounded, and the obligations
\* it has a measure for make up its measure map.
MethodBody(q) ==
    [contract |-> q, loop |-> FALSE, promised |-> Promises(q),
     calls |-> q.measures, bounded |-> Measured(q) \cup q.fresh,
     unbounded |-> {}, left |-> MaxStatements, children |-> None]

\* Mutant: calls in a loop are checked against the loop's measures.
IterationOwnMeasures(c, q, flag) ==
    [contract |-> q, loop |-> TRUE, promised |-> flag,
     calls |-> q.measures, bounded |-> Measured(q) \cup q.fresh,
     unbounded |-> {}, left |-> MaxStatements, children |-> c.children]

\* An iteration of a loop: like a method body, but calls are still checked
\* against the measures of the method around it.
Iteration(c, q, flag) ==
    [contract |-> q, loop |-> TRUE, promised |-> flag,
     calls |-> c.calls, bounded |-> Measured(q) \cup q.fresh,
     unbounded |-> {}, left |-> MaxStatements, children |-> c.children]

\* The exhale of MustRelease with a measure takes the bounded permission if
\* there is one and the measure is small enough, and the unbounded one if
\* not; without a measure it takes the unbounded one.
PaidBounded(c, q, map) ==
    {l \in Measured(q) \cap c.bounded : Check(map, l, q.measures[l])}

PaidUnbounded(c, q, map) == (Measured(q) \ PaidBounded(c, q, map)) \cup q.fresh

Payable(c, q, map) == PaidUnbounded(c, q, map) \subseteq c.unbounded

Pay(c, q, map) ==
    [c EXCEPT !.bounded = @ \ PaidBounded(c, q, map),
              !.unbounded = @ \ PaidUnbounded(c, q, map)]

Gain(c, bounded, unbounded) ==
    [c EXCEPT !.bounded = @ \cup bounded, !.unbounded = @ \cup unbounded]

\* What a postcondition takes from the callee; it checks no measure.
Postcondition(q) ==
    [q EXCEPT !.measures = [l \in q.returns |-> 0], !.fresh = q.gives]

PositiveMeasures(q) == \A k \in DOMAIN q.measures : q.measures[k] > 0

NoBoundedLeak(c) == c.bounded = {}                                \* mutant
NoLeak(c) == Held(c) = {}

\* WaitLevel() < Level(l): every lock in the heap is below l, and so is the
\* residue, which only the contract's own comparisons say anything about.
LevelBelowResidue(c, l) ==                                        \* mutant
    \E k \in c.contract.waits : Level[k] =< Level[l]
LevelBelow(c, l) ==
    /\ \A k \in Held(c) : Level[k] < Level[l]
    /\ \E k \in c.contract.waits : Level[k] =< Level[l]

WaitsBelow(c, q) == \A l \in q.waits : LevelBelow(c, l)

\* The callee promises to terminate in fewer steps than the caller has left,
\* or the caller has nothing to do afterwards.
CallerLeakIgnoringTermination(c, q) ==                            \* mutant
    \/ Promises(q) /\ Check(c.calls, CThread, q.measures[CThread])
    \/ NoLeak(c)
CallerLeakCheck(c, q) ==
    \/ Promises(q) /\ Check(c.calls, CThread, q.measures[CThread])
    \/ ~Promises(c.contract) /\ NoLeak(c)

Admits(c, q) ==
    /\ PositiveMeasures(q)
    /\ Payable(c, q, c.calls)
    /\ LET rest == Pay(c, q, c.calls)
       IN  WaitsBelow(rest, q) /\ CallerLeakCheck(rest, q)

-----------------------------------------------------------------------------
(* The contracts of Lock.acquire and Lock.release (lock.py), and of the    *)
(* main module, which knows its residue to be below the locks it creates.  *)

AcquireContract(l) ==
    [measures |-> [k \in {CThread} |-> 1], fresh |-> {}, waits |-> {l},
     gives |-> {l}, returns |-> {}]

ReleaseContract(l) ==
    [measures |-> [k \in {CThread, l} |-> 1], fresh |-> {}, waits |-> {},
     gives |-> {}, returns |-> {}]

MainContract ==
    [measures |-> None, fresh |-> {}, waits |-> Locks,
     gives |-> {}, returns |-> {}]

\* The positions of all contexts.
Contexts == UNION {{t} \X DOMAIN stack[t] : t \in Threads}

Init ==
    /\ stack = [t \in Threads |->
                    IF t = Main THEN <<MethodBody(MainContract)>> ELSE <<>>]
    /\ waiting = [t \in Threads |-> Nobody]
    /\ owner = [l \in Locks |-> Nobody]
    /\ taken = [l \in Locks |-> 0]
    /\ started = [t \in Threads |-> IF t = Main THEN "yes" ELSE "no"]

Runs(t) == stack[t] # <<>> /\ waiting[t] = Nobody

Top(t) == Head(stack[t])

\* The thread's next statement, which leaves its running context as c.
Performs(t, c) ==
    /\ c.left > 0
    /\ stack' = [stack EXCEPT ![t] = <<[c EXCEPT !.left = @ - 1]>> \o Tail(@)]

\* Locks taken higher up are, after a return, held by what is now on top.
Lower(t, height) ==
    taken' = [l \in Locks |->
        IF owner[l] = t /\ taken[l] > height THEN height ELSE taken[l]]

-----------------------------------------------------------------------------
(* Locks.  A blocking call is a request, which makes the checks, and a     *)
(* step that is possible when the thread need not wait.                    *)

RequestLock(t, l) ==
    /\ Runs(t)
    /\ Top(t).left > 0
    /\ Admits(Top(t), AcquireContract(l))
    /\ waiting' = [waiting EXCEPT ![t] = l]
    /\ UNCHANGED <<stack, owner, taken, started>>

ObtainLock(t, l) ==
    /\ waiting[t] = l
    /\ owner[l] = Nobody
    /\ waiting' = [waiting EXCEPT ![t] = Nobody]
    /\ owner' = [owner EXCEPT ![l] = t]
    /\ taken' = [taken EXCEPT ![l] = Len(stack[t])]
    /\ Performs(t, Gain(Top(t), {}, {l}))
    /\ UNCHANGED started

ReleaseLock(t, l) ==
    /\ Runs(t)
    /\ Top(t).left > 0
    /\ Admits(Top(t), ReleaseContract(l))
    /\ owner' = [owner EXCEPT ![l] = Nobody]
    /\ taken' = [taken EXCEPT ![l] = 0]
    /\ Performs(t, Pay(Top(t), ReleaseContract(l), Top(t).calls))
    /\ UNCHANGED <<waiting, started>>

-----------------------------------------------------------------------------
(* Methods.                                                                *)

Call(t, q) ==
    /\ Runs(t)
    /\ Len(stack[t]) < MaxDepth
    /\ Top(t).left > 0
    /\ Admits(Top(t), q)
    /\ LET caller == [Pay(Top(t), q, Top(t).calls) EXCEPT !.left = @ - 1]
       IN  stack' = [stack EXCEPT
                        ![t] = <<MethodBody(q), caller>> \o Tail(@)]
    /\ UNCHANGED <<waiting, owner, taken, started>>

\* The postcondition is exhaled, and nothing may be left after it.
Return(t) ==
    /\ Runs(t)
    /\ ~Top(t).loop
    /\ LET q == Top(t).contract
           post == Postcondition(q)
           below == Tail(stack[t])
       IN  /\ Payable(Top(t), post, None)
           /\ NoLeak(Pay(Top(t), post, None))
           /\ stack' = [stack EXCEPT ![t] =
                IF below = <<>> THEN <<>>
                ELSE <<Gain(Head(below), q.returns, q.gives)>> \o Tail(below)]
    /\ Lower(t, Len(stack[t]) - 1)
    /\ UNCHANGED <<waiting, owner, started>>

-----------------------------------------------------------------------------
(* Loops.  The invariant is exhaled before the loop, without a check of    *)
(* measures, and after each iteration, with one.                           *)

EnterLoop(t, q) ==
    /\ Runs(t)
    /\ Len(stack[t]) < MaxDepth
    /\ Top(t).left > 0
    /\ PositiveMeasures(q)
    /\ Payable(Top(t), q, None)
    /\ LET rest == Pay(Top(t), q, None)
       IN  /\ WaitsBelow(rest, q)
           /\ Promises(q) \/ (~Promises(rest.contract) /\ NoLeak(rest))
           /\ stack' = [stack EXCEPT
                ![t] = <<Iteration(rest, q, Promises(q)),
                         [rest EXCEPT !.left = @ - 1]>> \o Tail(@)]
    /\ UNCHANGED <<waiting, owner, taken, started>>

\* The condition is false at once: the invariant is exhaled and inhaled.
SkipLoop(t, q) ==
    /\ Runs(t)
    /\ Top(t).left > 0
    /\ Payable(Top(t), q, None)
    /\ LET rest == Pay(Top(t), q, None)
       IN  /\ WaitsBelow(rest, q)
           /\ Performs(t, Gain(rest, Measured(q), q.fresh))
    /\ UNCHANGED <<waiting, owner, taken, started>>

\* Mutant: the invariant's measures need not decrease.
BodyEndUnmeasured(t, q) ==
    /\ Runs(t)
    /\ Top(t).loop
    /\ Payable(Top(t), q, None)
    /\ LET rest == Pay(Top(t), q, None)
       IN  WaitsBelow(rest, q) /\ NoLeak(rest)

\* What is checked after every iteration, against the measures with which
\* the iteration started.
BodyEnd(t, q) ==
    /\ Runs(t)
    /\ Top(t).loop
    /\ Payable(Top(t), q, Top(t).contract.measures)
    /\ LET rest == Pay(Top(t), q, Top(t).contract.measures)
       IN  WaitsBelow(rest, q) /\ NoLeak(rest)

\* A loop that promised to terminate promises it again, in fewer iterations.
ContinuesForEver(c, q) == c.promised => Promises(q)                \* mutant
ContinuesToTerminate(c, q) ==
    c.promised =>
        Promises(q) /\ Check(c.contract.measures, CThread, q.measures[CThread])

Iterate(t, q) ==
    /\ BodyEnd(t, q)
    /\ PositiveMeasures(q)
    /\ ContinuesToTerminate(Top(t), q)
    /\ stack' = [stack EXCEPT
            ![t] = <<Iteration(Top(t), q, Top(t).promised)>> \o Tail(@)]
    /\ UNCHANGED <<waiting, owner, taken, started>>

LeaveLoop(t, q) ==
    /\ BodyEnd(t, q)
    /\ LET below == Tail(stack[t])
       IN  stack' = [stack EXCEPT ![t] =
                <<Gain(Head(below), Measured(q), q.fresh)>> \o Tail(below)]
    /\ Lower(t, Len(stack[t]) - 1)
    /\ UNCHANGED <<waiting, owner, started>>

-----------------------------------------------------------------------------
(* Threads.                                                                *)

\* The precondition is checked against the measures of the forking method's
\* own caller, of which nothing is known: a bounded obligation is never
\* enough.
MayHandOverHeld(c, q) == Measured(q) \cup q.fresh \subseteq Held(c)  \* mutant
MayHandOver(c, q) ==
    Measured(q) \cup q.fresh \subseteq c.unbounded \ c.bounded

\* The locks that stay with the forker are what it knows of the level of u.
WithChild(children, u, locks) ==
    [v \in DOMAIN children \cup {u} |->
        IF v \in DOMAIN children THEN children[v] ELSE locks]

\* The comparisons of wait levels in the precondition are not checked.  The
\* level of the thread is above the locks that stay with the forker and
\* above the residue of the forker's method.
Fork(t, u, q) ==
    /\ Runs(t)
    /\ Top(t).left > 0
    /\ started[u] = "no"
    /\ q.gives = {} /\ q.returns = {}
    /\ PositiveMeasures(q)
    /\ MayHandOver(Top(t), q)
    /\ LET locks == Measured(q) \cup q.fresh
           rest == [Top(t) EXCEPT !.unbounded = @ \ locks, !.left = @ - 1]
           forker == [rest EXCEPT !.children = WithChild(@, u, Held(rest))]
       IN  /\ stack' = [stack EXCEPT ![t] = <<forker>> \o Tail(@),
                                     ![u] = <<MethodBody(q)>>]
           /\ owner' = [l \in Locks |-> IF l \in locks THEN u ELSE owner[l]]
           /\ taken' = [l \in Locks |-> IF l \in locks THEN 0 ELSE taken[l]]
    /\ started' = [started EXCEPT
                    ![u] = IF Promises(q) THEN "joinable" ELSE "yes"]
    /\ UNCHANGED waiting

\* The thread's level must be above the locks in the heap; the residue is
\* that of the method, also in a loop, and so below it since the fork.
RequestJoin(t, u) ==
    /\ Runs(t)
    /\ Top(t).left > 0
    /\ u \in DOMAIN Top(t).children
    /\ started[u] = "joinable"
    /\ \A k \in Held(Top(t)) :
            \E l \in Top(t).children[u] : Level[k] =< Level[l]
    /\ waiting' = [waiting EXCEPT ![t] = u]
    /\ UNCHANGED <<stack, owner, taken, started>>

CompleteJoin(t, u) ==
    /\ waiting[t] = u
    /\ stack[u] = <<>>
    /\ waiting' = [waiting EXCEPT ![t] = Nobody]
    /\ Performs(t, Top(t))
    /\ UNCHANGED <<owner, taken, started>>

Next ==
    \E t \in Threads :
        \/ \E l \in Locks :
            RequestLock(t, l) \/ ObtainLock(t, l) \/ ReleaseLock(t, l)
        \/ \E q \in Contracts : Call(t, q)
        \/ Return(t)
        \/ \E q \in Invariants :
            \/ EnterLoop(t, q) \/ SkipLoop(t, q)
            \/ Iterate(t, q) \/ LeaveLoop(t, q)
        \/ \E u \in Threads, q \in Contracts : Fork(t, u, q)
        \/ \E u \in Threads : RequestJoin(t, u) \/ CompleteJoin(t, u)

Spec == Init /\ [][Next]_vars

-----------------------------------------------------------------------------
(* Properties.                                                             *)

Carriers(l) ==
    {p \in Contexts : l \in Held(stack[p[1]][p[2]])}

\* A lock that is taken is in the heap of exactly one context, of the thread
\* that has it, once: no call, loop, return or fork loses or duplicates the
\* obligation to release it (inexhale.py, method_node.py, loop_node.py).
EveryLockHasOneCarrier ==
    \A l \in Locks :
        /\ IF owner[l] = Nobody THEN Carriers(l) = {}
           ELSE \E i \in DOMAIN stack[owner[l]] :
                    Carriers(l) = {<<owner[l], i>>}
        /\ \A p \in Carriers(l) :
            l \notin stack[p[1]][p[2]].bounded \cap stack[p[1]][p[2]].unbounded

\* Whatever runs above a context that has a lock to release, or that has
\* promised to terminate, has itself promised to terminate: otherwise control
\* need not come back (the leak checks of method_node.py and loop_node.py).
CarriersAreComeBackTo ==
    \A t \in Threads : \A i, j \in DOMAIN stack[t] :
        /\ j < i
        /\ Held(stack[t][i]) # {} \/ stack[t][i].promised
        => stack[t][j].promised

\* Methods that promise to terminate call each other with ever smaller
\* measures, also out of loops, so there is no endless recursion.
TerminationMeasuresDecrease ==
    \A t \in Threads : \A i, j \in DOMAIN stack[t] :
        LET caller == stack[t][i]
            callee == stack[t][j]
        IN  /\ j < i /\ ~caller.loop /\ ~callee.loop
            /\ caller.promised /\ callee.promised
            => callee.calls[CThread] < caller.calls[CThread]

Asks(c, l) == ~c.loop /\ l \in Measured(c.contract) \cup c.contract.fresh

\* Methods that pass a lock on to be released by the method they call do so
\* with ever smaller measures, and only the first may have asked for it
\* without a measure, so it is not passed on for ever.
ReleaseMeasuresDecrease ==
    \A t \in Threads : \A l \in Locks : \A i, j \in DOMAIN stack[t] :
        LET first == stack[t][i]
            next == stack[t][j]
        IN  /\ owner[l] = t /\ j < i
            /\ Len(stack[t]) - i + 1 > taken[l]
            /\ Asks(first, l) /\ Asks(next, l)
            => /\ l \in DOMAIN next.calls
               /\ Check(first.calls, l, next.calls[l])

\* Neither a promise to terminate nor a lock to release is handed down for ever: the
\* measures along the methods of a thread decrease (measures.py, must_terminate.py,
\* must_release.py).
MeasuresDecrease == TerminationMeasuresDecrease /\ ReleaseMeasuresDecrease

\* A thread that has a lock for ever stops (its next statement is rejected,
\* or it waits): it never goes on running without releasing the lock.
LocksAreReleased ==
    \A t \in Threads : \A l \in Locks :
        <>[](owner[l] = t) => <>[][stack'[t] = stack[t]]_vars

PromisedAt(t, height) ==
    Len(stack[t]) >= height /\ stack[t][Len(stack[t]) - height + 1].promised

\* A thread that never leaves a method or loop that has promised to
\* terminate stops: it never goes on running in it.
PromisesAreKept ==
    \A t \in Threads : \A height \in 1 .. MaxDepth :
        <>[]PromisedAt(t, height) => <>[][stack'[t] = stack[t]]_vars

WaitsFor(t) == IF waiting[t] \in Locks THEN owner[waiting[t]] ELSE waiting[t]

NoCircleOf(waiters) ==
    \A circle \in (SUBSET waiters) \ {{}} :
        \E t \in circle : WaitsFor(t) \notin circle

\* Threads that take locks in the order of their levels never wait for each
\* other, or for themselves, in a circle; not even when the locks below are
\* in the heaps of other contexts and known only as the residue level.
LocksDoNotDeadlock == NoCircleOf({t \in Threads : waiting[t] \in Locks})

\* The same with the threads that wait for another thread to end: "Check
\* that thread wait level is above current wait level (prevents deadlocks)"
\* (translators/call.py:1643).
JoinsDoNotDeadlock == NoCircleOf({t \in Threads : waiting[t] # Nobody})

=============================================================================
