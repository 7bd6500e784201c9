----------------------------- MODULE McpServer -----------------------------
(***************************************************************************)
(* The MCP server (mcp_server.py) on top of the verification service.      *)
(*                                                                         *)
(* Its tools are calls of the service.  Those that verify are coroutines:  *)
(* they hand the call to a pool of worker threads and leave the event loop *)
(* until it returns; a snippet lives in a temporary directory meanwhile.   *)
(* configure and cancel are plain functions, which FastMCP calls on the    *)
(* event loop itself: while one of them waits, the server handles nothing  *)
(* else.  A client may give up a call that it is waiting for.              *)
(***************************************************************************)
EXTENDS VerificationService, Naturals, Sequences, FiniteSets

CONSTANTS
    PoolSize,       \* number of threads in _executor
    Snippets,       \* the requests made with verify_snippet
    NoCall          \* the event loop is free

VARIABLES
    callPc,         \* where each tool call is
    tasks,          \* requests waiting for a worker
    running,        \* requests that occupy one
    eventLoop,      \* the tool that occupies the event loop
    directories     \* requests whose temporary directory exists

toolVars == <<callPc, tasks, running, eventLoop, directories>>
mcpVars == <<vars, toolVars>>

Tools == Configurers \cup Cancellers
Calls == Requests \cup Tools

\* Each call is one of one tool, and the pool has at least one thread.
McpAssumption ==
    /\ PoolSize \in Nat \ {0}
    /\ Snippets \subseteq Requests
    /\ NoCall \notin Calls
    /\ Requests \cap Tools = {}
    /\ Configurers \cap Cancellers = {}

McpInit ==
    /\ Init
    /\ callPc = [x \in Calls |-> "unsent"]
    /\ tasks = <<>> /\ running = {}
    /\ eventLoop = NoCall
    /\ directories = {}

CallGoes(x, label) == callPc' = [callPc EXCEPT ![x] = label]

\* Mutant: the loop goes on with other calls while configure waits for a lock.
LoopIsLeft == eventLoop \in Configurers \cup {NoCall}

LoopIsFree == eventLoop = NoCall

----------------------------------------------------------------------------
(* The tools that verify.                                                  *)

\* The coroutine up to its await.
BeginVerify(r) ==
    /\ callPc[r] = "unsent"
    /\ LoopIsFree
    /\ directories' = directories \cup ({r} \cap Snippets)
    /\ tasks' = Append(tasks, r)
    /\ CallGoes(r, "awaiting")
    /\ UNCHANGED <<vars, running, eventLoop>>

\* Mutant: a call that the client gave up gives back its worker.
AwaitedOnly == {r \in running : callPc[r] = "awaiting"}

Occupied == running

TakeTask ==
    /\ tasks # <<>>
    /\ Cardinality(Occupied) < PoolSize
    /\ running' = running \cup {Head(tasks)}
    /\ tasks' = Tail(tasks)
    /\ UNCHANGED <<vars, callPc, eventLoop, directories>>

FileIsThere(r) == r \in Snippets => r \in directories

\* The analysis reads the file and fails without it.
Verify(r) ==
    /\ r \in running
    /\ IF pc[r] = "analyze" /\ ~FileIsThere(r)
       THEN FailTranslation(r) ELSE RequestStep(r)
    /\ UNCHANGED toolVars

WorkerReturns(r) ==
    /\ r \in running
    /\ pc[r] = "done"
    /\ running' = running \ {r}
    /\ UNCHANGED <<vars, callPc, tasks, eventLoop, directories>>

\* Mutant: the directory is removed only when verify returned normally.
RemovedOnSuccess(r) ==
    IF answer[r].kind = "raised" THEN directories ELSE directories \ {r}

\* The finally clause of verify_snippet.
Removed(r) == directories \ {r}

\* The coroutine after its await: a result, or the exception verify raised.
ReplyVerify(r) ==
    /\ callPc[r] = "awaiting"
    /\ pc[r] = "done" /\ r \notin running
    /\ LoopIsFree
    /\ directories' = Removed(r)
    /\ CallGoes(r, "answered")
    /\ UNCHANGED <<vars, tasks, running, eventLoop>>

\* The client gives up the call: the coroutine is cancelled at its await.  A
\* task that waits for a worker is dropped, one that runs goes on.
GiveUp(r) ==
    /\ callPc[r] = "awaiting"
    /\ LoopIsFree
    /\ directories' = Removed(r)
    /\ tasks' = SelectSeq(tasks, LAMBDA q : q # r)
    /\ CallGoes(r, "abandoned")
    /\ UNCHANGED <<vars, running, eventLoop>>

----------------------------------------------------------------------------
(* configure and cancel, on the event loop from beginning to end.          *)

\* A cancel call is on its way to the event loop: for all other calls, one that
\* the loop has not taken yet is as good as one that was never made.
SendCancel(k) ==
    /\ callPc[k] = "unsent"
    /\ CallGoes(k, "sent")
    /\ UNCHANGED <<vars, tasks, running, eventLoop, directories>>

EnterTool(x) ==
    /\ callPc[x] = IF x \in Cancellers THEN "sent" ELSE "unsent"
    /\ LoopIsFree
    /\ eventLoop' = x
    /\ CallGoes(x, "runs")
    /\ UNCHANGED <<vars, tasks, running, directories>>

ToolStep(x) ==
    /\ eventLoop = x
    /\ \/ x \in Configurers /\ ConfigStep(x)
       \/ x \in Cancellers /\ CancelStep(x)
    /\ UNCHANGED toolVars

ToolIsDone(x) ==
    \/ x \in Configurers /\ configPc[x] = "done"
    \/ x \in Cancellers /\ cancelPc[x] = "done"

\* Mutant: the tool's answer waits for the runs it was called about.
LeavesWhenIdle == IF running = {} THEN NoCall ELSE eventLoop

Leaves == NoCall

LeaveTool(x) ==
    /\ eventLoop = x
    /\ ToolIsDone(x)
    /\ eventLoop' = Leaves
    /\ CallGoes(x, "answered")
    /\ UNCHANGED <<vars, tasks, running, directories>>

----------------------------------------------------------------------------

VerifyCallStep(r) == Verify(r) \/ WorkerReturns(r) \/ ReplyVerify(r)

ToolCallStep(x) == ToolStep(x) \/ LeaveTool(x)

Environment(r) == (Finishes(r) \/ Stops(r)) /\ UNCHANGED toolVars

McpNext ==
    \/ \E k \in Cancellers : SendCancel(k)
    \/ TakeTask
    \/ \E r \in Requests :
        BeginVerify(r) \/ GiveUp(r) \/ VerifyCallStep(r) \/ Environment(r)
    \/ \E x \in Tools : EnterTool(x) \/ ToolCallStep(x)

\* The event loop, the pool and the workers are scheduled and stops are
\* delivered.  Jobs may run for ever, and nobody has to make or give up a call.
McpFairness ==
    /\ WF_mcpVars(TakeTask)
    /\ \A r \in Requests :
        /\ WF_mcpVars(VerifyCallStep(r))
        /\ WF_mcpVars(Stops(r) /\ UNCHANGED toolVars)
    /\ \A x \in Tools : WF_mcpVars(ToolCallStep(x))
    /\ \A k \in Cancellers : WF_mcpVars(EnterTool(k))

McpSpec == McpInit /\ [][McpNext]_mcpVars /\ McpFairness

----------------------------------------------------------------------------
(* Properties                                                              *)

UnderWay(x) ==
    \/ x \in Configurers /\ configPc[x] \notin {"idle", "done"}
    \/ x \in Cancellers /\ cancelPc[x] = "stop"

\* Whatever clients give up, no more verifications are under way in the service
\* than the pool has threads; configure and cancel take turns, so that no cancel
\* meets options of which only some are assigned; and the directories are those
\* of the snippets that somebody still waits for.
ResourcesAreAccounted ==
    /\ Cardinality({r \in Requests : pc[r] \notin {"idle", "done"}}) =< PoolSize
    /\ \A x \in Tools : UnderWay(x) => eventLoop = x
    /\ directories = {r \in Snippets : callPc[r] = "awaiting"}

\* configure waits on the event loop for a verification that holds the state
\* lock all the way through Viper.
LoopWaitsForViper ==
    /\ eventLoop \in Configurers
    /\ configPc[eventLoop] = "idle"
    /\ stateLock \in Requests
    /\ pc[stateLock] = "serialAwait"

Ends(x) == callPc[x] \in {"answered", "abandoned"}

\* A cancel call is served although no job ever ends by itself, as long as no
\* configure call keeps the event loop waiting for one.
CancelsAreServed ==
    []~LoopWaitsForViper =>
        \A k \in Cancellers : callPc[k] = "sent" ~> callPc[k] = "answered"

\* If all jobs end, every call ends, and no directory is left behind.
CallsEnd ==
    (\A r \in Requests : WF_mcpVars(Finishes(r) /\ UNCHANGED toolVars)) =>
        /\ \A x \in Calls :
            callPc[x] \in {"awaiting", "sent", "runs"} ~> Ends(x)
        /\ \A r \in Snippets : r \in directories ~> r \notin directories

\* What the tools of the MCP server promise (mcp_server.py): cancel gets
\* through to the service, every call comes to an end, snippets are removed.
EveryCallSettles == CancelsAreServed /\ CallsEnd

=============================================================================
