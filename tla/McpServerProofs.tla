-------------------------- MODULE McpServerProofs --------------------------
(***************************************************************************)
(* The MCP server uses the service as it may be used, and its calls keep   *)
(* to the workers, the event loop and the directories they were given.     *)
(* For every number of calls and workers.                                  *)
(***************************************************************************)
EXTENDS McpServer, VerificationServiceProofs, FiniteSetTheorems

USE DEF Goto, Return, Acquire, Release, CallGoes, LoopIsFree

----------------------------------------------------------------------------
(* Composition                                                             *)

\* A step of the MCP server is a step of the service, or none.
LEMMA ServiceStep == [McpNext]_mcpVars => [Next \/ Idle]_vars
<1> SUFFICES ASSUME [McpNext]_mcpVars PROVE [Next]_vars
  BY DEF Next
<1>1. ASSUME NEW r \in Requests, VerifyCallStep(r) \/ Environment(r) PROVE [Next]_vars
  <2>1. CASE Verify(r)
    BY <2>1 DEF Verify, RequestStep, Next
  <2>2. CASE WorkerReturns(r) \/ ReplyVerify(r)
    BY <2>2 DEF WorkerReturns, ReplyVerify
  <2>3. CASE Environment(r)
    BY <2>3 DEF Environment, Next
  <2> QED
    BY <1>1, <2>1, <2>2, <2>3 DEF VerifyCallStep
<1>2. ASSUME NEW x \in Tools, ToolStep(x) PROVE [Next]_vars
  BY <1>2 DEF ToolStep, Next
<1>3. ASSUME NEW x \in Tools, EnterTool(x) \/ LeaveTool(x) PROVE UNCHANGED vars
  BY <1>3 DEF EnterTool, LeaveTool
<1>4. ASSUME NEW k \in Cancellers, SendCancel(k) PROVE UNCHANGED vars
  BY <1>4 DEF SendCancel
<1>5. ASSUME NEW r \in Requests, BeginVerify(r) \/ GiveUp(r) PROVE UNCHANGED vars
  BY <1>5 DEF BeginVerify, GiveUp
<1>6. CASE TakeTask
  BY <1>6 DEF TakeTask
<1>7. CASE UNCHANGED mcpVars
  BY <1>7 DEF mcpVars
<1> QED
  BY <1>1, <1>2, <1>3, <1>4, <1>5, <1>6, <1>7 DEF McpNext, ToolCallStep

\* The MCP server keeps to the interface of the service, although its clients
\* give up calls and its tools share one event loop: what is proved of every
\* use of the service holds of this one.
THEOREM McpUsesTheService == McpSpec => Spec
<1>1. McpInit => Init
  BY DEF McpInit
<1> QED
  BY <1>1, ServiceStep, PTL DEF McpSpec, Spec

----------------------------------------------------------------------------
(* Workers                                                                 *)

\* A thread of the pool belongs to a call from its first step to its last,
\* whether or not the client still waits for it.
WorkersHeld ==
    /\ IsFiniteSet(running)
    /\ Cardinality(running) =< PoolSize
    /\ \A r \in Requests : pc[r] \notin {"idle", "done"} => r \in running

\* Only the requests in hand take steps.
LEMMA RequestMoves ==
    ASSUME TypeOK, NEW r \in Requests, RequestStep(r), NEW q \in Requests
    PROVE  /\ q # r => pc'[q] = pc[q]
           /\ UNCHANGED <<configPc, cancelPc>>
  BY DEF TypeOK, RequestStep, Dispatch, BeginTranslation, Analyze, Encode,
     FailTranslation, TakeSnapshot, ChooseArgs, SubmitJob, SubmitRaises, Register,
     Await, Deregister, InstallSnapshot, ConvertErrors, StartBackend, BackendRaises,
     SubmitSerially, SerialSubmitFails, SerialAnswer, configVars, cancelVars

LEMMA ToolMoves ==
    ASSUME NEW x \in Tools, ToolStep(x)
    PROVE  UNCHANGED pc
  BY DEF ToolStep, ConfigStep, LockConfig, AssignLive, AssignResources, Reload,
     CancelStep, CancelLookup, CancelStop, requestVars

LEMMA EnvironmentMoves ==
    ASSUME NEW r \in Requests, Environment(r)
    PROVE  UNCHANGED <<pc, configPc, cancelPc, toolVars>>
  BY DEF Environment, Finishes, Stops, serviceVars, requestVars, configVars, cancelVars

LEMMA WorkersStep ==
    McpAssumption /\ TypeOK /\ WorkersHeld /\ [McpNext]_mcpVars => WorkersHeld'
<1> SUFFICES ASSUME McpAssumption, TypeOK, WorkersHeld, [McpNext]_mcpVars
             PROVE  WorkersHeld'
  OBVIOUS
<1> USE DEF WorkersHeld
<1>1. CASE TakeTask
  <2>1. /\ IsFiniteSet(running \cup {Head(tasks)})
        /\ Cardinality(running \cup {Head(tasks)}) =< Cardinality(running) + 1
    <3>1. IsFiniteSet(running) /\ Cardinality(running) \in Nat
      BY FS_CardinalityType
    <3> QED
      BY <3>1, FS_AddElement
  <2>2. Cardinality(running) \in Nat /\ Cardinality(running) < PoolSize /\ PoolSize \in Nat
    BY <1>1, FS_CardinalityType DEF TakeTask, Occupied, McpAssumption
  <2>3. running' = running \cup {Head(tasks)} /\ UNCHANGED pc
    BY <1>1 DEF TakeTask, vars, requestVars
  <2>4. Cardinality(running') \in Nat
    BY <2>1, <2>3, FS_CardinalityType
  <2> QED
    BY <2>1, <2>2, <2>3, <2>4
<1>2. ASSUME NEW r \in Requests, Verify(r) PROVE WorkersHeld'
  <2>1. RequestStep(r) /\ r \in running /\ UNCHANGED running
    BY <1>2 DEF Verify, RequestStep, toolVars
  <2>2. \A q \in Requests : q # r => pc'[q] = pc[q]
    BY <2>1, RequestMoves
  <2> QED
    BY <2>1, <2>2
<1>3. ASSUME NEW r \in Requests, WorkerReturns(r) PROVE WorkersHeld'
  <2>1. /\ IsFiniteSet(running \ {r})
        /\ Cardinality(running \ {r}) =< Cardinality(running)
    <3>1. IsFiniteSet(running) /\ Cardinality(running) \in Nat
      BY FS_CardinalityType
    <3> QED
      BY <3>1, FS_RemoveElement
  <2>2. Cardinality(running) \in Nat /\ Cardinality(running \ {r}) \in Nat /\ PoolSize \in Nat
    BY <2>1, FS_CardinalityType DEF McpAssumption
  <2>3. running' = running \ {r} /\ pc[r] = "done" /\ UNCHANGED pc
    BY <1>3 DEF WorkerReturns, vars, requestVars
  <2> QED
    BY <2>1, <2>2, <2>3
<1>4. ASSUME NEW r \in Requests, BeginVerify(r) \/ GiveUp(r) \/ ReplyVerify(r)
      PROVE  UNCHANGED <<pc, running>>
  BY <1>4 DEF BeginVerify, GiveUp, ReplyVerify, vars, requestVars
<1>5. ASSUME NEW r \in Requests, Environment(r) PROVE UNCHANGED <<pc, running>>
  BY <1>5, EnvironmentMoves DEF toolVars
<1>6. ASSUME NEW x \in Tools, EnterTool(x) \/ ToolCallStep(x) PROVE UNCHANGED <<pc, running>>
  BY <1>6, ToolMoves DEF EnterTool, ToolCallStep, ToolStep, LeaveTool, vars, requestVars, toolVars
<1>7. ASSUME NEW k \in Cancellers, SendCancel(k) PROVE UNCHANGED <<pc, running>>
  BY <1>7 DEF SendCancel, vars, requestVars
<1>8. CASE UNCHANGED mcpVars
  BY <1>8 DEF mcpVars, toolVars, vars, requestVars
<1>9. CASE UNCHANGED <<pc, running>>
  BY <1>9
<1> QED
  BY <1>1, <1>2, <1>3, <1>4, <1>5, <1>6, <1>7, <1>8, <1>9 DEF McpNext, VerifyCallStep

LEMMA WorkersInvariant ==
    ASSUME McpAssumption
    PROVE  McpSpec => []WorkersHeld
<1>1. McpInit => WorkersHeld
  BY FS_EmptySet DEF McpAssumption, McpInit, Init, WorkersHeld
<1>2. McpSpec => []TypeOK
  BY McpUsesTheService, TypeCorrect, PTL
<1>3. TypeOK /\ WorkersHeld /\ [McpNext]_mcpVars => WorkersHeld'
  BY WorkersStep
<1> QED
  BY <1>1, <1>2, <1>3, PTL DEF McpSpec
----------------------------------------------------------------------------
(* Event loop and directories                                              *)

\* configure and cancel hold the event loop from their first step to their last.
LoopHeld ==
    /\ callPc \in [Calls -> {"unsent", "sent", "runs", "awaiting", "answered", "abandoned"}]
    /\ \A x \in Tools : UnderWay(x) => eventLoop = x
    /\ \A c \in Configurers : c = eventLoop \/ configPc[c] \in {"idle", "done"}
    /\ \A k \in Cancellers : k = eventLoop \/ cancelPc[k] \in {"idle", "done"}
    /\ directories = {r \in Snippets : callPc[r] = "awaiting"}

LEMMA LoopStep ==
    McpAssumption /\ TypeOK /\ LoopHeld /\ [McpNext]_mcpVars => LoopHeld'
<1> SUFFICES ASSUME McpAssumption, TypeOK, LoopHeld, [McpNext]_mcpVars
             PROVE  LoopHeld'
  OBVIOUS
<1> USE DEF LoopHeld, McpAssumption, Calls, Tools, UnderWay
<1>1. ASSUME NEW x \in Tools, ToolStep(x) PROVE LoopHeld'
  <2>1. eventLoop = x /\ UNCHANGED toolVars
    BY <1>1 DEF ToolStep
  <2>2. CASE x \in Configurers /\ ConfigStep(x)
    <3>1. UNCHANGED cancelPc /\ \A c \in Configurers : c # x => configPc'[c] = configPc[c]
      BY <2>2 DEF TypeOK, ConfigStep, LockConfig, AssignLive, AssignResources, Reload, cancelVars
    <3> QED
      BY <2>1, <2>2, <3>1 DEF toolVars
  <2>3. CASE x \in Cancellers /\ CancelStep(x)
    <3>1. UNCHANGED configPc /\ \A k \in Cancellers : k # x => cancelPc'[k] = cancelPc[k]
      BY <2>3 DEF TypeOK, CancelStep, CancelLookup, CancelStop, configVars
    <3> QED
      BY <2>1, <2>3, <3>1 DEF toolVars
  <2> QED
    BY <1>1, <2>2, <2>3 DEF ToolStep
<1>2. ASSUME NEW x \in Tools, LeaveTool(x) PROVE LoopHeld'
  BY <1>2 DEF LeaveTool, ToolIsDone, Leaves, vars, configVars, cancelVars
<1>3. ASSUME NEW x \in Tools, EnterTool(x) PROVE LoopHeld'
  BY <1>3 DEF EnterTool, vars, configVars, cancelVars
<1>4. ASSUME NEW k \in Cancellers, SendCancel(k) PROVE LoopHeld'
  BY <1>4 DEF SendCancel, vars, configVars, cancelVars
<1>5. ASSUME NEW r \in Requests, BeginVerify(r) PROVE LoopHeld'
  BY <1>5 DEF BeginVerify, vars, configVars, cancelVars
<1>6. ASSUME NEW r \in Requests, GiveUp(r) \/ ReplyVerify(r) PROVE LoopHeld'
  BY <1>6 DEF GiveUp, ReplyVerify, Removed, vars, configVars, cancelVars
<1>7. CASE UNCHANGED <<configPc, cancelPc, callPc, eventLoop, directories>>
  BY <1>7
<1>8. ASSUME NEW r \in Requests, Verify(r)
      PROVE  UNCHANGED <<configPc, cancelPc, callPc, eventLoop, directories>>
  BY <1>8, RequestMoves DEF Verify, RequestStep, toolVars
<1>9. ASSUME NEW r \in Requests, Environment(r)
      PROVE  UNCHANGED <<configPc, cancelPc, callPc, eventLoop, directories>>
  BY <1>9, EnvironmentMoves DEF toolVars
<1>10. ASSUME NEW r \in Requests, WorkerReturns(r)
       PROVE  UNCHANGED <<configPc, cancelPc, callPc, eventLoop, directories>>
  BY <1>10 DEF WorkerReturns, vars, configVars, cancelVars
<1>11. CASE TakeTask
  BY <1>7, <1>11 DEF TakeTask, vars, configVars, cancelVars
<1>12. CASE UNCHANGED mcpVars
  BY <1>7, <1>12 DEF mcpVars, toolVars, vars, configVars, cancelVars
<1> QED
  BY <1>1, <1>2, <1>3, <1>4, <1>5, <1>6, <1>7, <1>8, <1>9, <1>10, <1>11, <1>12
  DEF McpNext, VerifyCallStep, ToolCallStep

LEMMA LoopInvariant ==
    ASSUME McpAssumption
    PROVE  McpSpec => []LoopHeld
<1>1. McpInit => LoopHeld
  BY DEF McpAssumption, McpInit, Init, LoopHeld, Calls, Tools, UnderWay
<1>2. McpSpec => []TypeOK
  BY McpUsesTheService, TypeCorrect, PTL
<1>3. TypeOK /\ LoopHeld /\ [McpNext]_mcpVars => LoopHeld'
  BY LoopStep
<1> QED
  BY <1>1, <1>2, <1>3, PTL DEF McpSpec

\* No more verifications are under way than the pool has threads, configure and
\* cancel take turns, and the directories are those of the calls somebody waits
\* for (mcp_server.py): whatever clients give up, and whenever they do.
THEOREM McpResourcesAreAccounted ==
    ASSUME McpAssumption
    PROVE  McpSpec => []ResourcesAreAccounted
<1>1. WorkersHeld /\ LoopHeld => ResourcesAreAccounted
  <2> SUFFICES ASSUME WorkersHeld, LoopHeld PROVE ResourcesAreAccounted
    OBVIOUS
  <2> DEFINE Active == {r \in Requests : pc[r] \notin {"idle", "done"}}
  <2>1. Active \in SUBSET running /\ IsFiniteSet(running)
    BY DEF WorkersHeld
  <2> HIDE DEF Active
  <2>2. /\ IsFiniteSet(Active)
        /\ Cardinality(Active) =< Cardinality(running)
    BY <2>1, FS_Subset
  <2>3. Cardinality(Active) \in Nat /\ Cardinality(running) \in Nat
    BY <2>1, <2>2, FS_CardinalityType
  <2>4. Cardinality(Active) =< PoolSize
    BY <2>2, <2>3 DEF WorkersHeld, McpAssumption
  <2> QED
    BY <2>4 DEF ResourcesAreAccounted, LoopHeld, Active
<1> QED
  BY <1>1, WorkersInvariant, LoopInvariant, PTL

=============================================================================
