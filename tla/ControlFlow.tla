------------------------------ MODULE ControlFlow ------------------------------
(***************************************************************************)
(* How a Python method body becomes the body of a Viper method, and what    *)
(* the Viper body does: translators/statement.py and translators/method.py, *)
(* with the exception edges of translators/expression.py.                   *)
(*                                                                         *)
(* A Viper body is a list of instructions with labels and gotos.  Handlers, *)
(* else-blocks and finally-blocks stand at the end of the method and are    *)
(* reached by gotos; how the control flow goes on after a finally-block is  *)
(* kept in a "finally variable" per try block (Normal .. Continuing are the *)
(* codes 0 .. 4), a raised exception in an "error variable" per try block.  *)
(* The first part of the module is the translation, the second executes the *)
(* translated body.  Calls and tests have any outcome, at most MaxOutcomes  *)
(* of them other than "no"; a local variable that was never assigned has    *)
(* any value of Junk.                                                       *)
(***************************************************************************)
EXTENDS PythonFlow, SequencesExt, FiniteSets, TLC

CONSTANTS Bodies,        \* the method bodies to translate
          Exceptions,    \* the exceptions a call may raise
          Junk,          \* initial values of Viper locals
          MaxOutcomes,   \* how many outcomes of a run are chosen
          MaxEvents      \* how many events of a run are recorded

ASSUME FlowAssumption ==
  /\ Null \notin Exceptions
  /\ Junk \subseteq Exceptions \cup {Null}
  /\ MaxOutcomes \in Nat /\ MaxEvents \in Nat
  /\ ExitSwallows \in BOOLEAN

Normal     == "0"
Returning  == "1"
Raising    == "2"
Breaking   == "3"
Continuing == "4"

(* Labels and variables, named after the statement that introduces them.   *)
EndLabel           == <<"end", <<>>>>
RejectLabel        == <<"exhale false", <<>>>>
PostLabel(b)       == <<"post", b>>
FinallyLabel(b)    == <<"finally", b>>
ElseLabel(b)       == <<"try_else", b>>
HandlerLabel(b, h) == <<"handler", InHandler(b, h)>>
PostLoop(l)        == <<"post_loop", l>>
LoopHead(l)        == <<"while", l>>
LoopEndAtHead(l)   == LoopHead(l)                                    \* mutant
LoopEnd(l)         == <<"loop_end", l>>
CodeVar(b)         == <<"try_finally", b>>
ErrorVar(b)        == <<"error", b>>
MethodError        == <<"_err", <<>>>>
LocalError         == <<"error", <<>>>>
IterError(l)       == <<"iter_err", l>>

(* Assignments, conditions and instructions of the Viper body.             *)
Put(lhs, value) == [lhs |-> lhs, from |-> <<>>, value |-> value]
Copy(lhs, var)  == [lhs |-> lhs, from |-> var, value |-> Null]

IsCode(b, code)     == [test |-> "is", var |-> CodeVar(b), arg |-> code]
IsRaised(var)       == [test |-> "raised", var |-> var, arg |-> Null]
IsOfType(var, type) == [test |-> "isa", var |-> var, arg |-> type]

Label(l)            == [op |-> "label", name |-> l]
Set(assignments)    == [op |-> "set", sets |-> assignments]
Jump(when, sets, l) == [op |-> "jump", when |-> when, sets |-> sets, to |-> l]
Goto(l)             == Jump({}, <<>>, l)
Test(l)             == [op |-> "test", otherwise |-> l]
NextItem(l)            == [op |-> "next", loop |-> l]
Perform(what, p, b) == [op |-> "perform", what |-> what, at |-> p, block |-> b]
CallMethod(p, var)  == [op |-> "call", at |-> p, var |-> var]
SetResult(p)        == [op |-> "result", at |-> p]
SetResultNone       == [op |-> "none"]

(* The translated statement, and the code its try blocks put at the end.   *)
Parts(main, late) == [main |-> main, late |-> late]
Join(a, b) == Parts(a.main \o b.main, a.late \o b.late)

-----------------------------------------------------------------------------
(* The surroundings of a statement: the try blocks that protect it, inner  *)
(* to outer; the loop around it (<<>>: none); the try block whose handler  *)
(* binds a name here; whether the method declares exceptions.               *)

Block(s, p, env) ==
  [id |-> p, loop |-> env.loop, with |-> s.op = "with",
   types |-> IF s.op = "try"
             THEN [h \in DOMAIN s.handlers |-> s.handlers[h].type] ELSE <<>>,
   final |-> s.op = "try" /\ s.final # <<>>]

Protecting(env, block) == [env EXCEPT !.tries = <<block>> \o @]
Looping(env, p)        == [env EXCEPT !.loop = p]
Binding(env, p)        == [env EXCEPT !.bound = p]

(* The first block of ts that satisfies a condition ends the search.       *)
FirstIn(ts, good) ==
  CHOOSE i \in good : \A j \in good : i <= j
Finals(ts)    == {i \in DOMAIN ts : ts[i].final}
Finishers(ts) == {i \in DOMAIN ts : ts[i].final \/ ts[i].with}

(* The handlers an exception meets before it meets a finally-block.        *)
HandlersMet(ts, var, when) ==
  LET met == IF Finals(ts) = {} THEN Len(ts) ELSE FirstIn(ts, Finals(ts))
      of(b) == [h \in DOMAIN b.types |->
                  Jump(when \cup {IsOfType(var, b.types[h])}, <<>>,
                       HandlerLabel(b.id, h))]
  IN FlattenSeq([i \in 1..met |-> of(ts[i])])

GetErrorVar(env) ==
  IF env.tries # <<>> THEN ErrorVar(env.tries[1].id)
  ELSE IF env.declared THEN MethodError ELSE LocalError

(* An exception no handler takes leaves the method.                        *)
LeavesForgetting(when, var, env) == Jump(when, <<>>, EndLabel)        \* mutant
LeavesMethod(when, var, env) ==
  IF env.declared
  THEN Jump(when, <<Copy(MethodError, var)>>, EndLabel)
  ELSE Jump(when, <<>>, RejectLabel)

CreateExceptionCatchers(var, env) ==
  LET ts == env.tries
      b  == ts[FirstIn(ts, Finishers(ts))].id
  IN HandlersMet(ts, var, {IsRaised(var)})
     \o <<IF Finishers(ts) # {}
          THEN Jump({IsRaised(var)}, <<Put(CodeVar(b), Raising)>>,
                    FinallyLabel(b))
          ELSE LeavesMethod({IsRaised(var)}, var, env)>>

(* return, break and continue run the first finally-block they meet.       *)
ThroughFinally(env, code, l) ==
  LET ts == env.tries
      b  == ts[FirstIn(ts, Finishers(ts))].id
  IN IF Finishers(ts) = {} THEN Goto(l)
     ELSE Jump({}, <<Put(CodeVar(b), code)>>, FinallyLabel(b))

TranslateReturn(p, env)   == <<SetResult(p), ThroughFinally(env, Returning, EndLabel)>>
TranslateBreak(env)       == <<ThroughFinally(env, Breaking, PostLoop(env.loop))>>
TranslateContinue(env)    == <<ThroughFinally(env, Continuing, LoopEnd(env.loop))>>
TranslateRaise(exc, env)  ==
  LET var == GetErrorVar(env)
  IN <<Set(<<Put(var, exc)>>)>> \o CreateExceptionCatchers(var, env)
TranslateCall(p, env) ==
  LET var == GetErrorVar(env)
  IN <<CallMethod(p, var)>> \o CreateExceptionCatchers(var, env)

(* The end of a finally-block: where the finally variable sends the        *)
(* control flow.  ts are the blocks around this one.                       *)
Propagate(b, ts, among, code, l) ==
  LET next == ts[FirstIn(ts, among)].id
  IN IF among = {} THEN Jump({IsCode(b, code)}, <<>>, l)
     ELSE Jump({IsCode(b, code)}, <<Copy(CodeVar(next), CodeVar(b))>>,
               FinallyLabel(next))

LeaveFinally(block, env) ==
  LET b  == block.id
      ts == env.tries
      inSameLoop == {i \in Finals(ts) : ts[i].loop = block.loop}
      inLoop ==
        IF block.loop = <<>> THEN <<>>
        ELSE <<Propagate(b, ts, inSameLoop, Continuing, LoopEnd(block.loop)),
               Propagate(b, ts, inSameLoop, Breaking, PostLoop(block.loop))>>
      raising == {IsCode(b, Raising)}
      excepts ==
        HandlersMet(ts, ErrorVar(b), raising)
        \o <<IF Finals(ts) # {}
             THEN Propagate(b, ts, Finals(ts), Raising, EndLabel)
             ELSE LeavesMethod(raising, ErrorVar(b), env)>>
  IN inLoop \o excepts
     \o <<Propagate(b, ts, Finals(ts), Returning, EndLabel),
          Goto(PostLabel(b))>>

-----------------------------------------------------------------------------
(* The statements.                                                         *)

RECURSIVE TranslateBlock(_, _, _, _)

OpenBlockUnset(b) == <<>>                                            \* mutant
OpenBlock(b) == <<Set(<<Put(CodeVar(b), Normal)>>)>>

(* A handler or else-block goes on to its own finally-block, if any.       *)
TranslateHandler(label, parts, block) ==
  Parts(<<>>,
        <<Label(label)>> \o parts.main
        \o (IF block.final
            THEN <<Jump({}, <<Put(CodeVar(block.id), Normal)>>,
                        FinallyLabel(block.id))>>
            ELSE <<Goto(PostLabel(block.id))>>)
        \o parts.late)

TranslateFinally(parts, block, env) ==
  Parts(<<>>, <<Label(FinallyLabel(block.id))>> \o parts.main
              \o LeaveFinally(block, env) \o parts.late)

TranslateTry(s, p, env) ==
  LET block == Block(s, p, env)
      body  == TranslateBlock(s.body, InBody(p), 1, Protecting(env, block))
      on(h) == TranslateHandler(HandlerLabel(p, h),
                 TranslateBlock(s.handlers[h].body, InHandler(p, h), 1,
                                Binding(env, p)), block)
      else  == TranslateHandler(ElseLabel(p),
                 TranslateBlock(s.orelse, InElse(p), 1, env), block)
      final == TranslateFinally(
                 TranslateBlock(s.final, InFinal(p), 1, env), block, env)
      next  == IF s.orelse # <<>> THEN <<Goto(ElseLabel(p))>>
               ELSE IF block.final THEN <<Goto(FinallyLabel(p))>>
               ELSE <<>>
      late  == [h \in DOMAIN s.handlers |-> on(h).late]
  IN Parts(OpenBlock(p) \o body.main \o next \o <<Label(PostLabel(p))>>,
           body.late \o FlattenSeq(late)
           \o (IF s.orelse # <<>> THEN else.late ELSE <<>>)
           \o (IF block.final THEN final.late ELSE <<>>))

TranslateWith(s, p, env) ==
  LET block == Block(s, p, env)
      body  == TranslateBlock(s.body, InBody(p), 1, Protecting(env, block))
      final == TranslateFinally(Parts(<<Perform("exit", p, p)>>, <<>>),
                                block, env)
  IN Parts(<<Perform("enter", p, p)>> \o OpenBlock(p) \o body.main
             \o <<Goto(FinallyLabel(p)), Label(PostLabel(p))>>,
           body.late \o final.late)

TranslateIf(s, p, env) ==
  LET then == TranslateBlock(s.body, InBody(p), 1, env)
      else == TranslateBlock(s.orelse, InElse(p), 1, env)
      no   == <<"else", p>>
      end  == <<"endif", p>>
  IN Parts(<<Test(no)>> \o then.main \o <<Goto(end), Label(no)>> \o else.main
             \o <<Label(end)>>,
           then.late \o else.late)

TranslateWhile(s, p, env) ==
  LET body == TranslateBlock(s.body, InBody(p), 1, Looping(env, p))
      else == TranslateBlock(s.orelse, InElse(p), 1, Looping(env, p))
      head == LoopHead(p)
      exit == <<"exit", p>>
  IN Parts(<<Label(head), Test(exit)>> \o body.main
             \o <<Label(LoopEnd(p)), Goto(head), Label(exit)>> \o else.main
             \o <<Label(PostLoop(p)), SetResultNone>>,
           body.late \o else.late)

TranslateFor(s, p, env) ==
  LET body == TranslateBlock(s.body, InBody(p), 1, Looping(env, p))
      else == TranslateBlock(s.orelse, InElse(p), 1, Looping(env, p))
      head == LoopHead(p)
      exit == <<"exit", p>>
  IN Parts(<<NextItem(p), Label(head), Jump({IsRaised(IterError(p))}, <<>>, exit)>>
             \o body.main \o <<Label(LoopEnd(p)), NextItem(p), Goto(head),
                               Label(exit), SetResultNone>>
             \o else.main \o <<Label(PostLoop(p)), SetResultNone>>,
           body.late \o else.late)

TranslateStmt(s, p, env) ==
  CASE s.op = "mark"     -> Parts(<<Perform("done", p, p)>>, <<>>)
    [] s.op = "show"     -> Parts(<<Perform("shown", p, env.bound)>>, <<>>)
    [] s.op = "call"     -> Parts(TranslateCall(p, env), <<>>)
    [] s.op = "raise"    -> Parts(TranslateRaise(s.exc, env), <<>>)
    [] s.op = "return"   -> Parts(TranslateReturn(p, env), <<>>)
    [] s.op = "break"    -> Parts(TranslateBreak(env), <<>>)
    [] s.op = "continue" -> Parts(TranslateContinue(env), <<>>)
    [] s.op = "if"       -> TranslateIf(s, p, env)
    [] s.op = "while"    -> TranslateWhile(s, p, env)
    [] s.op = "for"      -> TranslateFor(s, p, env)
    [] s.op = "try"      -> TranslateTry(s, p, env)
    [] s.op = "with"     -> TranslateWith(s, p, env)

TranslateBlock(b, p, i, env) ==
  IF i > Len(b) THEN Parts(<<>>, <<>>)
  ELSE Join(TranslateStmt(b[i], p \o <<i>>, env),
            TranslateBlock(b, p, i + 1, env))

TranslateMethod(b, declared) ==
  LET parts == TranslateBlock(b, <<>>, 1,
                 [tries |-> <<>>, loop |-> <<>>, bound |-> <<>>,
                  declared |-> declared])
  IN <<Set(<<Put(MethodError, Null)>>)>> \o parts.main \o <<Goto(EndLabel)>>
     \o parts.late \o <<Label(EndLabel), Label(RejectLabel)>>

-----------------------------------------------------------------------------
(* The Viper method, executed.                                             *)

VARIABLES body,       \* the Python body that was translated
          declared,   \* whether the method declares exceptions
          junk,       \* what unassigned locals hold
          code,       \* the Viper body
          pc,         \* the instruction to execute next
          store,      \* finally variables and error variables
          result,     \* the return statement that set the result, <<>>: null
          outcomes,   \* outcomes of calls and tests so far
          events      \* what was observed so far

vars == <<body, declared, junk, code, pc, store, result, outcomes, events>>

Instr    == code[pc]
At(l)    == CHOOSE i \in DOMAIN code : code[i] = Label(l)
Value(v) == IF v \in DOMAIN store THEN store[v] ELSE junk
Assign(sets) ==
  store' = FoldLeft(LAMBDA st, a :
                      (a.lhs :> IF a.from = <<>> THEN a.value
                                ELSE IF a.from \in DOMAIN st THEN st[a.from]
                                ELSE junk) @@ st,
                    store, sets)

Holds(c) == CASE c.test = "is"     -> Value(c.var) = c.arg
              [] c.test = "raised" -> Value(c.var) # Null
              [] c.test = "isa"    -> IsA(Value(c.var), c.arg)

(* __exit__ gets the exception if the code is an exception's, else None.   *)
ExitArgument(b) ==
  IF Value(CodeVar(b)) \notin {Normal, Returning} THEN Value(ErrorVar(b))
  ELSE Null

Observed(i) ==
  CASE i.what = "shown" -> Shown(i.at, Value(ErrorVar(i.block)))
    [] i.what = "exit"  -> Exited(i.at, ExitArgument(i.block))
    [] i.what = "enter" -> Entered(i.at)
    [] i.what = "done"  -> Done(i.at)

PossibleOutcomes == IF Len(outcomes) < MaxOutcomes
           THEN Exceptions \cup {"no"} ELSE {"no"}

(* Outcomes after the last chosen one are "no", for Python as well.         *)
Choose(o) == outcomes' = IF Len(outcomes) < MaxOutcomes
                         THEN Append(outcomes, o) ELSE outcomes

Observe(e) == events' = IF Len(events) < MaxEvents THEN Append(events, e)
                                                  ELSE events

Init ==
  /\ body \in Bodies
  /\ declared \in BOOLEAN
  /\ junk \in Junk
  /\ code = TranslateMethod(body, declared)
  /\ pc = 1
  /\ store = << >>
  /\ result = <<>>
  /\ outcomes = <<>>
  /\ events = <<>>

Stopped == Instr \in {Label(EndLabel), Label(RejectLabel)}

Step(op) == Instr.op = op /\ UNCHANGED <<body, declared, junk, code>>

PassLabel ==
  /\ Step("label")
  /\ ~Stopped
  /\ pc' = pc + 1
  /\ UNCHANGED <<store, result, outcomes, events>>

AssignVariables ==
  /\ Step("set")
  /\ Assign(Instr.sets)
  /\ pc' = pc + 1
  /\ UNCHANGED <<result, outcomes, events>>

TakeJump ==
  /\ Step("jump")
  /\ \A c \in Instr.when : Holds(c)
  /\ Assign(Instr.sets)
  /\ pc' = At(Instr.to)
  /\ UNCHANGED <<result, outcomes, events>>

SkipJump ==
  /\ Step("jump")
  /\ \E c \in Instr.when : ~Holds(c)
  /\ pc' = pc + 1
  /\ UNCHANGED <<store, result, outcomes, events>>

PerformStatement ==
  /\ Step("perform")
  /\ Observe(Observed(Instr))
  /\ pc' = pc + 1
  /\ UNCHANGED <<store, result, outcomes>>

(* The called method assigns its error output, null included.              *)
ReturnFromCall ==
  /\ Step("call")
  /\ \E o \in PossibleOutcomes :
       /\ Choose(o)
       /\ Assign(<<Put(Instr.var, IF o = "no" THEN Null ELSE o)>>)
  /\ Observe(Done(Instr.at))
  /\ pc' = pc + 1
  /\ UNCHANGED result

EvaluateTest ==
  /\ Step("test")
  /\ \E o \in PossibleOutcomes :
       /\ Choose(o)
       /\ pc' = IF o = "no" THEN At(Instr.otherwise) ELSE pc + 1
  /\ UNCHANGED <<store, result, events>>

(* Iterator.__next__: the error variable tells that nothing is left.       *)
CallNext ==
  /\ Step("next")
  /\ \E o \in PossibleOutcomes :
       /\ Choose(o)
       /\ Assign(<<Put(IterError(Instr.loop),
                       IF o = "no" THEN "StopIteration" ELSE Null)>>)
  /\ pc' = pc + 1
  /\ UNCHANGED <<result, events>>

AssignResult ==
  /\ Step("result")
  /\ result' = Instr.at
  /\ pc' = pc + 1
  /\ UNCHANGED <<store, outcomes, events>>

ForgetResult ==
  /\ Step("none")
  /\ result' = <<>>
  /\ IF declared THEN Assign(<<Put(MethodError, Null)>>) ELSE UNCHANGED store
  /\ pc' = pc + 1
  /\ UNCHANGED <<outcomes, events>>

Finished == Stopped /\ UNCHANGED vars

Next ==
  \/ PassLabel \/ AssignVariables \/ TakeJump \/ SkipJump
  \/ PerformStatement \/ ReturnFromCall \/ EvaluateTest \/ CallNext
  \/ AssignResult \/ ForgetResult \/ Finished

Spec == Init /\ [][Next]_vars /\ WF_vars(Next)

-----------------------------------------------------------------------------
(* The properties.                                                         *)

Python == Run(body, outcomes)

(* How the Viper method ends, in Python's terms.                           *)
Ending ==
  IF Instr = Label(RejectLabel) THEN Completes("raise", <<>>, Null)
  ELSE IF Value(MethodError) # Null
       THEN Completes("raise", <<>>, Value(MethodError))
       ELSE Completes("return", result, Null)

(* Falling off the end of a body returns None.                             *)
PythonEnding ==
  LET last == Python.last
  IN IF last.how = "raise"
     THEN [last EXCEPT !.exc = IF declared THEN @ ELSE Null]
     ELSE Completes("return", last.at, Null)

(* The statements, handlers, finally-blocks and __exit__ calls that the    *)
(* Viper body runs are those that Python runs, in Python's order and with  *)
(* the exceptions Python hands to them, and the Viper body leaves the      *)
(* method as Python does: with the result of the last return, with the     *)
(* exception no handler took, and by rejecting it when the method declares *)
(* none.                                                                   *)
RunsLikePython == Stopped => events = Python.events /\ Ending = PythonEnding

(* The gotos add no endless loop: the Viper body ends on every run on      *)
(* which the Python body does (the outcomes of a run become "no" at last). *)
AlwaysLeaves == <>Stopped

=============================================================================
