------------------------------ MODULE PythonFlow ------------------------------
(***************************************************************************)
(* Python's own control flow, as the reference for the encoding in         *)
(* ControlFlow: what a method body does when its statements are executed    *)
(* by Python, given the outcomes of its calls and of its tests.             *)
(*                                                                         *)
(* A body is a sequence of statements.  A statement is known by its path:   *)
(* the indices that lead to it, each after the slot of the enclosing        *)
(* statement it is found in.  Only control flow is kept: "mark" stands for  *)
(* any statement that completes normally, "show" for one that reads the     *)
(* name a handler gives to the exception.                                   *)
(***************************************************************************)
EXTENDS Naturals, Sequences

CONSTANT ExitSwallows     \* whether __exit__ returns a true value

Null == "null"

Mark       == [op |-> "mark"]
Show       == [op |-> "show"]
Call       == [op |-> "call"]
Return     == [op |-> "return"]
Break      == [op |-> "break"]
Continue   == [op |-> "continue"]
Raise(exc) == [op |-> "raise", exc |-> exc]
If(body, orelse)    == [op |-> "if", body |-> body, orelse |-> orelse]
While(body, orelse) == [op |-> "while", body |-> body, orelse |-> orelse]
For(body, orelse)   == [op |-> "for", body |-> body, orelse |-> orelse]
With(body)          == [op |-> "with", body |-> body]
Handler(type, body) == [type |-> type, body |-> body]
Try(body, handlers, orelse, final) ==
  [op |-> "try", body |-> body, handlers |-> handlers, orelse |-> orelse,
   final |-> final]

(* The slots of a compound statement.                                      *)
InBody(p)       == p \o <<1>>
InElse(p)       == p \o <<2>>
InFinal(p)      == p \o <<3>>
InHandler(p, h) == p \o <<3 + h>>

(* isinstance of an exception (null is no exception).                      *)
IsA(exc, type) == exc # Null /\ type \in {exc, "Exception"}

(* What a method does that can be observed.                                *)
Done(p)         == [at |-> p, what |-> "done", exc |-> Null]
Shown(p, exc)   == [at |-> p, what |-> "shown", exc |-> exc]
Entered(p)      == [at |-> p, what |-> "enter", exc |-> Null]
Exited(p, exc)  == [at |-> p, what |-> "exit", exc |-> exc]

(* How a statement completes.                                              *)
Completes(how, at, exc) == [how |-> how, at |-> at, exc |-> exc]
Normally                == Completes("normal", <<>>, Null)

-----------------------------------------------------------------------------
(* A run: the events so far, how the last statement completed, how many of *)
(* the outcomes are used up, and the exception a handler has bound.        *)
(* Outcomes beyond the given ones are "no": no exception, test is false.   *)

Outcome(given, r) ==
  IF r.used < Len(given) THEN given[r.used + 1] ELSE "no"

Use(r) == [r EXCEPT !.used = @ + 1]
Emit(r, e) == [r EXCEPT !.events = Append(@, e)]
Completing(r, c) == [r EXCEPT !.last = c]
Raises(r, exc) == Completing(r, Completes("raise", <<>>, exc))

RECURSIVE RunBlock(_, _, _, _, _)
RECURSIVE RunLoop(_, _, _, _)

(* __exit__ is told the exception; a true result swallows it.              *)
Exits(r, p) ==
  LET e == Emit(r, Exited(p, r.last.exc))
  IN IF ExitSwallows /\ r.last.how = "raise"
     THEN Completing(e, Normally)
     ELSE e

RunTry(s, p, given, r) ==
  LET tried    == RunBlock(s.body, InBody(p), 1, given, r)
      matching == {h \in DOMAIN s.handlers :
                     /\ tried.last.how = "raise"
                     /\ IsA(tried.last.exc, s.handlers[h].type)}
      first    == CHOOSE h \in matching : \A g \in matching : h <= g
      handled  ==
        IF matching # {}
        THEN [RunBlock(s.handlers[first].body, InHandler(p, first), 1, given,
                       [tried EXCEPT !.last = Normally,
                                     !.bound = tried.last.exc])
              EXCEPT !.bound = r.bound]
        ELSE IF tried.last.how = "normal"
             THEN RunBlock(s.orelse, InElse(p), 1, given, tried)
             ELSE tried
      ended    == RunBlock(s.final, InFinal(p), 1, given,
                           Completing(handled, Normally))
  IN IF ended.last.how = "normal"
     THEN Completing(ended, handled.last)
     ELSE ended

RunStmt(s, p, given, r) ==
  CASE s.op = "mark"     -> Emit(r, Done(p))
    [] s.op = "show"     -> Emit(r, Shown(p, r.bound))
    [] s.op = "call"     -> LET e == Emit(Use(r), Done(p))
                                o == Outcome(given, r)
                            IN IF o = "no" THEN e ELSE Raises(e, o)
    [] s.op = "raise"    -> Raises(r, s.exc)
    [] s.op = "return"   -> Completing(r, Completes("return", p, Null))
    [] s.op = "break"    -> Completing(r, Completes("break", <<>>, Null))
    [] s.op = "continue" -> Completing(r, Completes("continue", <<>>, Null))
    [] s.op = "if"       ->
         IF Outcome(given, r) # "no"
         THEN RunBlock(s.body, InBody(p), 1, given, Use(r))
         ELSE RunBlock(s.orelse, InElse(p), 1, given, Use(r))
    [] s.op \in {"while", "for"} -> RunLoop(s, p, given, r)
    [] s.op = "with"     ->
         Exits(RunBlock(s.body, InBody(p), 1, given, Emit(r, Entered(p))), p)
    [] s.op = "try"      -> RunTry(s, p, given, r)

RunBlock(b, p, i, given, r) ==
  IF i > Len(b) \/ r.last.how # "normal"
  THEN r
  ELSE RunBlock(b, p, i + 1, given, RunStmt(b[i], p \o <<i>>, given, r))

RunLoop(s, p, given, r) ==
  IF Outcome(given, r) = "no"
  THEN RunBlock(s.orelse, InElse(p), 1, given, Use(r))
  ELSE LET once == RunBlock(s.body, InBody(p), 1, given, Use(r))
       IN CASE once.last.how \in {"normal", "continue"} ->
                 RunLoop(s, p, given, Completing(once, Normally))
            [] once.last.how = "break" -> Completing(once, Normally)
            [] OTHER -> once

(* The run of a whole method.                                              *)
Run(body, given) ==
  RunBlock(body, <<>>, 1, given,
           [events |-> <<>>, last |-> Normally, used |-> 0, bound |-> Null])

=============================================================================
