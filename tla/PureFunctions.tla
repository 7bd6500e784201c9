---------------------------- MODULE PureFunctions ----------------------------
(***************************************************************************)
(* The body of a function marked Pure becomes one Viper expression: the    *)
(* statements are flattened to a list of guarded assignments, returns and  *)
(* assertions (the wrappers), each assignment gets a variable of its own,  *)
(* and the list is turned, from its end, into nested lets and conditional  *)
(* expressions.  The module translates a body, evaluates the expression    *)
(* for some arguments, and runs the body as Python does.                   *)
(*                                                                         *)
(* Statements have an op: assign, aug (n += e), return, if, assert,        *)
(* unfold, match.  Expressions: const, var, add, eq, inv (1 // e, which is *)
(* not defined for 0), field (which needs the predicate to be unfolded).   *)
(* A case has a pattern (any value, or one), the name it binds or None, a  *)
(* guard or None, and a body.                                              *)
(***************************************************************************)
EXTENDS Integers, Sequences, SequencesExt, TLC

CONSTANTS Functions,    \* sequence of sets of function bodies
          Arguments,    \* set of argument values, one per parameter
          None

VARIABLES task,     \* the function and the arguments at hand
          state     \* its translation, then both results

vars == <<task, state>>

NullValue == 99
FieldValue == 1

\* The outcome of an evaluation: a value, or a failure that verification reports
\* and on which Python raises an exception.
Good(v) == [ok |-> TRUE, v |-> v]
Bad == [ok |-> FALSE, v |-> 0]
Truth(v) == v \notin {0, NullValue}
Bool(b) == IF b THEN 1 ELSE 0

SumOf(l, r) == IF l.ok /\ r.ok /\ NullValue \notin {l.v, r.v} THEN Good(l.v + r.v) ELSE Bad
Same(l, r) == IF l.ok /\ r.ok THEN Good(Bool(l.v = r.v)) ELSE Bad
InverseOf(e) == IF e.ok /\ e.v \notin {0, NullValue} THEN Good(1 \div e.v) ELSE Bad

-----------------------------------------------------------------------------
(* Statements to wrappers *)

Wrapper(kind, conds, e) == [kind |-> kind, conds |-> conds, e |-> e, name |-> None, user |-> FALSE]

Assigned(name, conds, e, user) == [Wrapper("assign", conds, e) EXCEPT !.name = name, !.user = user]

Holds(var) == [var |-> var, neg |-> FALSE]
Fails(var) == [var |-> var, neg |-> TRUE]

RECURSIVE TranslatePure(_, _, _)
TranslateBody(conds, ss, at) ==
  FlattenSeq([i \in DOMAIN ss |-> TranslatePure(conds, ss[i], Append(at, i))])

TranslatePureIf(conds, s, at) ==
  LET cond == <<"cond">> \o at
  IN  <<Assigned(cond, conds, s.c, FALSE)>>
        \o TranslateBody(Append(conds, Holds(cond)), s.t, Append(at, 1))
        \o TranslateBody(Append(conds, Fails(cond)), s.f, Append(at, 2))

\* Names are sequences: that of a Python variable, and that of a helper variable
\* with the place of its statement.
CaseName(at, i) == <<"case", i>> \o at

\* Mutant: a case is also tried when an earlier one was taken.
OwnConditionOnly(conds, cases, i, at) == Append(conds, Holds(CaseName(at, i)))

\* A case is for what the cases before it left over.
CaseConditions(conds, cases, i, at) ==
  conds \o [j \in 1..(i - 1) |-> Fails(CaseName(at, j))]
        \o <<Holds(CaseName(at, i))>>

TranslatePureMatch(conds, s, at) ==
  LET subject == <<"subject">> \o at
      caseOf(i) ==
        LET c == s.cases[i]
            inside == CaseConditions(conds, s.cases, i, at)
            test == [op |-> "pattern", case |-> c, subject |-> subject]
            binding == IF c.name = None THEN <<>>
                       ELSE <<Assigned(<<c.name>>, inside, [op |-> "alias", var |-> subject], TRUE)>>
        IN  <<Assigned(CaseName(at, i), Front(inside), test, FALSE)>>
              \o binding \o TranslateBody(inside, c.body, at \o <<i, 1>>)
  IN  <<Assigned(subject, conds, s.e, FALSE)>> \o FlattenSeq([i \in DOMAIN s.cases |-> caseOf(i)])

TranslatePure(conds, s, at) ==
  CASE s.op = "assign" -> <<Assigned(<<s.n>>, conds, s.e, TRUE)>>
    [] s.op = "aug"    -> <<Assigned(<<s.n>>, conds, [op |-> "aug", n |-> s.n, e |-> s.e], TRUE)>>
    [] s.op = "if"     -> TranslatePureIf(conds, s, at)
    [] s.op = "match"  -> TranslatePureMatch(conds, s, at)
    [] s.op \in {"return", "assert", "unfold"} -> <<Wrapper(s.op, conds, s.e)>>

\* The variable each name stands for at the i-th wrapper: that of the last
\* assignment before it.
CollectNames(ws, i) ==
  LET before(n) == {j \in 1..(i - 1) : ws[j].kind = "assign" /\ ws[j].name = n}
  IN  [n \in {ws[j].name : j \in {j \in 1..(i - 1) : ws[j].kind = "assign"}} |->
         CHOOSE j \in before(n) : \A k \in before(n) : k =< j]

-----------------------------------------------------------------------------
(* Wrappers to an expression *)

\* A wrapper with the variables its names stand for and its variable, its index.
Resolved(ws, i) == [w |-> ws[i], names |-> CollectNames(ws, i), var |-> i]

TranslateReturn(r, previous) ==
  [op |-> "cond", at |-> r, t |-> [op |-> "value", at |-> r],
   f |-> IF previous = None THEN [op |-> "bad"] ELSE previous]

\* Mutant: the value of the variable is not kept where the condition is false.
NothingOld(r) == None

\* What a conditional assignment leaves where its condition is false: the old
\* value, and a dummy when there is none.
OldValue(r) == IF r.w.name \in DOMAIN r.names THEN r.names[r.w.name] ELSE None

TranslateAssign(r, previous) ==
  [op |-> "let", at |-> r, var |-> r.var, old |-> OldValue(r), body |-> previous]

TranslateAssert(r, previous) ==
  [op |-> "cond", at |-> r, t |-> [op |-> "asserting", at |-> r, body |-> previous], f |-> previous]

TranslateUnfold(r, previous) ==
  [op |-> "cond", at |-> r, t |-> [op |-> "unfolding", at |-> r, body |-> previous], f |-> previous]

TranslateWrapper(r, previous) ==
  CASE r.w.kind = "return" -> TranslateReturn(r, previous)
    [] r.w.kind = "assign" -> TranslateAssign(r, previous)
    [] r.w.kind = "assert" -> TranslateAssert(r, previous)
    [] r.w.kind = "unfold" -> TranslateUnfold(r, previous)

\* From the last wrapper to the first.
TranslateExprs(ws) ==
  FoldRight(LAMBDA i, previous : TranslateWrapper(Resolved(ws, i), previous),
            [i \in DOMAIN ws |-> i], None)

\* Dead code, a missing return, and += on a name that was not assigned (on which
\* the translator itself fails) are refused.
Refused(ws) ==
  \/ ws = <<>> \/ Last(ws).kind # "return"
  \/ \E i \in 1..(Len(ws) - 1) : ws[i].kind = "return" /\ ws[i].conds = <<>>
  \/ \E i \in DOMAIN ws : ws[i].e.op = "aug" /\ <<ws[i].e.n>> \notin DOMAIN CollectNames(ws, i)

-----------------------------------------------------------------------------
(* The value of the expression *)

\* s.vars holds the let-bound variables, s.args the arguments, s.defined the
\* names for which _isDefined is known.
RefOf(r, name, s) == IF name \in DOMAIN r.names THEN Good(s.vars[r.names[name]])
                     ELSE IF Head(name) \in DOMAIN s.args THEN Good(s.args[Head(name)]) ELSE Bad

\* A local variable is read through a check that it is defined.
VariableOf(r, name, s) ==
  IF Head(name) \in DOMAIN s.args \/ name \in s.defined THEN RefOf(r, name, s) ELSE Bad

RECURSIVE ValueOf(_, _, _)
PatternHolds(r, e, s) ==
  LET c == e.case
      v == RefOf(r, e.subject, s)
      \* The guard reads the subject under the name the pattern gives it.
      aliased == IF c.name = None THEN s
                 ELSE [s EXCEPT !.vars = (0 :> v.v) @@ @, !.defined = @ \cup {<<c.name>>}]
      renamed == IF c.name = None THEN r ELSE [r EXCEPT !.names = (<<c.name>> :> 0) @@ @]
      matches == c.value \in {None, v.v}
  IN  IF ~ matches THEN Good(0)
      ELSE IF c.guard = None THEN Good(1) ELSE ValueOf(renamed, c.guard, aliased)

ValueOf(r, e, s) ==
  CASE e.op = "const" -> Good(e.v)
    [] e.op = "var"   -> VariableOf(r, <<e.n>>, s)
    [] e.op = "alias" -> RefOf(r, e.var, s)
    [] e.op = "add"   -> SumOf(ValueOf(r, e.l, s), ValueOf(r, e.r, s))
    [] e.op = "aug"   -> SumOf(RefOf(r, <<e.n>>, s), ValueOf(r, e.e, s))
    [] e.op = "eq"    -> Same(ValueOf(r, e.l, s), ValueOf(r, e.r, s))
    [] e.op = "inv"   -> InverseOf(ValueOf(r, e.e, s))
    [] e.op = "field" -> IF s.unfolded THEN Good(FieldValue) ELSE Bad
    [] e.op = "pattern" -> PatternHolds(r, e, s)

ConditionHolds(r, s) ==
  \A i \in DOMAIN r.w.conds :
    LET c == r.w.conds[i] IN Truth(s.vars[r.names[c.var]]) # c.neg

RECURSIVE Evaluate(_, _)
Evaluate(x, s) ==
  IF x.op = "bad" THEN Bad
  ELSE LET r == x.at
           holds == ConditionHolds(r, s)
           v == ValueOf(r, r.w.e, s)
       IN  CASE x.op = "value" -> v
             [] x.op = "cond"  -> Evaluate(IF holds THEN x.t ELSE x.f, s)
             [] x.op = "asserting" -> IF v.ok /\ Truth(v.v) THEN Evaluate(x.body, s) ELSE Bad
             [] x.op = "unfolding" -> Evaluate(x.body, [s EXCEPT !.unfolded = TRUE])
             [] x.op = "let" ->
                  IF holds /\ ~ v.ok THEN Bad
                  ELSE LET value == IF holds THEN v.v
                                    ELSE IF x.old = None THEN NullValue ELSE s.vars[x.old]
                       IN  Evaluate(x.body,
                             [s EXCEPT !.vars = (x.var :> value) @@ @,
                                       !.defined = IF holds /\ r.w.user THEN @ \cup {r.w.name} ELSE @])

-----------------------------------------------------------------------------
(* Python, with the one rule of the verifier that a field may only be read  *)
(* after its predicate was unfolded                                        *)

Unfolded == "unfolded"

RECURSIVE Eval(_, _)
Eval(e, env) ==
  CASE e.op = "const" -> Good(e.v)
    [] e.op = "var"   -> IF e.n \in DOMAIN env THEN Good(env[e.n]) ELSE Bad
    [] e.op = "add"   -> SumOf(Eval(e.l, env), Eval(e.r, env))
    [] e.op = "eq"    -> Same(Eval(e.l, env), Eval(e.r, env))
    [] e.op = "inv"   -> InverseOf(Eval(e.e, env))
    [] e.op = "field" -> IF Unfolded \in DOMAIN env THEN Good(FieldValue) ELSE Bad

\* The way out of a list of statements: "next", "return" or "raise".
Leaves(how, v, env) == [how |-> how, v |-> v, env |-> env]

RECURSIVE Run(_, _)
RECURSIVE RunCases(_, _, _)
RunOne(s, env) ==
  LET v == IF s.op \in {"assign", "aug", "return", "assert", "match"} THEN Eval(s.e, env)
           ELSE IF s.op = "if" THEN Eval(s.c, env) ELSE Good(1)
      old == IF s.op = "aug" THEN Eval([op |-> "var", n |-> s.n], env) ELSE Bad
      new == IF s.op = "aug" THEN SumOf(old, v) ELSE v
  IN  IF ~ new.ok THEN Leaves("raise", 0, env)
      ELSE CASE s.op \in {"assign", "aug"} -> Leaves("next", 0, (s.n :> new.v) @@ env)
             [] s.op = "return" -> Leaves("return", v.v, env)
             [] s.op = "assert" -> Leaves(IF Truth(v.v) THEN "next" ELSE "raise", 0, env)
             [] s.op = "unfold" -> Leaves("next", 0, (Unfolded :> 1) @@ env)
             [] s.op = "if"     -> Run(IF Truth(v.v) THEN s.t ELSE s.f, env)
             [] s.op = "match"  -> RunCases(s.cases, v.v, env)

RunCases(cases, v, env) ==
  IF cases = <<>> THEN Leaves("next", 0, env)
  ELSE LET c == Head(cases)
           bound == IF c.name = None THEN env ELSE (c.name :> v) @@ env
           guard == IF c.guard = None THEN Good(1) ELSE Eval(c.guard, bound)
       IN  IF c.value \notin {None, v} THEN RunCases(Tail(cases), v, env)
           ELSE IF ~ guard.ok THEN Leaves("raise", 0, bound)
           ELSE IF Truth(guard.v) THEN Run(c.body, bound)
           ELSE RunCases(Tail(cases), v, bound)

Run(ss, env) ==
  IF ss = <<>> THEN Leaves("next", 0, env)
  ELSE LET r == RunOne(Head(ss), env)
       IN  IF r.how = "next" THEN Run(Tail(ss), r.env) ELSE r

-----------------------------------------------------------------------------
(* Translate, then evaluate both *)

Init == \E i \in DOMAIN Functions : \E body \in Functions[i], args \in Arguments :
          /\ task = [of |-> "pure", body |-> body, args |-> args]
          /\ state = [at |-> "translate"]

TranslateFunction ==
  /\ task.of = "pure" /\ state.at = "translate"
  /\ LET ws == TranslateBody(<<>>, task.body, <<>>)
     IN  state' = IF Refused(ws) THEN [at |-> "refused"]
                  ELSE [at |-> "evaluate", expr |-> TranslateExprs(ws)]
  /\ UNCHANGED task

EvaluateFunction ==
  /\ task.of = "pure" /\ state.at = "evaluate"
  /\ LET start == [vars |-> <<>>, args |-> task.args, defined |-> {}, unfolded |-> FALSE]
     IN  state' = [at |-> "done", viper |-> Evaluate(state.expr, start),
                   python |-> Run(task.body, task.args)]
  /\ UNCHANGED task

Next == TranslateFunction \/ EvaluateFunction

Spec == Init /\ [][Next]_vars

-----------------------------------------------------------------------------
(* Properties *)

\* The expression that stands for a pure function has the value Python returns,
\* and is undefined exactly where Python fails or falls off the end: conditions,
\* earlier returns, names assigned several times or in one branch only, and
\* cases come out as in Python (pure.py translate_exprs).
PureFunctionsReturnPythonsValue ==
  (task.of = "pure" /\ state.at = "done") =>
    state.viper = IF state.python.how = "return" THEN Good(state.python.v) ELSE Bad
=============================================================================
