----------------------------- MODULE Evaluation -----------------------------
(***************************************************************************)
(* Expressions with effects.  Nagini translates a Python expression to     *)
(* Viper statements, which hold the calls of impure methods, and a Viper   *)
(* expression over their results, which is evaluated when the statements   *)
(* are done.  The module translates an expression, runs the translation,   *)
(* and compares it with Python's left-to-right evaluation: the calls made, *)
(* the arguments each parameter gets, the heap, the exception, the value.  *)
(*                                                                         *)
(* Values are numbers, with 1 and 0 for True and False; the heap is one    *)
(* field.  Expressions are records with an op: const, field, add, less (a  *)
(* chain), and, or, not, if, constant (a static field of an object), type  *)
(* (type(e) == C), call (receiver or None, positional arguments of which   *)
(* one may be starred, keyword arguments).                                 *)
(***************************************************************************)
EXTENDS Integers, Sequences, FiniteSets, FiniteSetsExt, SequencesExt, TLC

CONSTANTS Expressions,  \* sequence of sets of expressions
          None

VARIABLES task,     \* the expression at hand
          state     \* its translation, then the results of both evaluations

vars == <<task, state>>

Unset == 99         \* the value of a Viper variable before its assignment
ClassConstant == 7  \* the value of the static field

\* The methods: toggle flips the field, put stores its first argument in it,
\* boom raises an exception.
Params(fn) == IF fn = "put" THEN <<"a", "b">> ELSE <<>>
KeywordOnly(fn) == IF fn = "put" THEN <<"c">> ELSE <<>>
DefaultOf(param) == CASE param = "b" -> 5 [] param = "c" -> 6 [] OTHER -> Unset
HasRest(fn) == fn = "put"

-----------------------------------------------------------------------------
(* Viper expressions and statements *)

Const(v) == [op |-> "const", v |-> v]
VarRef(n) == [op |-> "var", n |-> n]
Truth(v) == v # 0
Bool(b) == IF b THEN 1 ELSE 0

RECURSIVE Value(_, _)
Value(e, s) ==
  CASE e.op = "const" -> e.v
    [] e.op = "var"   -> IF e.n \in DOMAIN s.vars THEN s.vars[e.n] ELSE Unset
    [] e.op = "field" -> s.field
    [] e.op = "add"   -> Value(e.l, s) + Value(e.r, s)
    [] e.op = "less"  -> Bool(Value(e.l, s) < Value(e.r, s))
    [] e.op = "and"   -> Bool(Truth(Value(e.l, s)) /\ Truth(Value(e.r, s)))
    [] e.op = "or"    -> Bool(Truth(Value(e.l, s)) \/ Truth(Value(e.r, s)))
    [] e.op = "not"   -> Bool(~ Truth(Value(e.e, s)))
    [] e.op = "cond"  -> IF Truth(Value(e.c, s)) THEN Value(e.t, s) ELSE Value(e.f, s)
    [] e.op = "type"  -> IF Value(e.e, s) = Unset THEN Unset ELSE 1

\* What a method does with its arguments, and the state it leaves.
Effect(fn, binding, s) ==
  LET t == [s EXCEPT !.log = Append(@, <<fn, binding>>)]
  IN  CASE fn = "toggle" -> [t EXCEPT !.field = 1 - @]
        [] fn = "put"    -> [t EXCEPT !.field = binding.args["a"]]
        [] fn = "boom"   -> [t EXCEPT !.raised = TRUE]

Evaluated(b, s) ==
  [self |-> Value(b.self, s), args |-> [p \in DOMAIN b.args |-> Value(b.args[p], s)],
   rest |-> [i \in DOMAIN b.rest |-> Value(b.rest[i], s)],
   kw   |-> {<<b.kw[i][1], Value(b.kw[i][2], s)>> : i \in DOMAIN b.kw}]

RECURSIVE Exec(_, _)
ExecOne(st, s) ==
  CASE st.op = "call"   -> LET t == Effect(st.fn, Evaluated(st.binding, s), s)
                           IN  [t EXCEPT !.vars = (st.res :> t.field) @@ @]
    [] st.op = "assign" -> [s EXCEPT !.vars = (st.n :> Value(st.e, s)) @@ @]
    [] st.op = "if"     -> IF Truth(Value(st.c, s)) THEN Exec(st.t, s) ELSE Exec(st.f, s)

\* A call that raises is followed by a jump to the handler.
Exec(ss, s) ==
  IF ss = <<>> \/ s.raised THEN s ELSE Exec(Tail(ss), ExecOne(Head(ss), s))

-----------------------------------------------------------------------------
(* The translation *)

Both(ss, e) == [ss |-> ss, e |-> e]

StatementsOf(ts) == FlattenSeq([i \in DOMAIN ts |-> ts[i].ss])

RECURSIVE TypeOf(_)
TypeOf(e) ==
  CASE e.op \in {"less", "not", "type"} -> "bool"
    [] e.op \in {"and", "or"} -> IF \A i \in DOMAIN e.es : TypeOf(e.es[i]) = "bool" THEN "bool" ELSE "int"
    [] e.op = "if" -> IF TypeOf(e.t) = "bool" /\ TypeOf(e.f) = "bool" THEN "bool" ELSE "int"
    [] OTHER -> "int"

Joined(op, es) == FoldLeft(LAMBDA l, r : [op |-> op, l |-> l, r |-> r], Head(es), Tail(es))

\* bool(lhs) ? rhs : lhs for a conjunction, the other way round for a disjunction.
JoinedValues(op, es) ==
  FoldRight(LAMBDA l, r : [op |-> "cond", c |-> l, t |-> IF op = "and" THEN r ELSE l,
                           f |-> IF op = "and" THEN l ELSE r],
            Front(es), Last(es))

\* The statements of a later part run when the parts before it ask for it.
ShortCircuited(op, ts) ==
  [i \in DOMAIN ts |->
     IF i = 1 THEN ts[i].ss
     ELSE IF ts[i].ss = <<>> THEN <<>>
     ELSE LET before == Joined(op, [j \in 1..(i - 1) |-> ts[j].e])
          IN  <<[op |-> "if", t |-> ts[i].ss, f |-> <<>>,
                 c |-> IF op = "or" THEN [op |-> "not", e |-> before] ELSE before]>>]

TranslateBoolOp(e, ts) ==
  LET es == [i \in DOMAIN ts |-> ts[i].e]
  IN  Both(FlattenSeq(ShortCircuited(e.op, ts)),
           IF TypeOf(e) = "bool" THEN Joined(e.op, es) ELSE JoinedValues(e.op, es))

TranslateIfExp(c, t, f) ==
  LET branch == [op |-> "if", c |-> c.e, t |-> t.ss, f |-> f.ss]
  IN  Both(c.ss \o (IF t.ss = <<>> /\ f.ss = <<>> THEN <<>> ELSE <<branch>>),
           [op |-> "cond", c |-> c.e, t |-> t.e, f |-> f.e])

TranslateBinOp(ts) == Both(StatementsOf(ts), [op |-> "add", l |-> ts[1].e, r |-> ts[2].e])

TranslateCompare(ts) ==
  LET pair(i) == [op |-> "less", l |-> ts[i].e, r |-> ts[i + 1].e]
      pairs == [i \in 1..(Len(ts) - 1) |-> pair(i)]
  IN  Both(StatementsOf(ts), Joined("and", pairs))

\* The class constant of an object, and a comparison with its type: as written,
\* the statements of the object are not passed on.
TranslateConstant(t) == Both(<<>>, Const(ClassConstant))
TranslateTypeEquality(t) == Both(<<>>, [op |-> "type", e |-> t.e])

\* Positional arguments, a starred tuple taken apart.
Unpacked(args) ==
  FlattenSeq([i \in DOMAIN args |-> IF args[i].op = "star" THEN args[i].items ELSE <<args[i]>>])

\* Mutant: a keyword-only parameter takes what is left of the positional arguments.
ArgumentByPosition(fn, pos, kws, param) ==
  LET place == SelectInSeq(Params(fn) \o KeywordOnly(fn), LAMBDA n : n = param)
      named == {i \in DOMAIN kws : kws[i].name = param}
  IN  IF place # 0 /\ place <= Len(pos) THEN pos[place].e
      ELSE IF named # {} THEN kws[CHOOSE i \in named : TRUE].t.e
      ELSE Const(DefaultOf(param))

\* The argument of each parameter: by position, by name, or the default.
ArgumentOf(fn, pos, kws, param) ==
  LET place == SelectInSeq(Params(fn), LAMBDA n : n = param)
      named == {i \in DOMAIN kws : kws[i].name = param}
  IN  IF place # 0 /\ place <= Len(pos) THEN pos[place].e
      ELSE IF named # {} THEN kws[CHOOSE i \in named : TRUE].t.e
      ELSE Const(DefaultOf(param))

RestOf(fn, pos) == IF HasRest(fn) THEN SubSeq(pos, Len(Params(fn)) + 1, Len(pos)) ELSE <<>>

\* Keywords that name no parameter are evaluated after all others, and each is
\* stored in the dictionary at once.
TranslateArgs(fn, pos, kws, at) ==
  LET known == ToSet(Params(fn) \o KeywordOnly(fn))
      named == SelectSeq(kws, LAMBDA k : k.name \in known)
      other == SelectSeq(kws, LAMBDA k : k.name \notin known)
      var(i) == Append(at, 100 + i)
      rest == RestOf(fn, pos)
  IN  [ss |-> StatementsOf(pos) \o FlattenSeq([i \in DOMAIN named |-> named[i].t.ss])
              \o FlattenSeq([i \in DOMAIN other |->
                   Append(other[i].t.ss, [op |-> "assign", n |-> var(i), e |-> other[i].t.e])]),
       args |-> [p \in known |-> ArgumentOf(fn, pos, named, p)],
       rest |-> [i \in DOMAIN rest |-> rest[i].e],
       kw   |-> [i \in DOMAIN other |-> <<other[i].name, VarRef(var(i))>>]]

TranslateCall(fn, recv, pos, kws, at) ==
  LET a == TranslateArgs(fn, pos, kws, at)
      binding == [self |-> recv.e, args |-> a.args, rest |-> a.rest, kw |-> a.kw]
  IN  Both(recv.ss \o a.ss \o <<[op |-> "call", fn |-> fn, binding |-> binding, res |-> at]>>,
           VarRef(at))

RECURSIVE Translate(_, _)
TranslateList(es, at) == [i \in DOMAIN es |-> Translate(es[i], Append(at, i))]

Translate(e, at) ==
  CASE e.op \in {"const", "field"} -> Both(<<>>, e)
    [] e.op = "add"  -> TranslateBinOp(TranslateList(<<e.l, e.r>>, at))
    [] e.op = "less" -> TranslateCompare(TranslateList(e.es, at))
    [] e.op \in {"and", "or"} -> TranslateBoolOp(e, TranslateList(e.es, at))
    [] e.op = "not"  -> LET t == Translate(e.e, Append(at, 1))
                        IN  Both(t.ss, [op |-> "not", e |-> t.e])
    [] e.op = "if"   -> LET ts == TranslateList(<<e.c, e.t, e.f>>, at)
                        IN  TranslateIfExp(ts[1], ts[2], ts[3])
    [] e.op = "constant" -> TranslateConstant(Translate(e.e, Append(at, 1)))
    [] e.op = "type"     -> TranslateTypeEquality(Translate(e.e, Append(at, 1)))
    [] e.op = "call" ->
         LET pos == Unpacked(e.args)
             kws == [i \in DOMAIN e.kws |-> [name |-> e.kws[i].name,
                                             t |-> Translate(e.kws[i].e, at \o <<3, i>>)]]
             recv == IF e.recv = None THEN Both(<<>>, Const(0)) ELSE Translate(e.recv, at \o <<1>>)
         IN  TranslateCall(e.fn, recv, TranslateList(pos, at \o <<2>>), kws, at)

-----------------------------------------------------------------------------
(* Python *)

Result(v, s) == [v |-> v, s |-> s]

RECURSIVE Eval(_, _)
EvalAll(es, s) ==
  FoldLeft(LAMBDA acc, e : IF acc.s.raised THEN acc
                           ELSE LET r == Eval(e, acc.s) IN [vs |-> Append(acc.vs, r.v), s |-> r.s],
           [vs |-> <<>>, s |-> s], es)

RECURSIVE EvalBool(_, _, _)
EvalBool(op, es, s) ==
  LET r == Eval(Head(es), s)
      goesOn == ~ r.s.raised /\ Len(es) > 1 /\ Truth(r.v) = (op = "and")
  IN  IF goesOn THEN EvalBool(op, Tail(es), r.s) ELSE r

RECURSIVE EvalChain(_, _, _)
EvalChain(left, es, s) ==
  LET r == Eval(Head(es), s)
      holds == left < r.v
      goesOn == ~ r.s.raised /\ Len(es) > 1 /\ holds
  IN  IF goesOn THEN EvalChain(r.v, Tail(es), r.s) ELSE Result(Bool(holds), r.s)

BindRest(fn, vs) == IF HasRest(fn) THEN SubSeq(vs, Len(Params(fn)) + 1, Len(vs)) ELSE <<>>

Bind(fn, self, vs, names, kwvs) ==
  LET known == ToSet(Params(fn) \o KeywordOnly(fn))
      given(p) == {i \in DOMAIN names : names[i] = p}
  IN  [self |-> self,
       args |-> [p \in known |->
                   IF \E i \in DOMAIN Params(fn) : Params(fn)[i] = p /\ i <= Len(vs)
                   THEN vs[CHOOSE i \in DOMAIN Params(fn) : Params(fn)[i] = p]
                   ELSE IF given(p) # {} THEN kwvs[CHOOSE i \in given(p) : TRUE] ELSE DefaultOf(p)],
       rest |-> BindRest(fn, vs),
       kw   |-> {<<names[i], kwvs[i]>> : i \in {i \in DOMAIN names : names[i] \notin known}}]

EvalCall(e, s) ==
  LET recv == IF e.recv = None THEN Result(0, s) ELSE Eval(e.recv, s)
      pos == EvalAll(Unpacked(e.args), recv.s)
      kws == EvalAll([i \in DOMAIN e.kws |-> e.kws[i].e], pos.s)
      names == [i \in DOMAIN e.kws |-> e.kws[i].name]
  IN  IF kws.s.raised THEN Result(Unset, kws.s)
      ELSE LET t == Effect(e.fn, Bind(e.fn, recv.v, pos.vs, names, kws.vs), kws.s)
           IN  Result(t.field, t)

Eval(e, s) ==
  IF s.raised THEN Result(Unset, s)
  ELSE CASE e.op = "const" -> Result(e.v, s)
         [] e.op = "field" -> Result(s.field, s)
         [] e.op = "add"   -> LET r == EvalAll(<<e.l, e.r>>, s)
                              IN  Result(IF r.s.raised THEN Unset ELSE r.vs[1] + r.vs[2], r.s)
         [] e.op = "less"  -> LET r == Eval(Head(e.es), s) IN EvalChain(r.v, Tail(e.es), r.s)
         [] e.op \in {"and", "or"} -> EvalBool(e.op, e.es, s)
         [] e.op = "not"   -> LET r == Eval(e.e, s) IN Result(Bool(~ Truth(r.v)), r.s)
         [] e.op = "if"    -> LET r == Eval(e.c, s)
                              IN  IF Truth(r.v) THEN Eval(e.t, r.s) ELSE Eval(e.f, r.s)
         [] e.op = "constant" -> Result(ClassConstant, Eval(e.e, s).s)
         [] e.op = "type"  -> Result(1, Eval(e.e, s).s)
         [] e.op = "call"  -> EvalCall(e, s)

-----------------------------------------------------------------------------
(* Translate, then run both *)

Start(v) == [field |-> v, vars |-> <<>>, log |-> <<>>, raised |-> FALSE]

Init == \E i \in DOMAIN Expressions : \E e \in Expressions[i], v \in {0, 1} :
          /\ task = [of |-> "expression", e |-> e, field |-> v]
          /\ state = [at |-> "translate"]

TranslateExpression ==
  /\ task.of = "expression" /\ state.at = "translate"
  /\ state' = [at |-> "run", code |-> Translate(task.e, <<>>)]
  /\ UNCHANGED task

RunExpression ==
  /\ task.of = "expression" /\ state.at = "run"
  /\ LET end == Exec(state.code.ss, Start(task.field))
     IN  state' = [at |-> "done", viper |-> Result(Value(state.code.e, end), end),
                   python |-> Eval(task.e, Start(task.field))]
  /\ UNCHANGED task

Next == TranslateExpression \/ RunExpression

Spec == Init /\ [][Next]_vars

-----------------------------------------------------------------------------
(* Properties *)

\* The translation of an expression makes the calls Python makes, in its order
\* and with its arguments, leaves the same heap and exception, and has the same
\* value (expression.py translate_BoolOp, translate_IfExp, translate_BinOp,
\* translate_Compare, call.py translate_args).
ExpressionsRunLikePython ==
  (task.of = "expression" /\ state.at = "done") =>
    LET v == state.viper
        p == state.python
    IN  /\ v.s.log = p.s.log /\ v.s.field = p.s.field /\ v.s.raised = p.s.raised
        /\ ~ p.s.raised => v.v = p.v
=============================================================================
