----------------------------- MODULE Assignments -----------------------------
(***************************************************************************)
(* Assignments: nested and starred targets, several targets, augmented     *)
(* assignments and for loops, as the Viper statements they are translated  *)
(* to.  A Viper expression is evaluated where it stands, so the value of   *)
(* an assignment is evaluated again for every target.                      *)
(*                                                                         *)
(* Values are numbers, tuples and references to lists; there is one object *)
(* with one field.  Statements: "assign" (targets, value), "augment",      *)
(* "for", "break", "continue", "read", "when" (a test of a name).          *)
(* Targets: "name", "field", "item" (of a list), "tuple", "star".          *)
(***************************************************************************)
EXTENDS Integers, Sequences, FiniteSets, SequencesExt

CONSTANTS AssignmentPrograms,   \* sequence of sets of [env, lists, body]
          None

VARIABLES task,     \* a program: a method body, its arguments and its lists
          state     \* the Viper statements that are left, and the Viper state

vars == <<task, state>>

Number(n) == [k |-> "number", n |-> n]
Tuple(s) == [k |-> "tuple", s |-> s]
ListRef(id) == [k |-> "list", id |-> id]

With(f, x, v) == [y \in DOMAIN f \cup {x} |-> IF y = x THEN v ELSE f[y]]
Elements(v, lists) == IF v.k = "tuple" THEN v.s ELSE lists[v.id]

-----------------------------------------------------------------------------
(* Viper expressions, with variables for the results of calls. *)

Result(k) == [op |-> "result", k |-> k]
ItemOf(e, i) == [op |-> "item", e |-> e, i |-> i]
\* len(e) - after
EndOf(e, after) == [op |-> "end", e |-> e, after |-> after]

RECURSIVE Value(_, _), WellDefined(_, _)
Value(e, s) ==
  CASE e.op = "const"  -> Number(e.v)
    [] e.op = "var"    -> s.env[e.n]
    [] e.op = "field"  -> s.field
    [] e.op = "result" -> s.results[e.k]
    [] e.op = "tuple"  -> Tuple([i \in DOMAIN e.es |-> Value(e.es[i], s)])
    [] e.op = "item"   -> LET At(v) == Elements(v, s.lists)[e.i + 1] IN At(Value(e.e, s))
    [] e.op = "end"    -> LET Of(v) == Number(Len(Elements(v, s.lists)) - e.after) IN Of(Value(e.e, s))
    [] e.op = "add"    -> Number(Value(e.l, s).n + Value(e.r, s).n)

\* Variables are defined and indices within bounds: what Viper checks.
WellDefined(e, s) ==
  CASE e.op = "var"   -> e.n \in DOMAIN s.env
    [] e.op = "tuple" -> \A i \in DOMAIN e.es : WellDefined(e.es[i], s)
    [] e.op = "item"  -> /\ WellDefined(e.e, s)
                         /\ LET Fits(v) == e.i < Len(Elements(v, s.lists)) IN Fits(Value(e.e, s))
    [] e.op = "end"   -> WellDefined(e.e, s)
    [] e.op = "add"   -> WellDefined(e.l, s) /\ WellDefined(e.r, s)
    [] OTHER -> TRUE

-----------------------------------------------------------------------------
(* The translation: statements, and for expressions also [ss, e].  Results  *)
(* of calls are named by the place of the call.                            *)

RECURSIVE Translate(_, _)
\* Calls and lists become statements, everything else an expression.
Translate(e, k) ==
  LET Parts(es) == [i \in DOMAIN es |-> Translate(es[i], Append(k, i))]
      Statements(ts) == FlattenSeq([i \in DOMAIN ts |-> ts[i].ss])
      Values(ts) == [i \in DOMAIN ts |-> ts[i].e]
      Made(ts) ==
        IF e.op = "tuple" THEN [ss |-> Statements(ts), e |-> [op |-> "tuple", es |-> Values(ts)]]
        ELSE [ss |-> Append(Statements(ts), [i |-> "list", k |-> k, es |-> Values(ts)]), e |-> Result(k)]
      Item(t) == [ss |-> t.ss, e |-> ItemOf(t.e, e.i)]
  IN  CASE e.op \in {"tuple", "list"} -> Made(Parts(e.es))
        [] e.op = "item" -> Item(Translate(e.e, k))
        [] e.op = "call" -> [ss |-> <<[i |-> "call", k |-> k]>>, e |-> Result(k)]
        [] OTHER -> [ss |-> <<>>, e |-> e]

Starred(ts) == {i \in DOMAIN ts : ts[i].t = "star"}

\* A mutant: the starred target takes everything to the end.
TakesTheRest(ts, i) == 0
\* How many targets come after the starred one.
TargetsAfter(ts, i) == Len(ts) - i

LengthCheck(ts, rhs) ==
  [i |-> "length", e |-> rhs, exact |-> Starred(ts) = {}, n |-> IF Starred(ts) = {} THEN Len(ts) ELSE Len(ts) - 1]

RECURSIVE AssignTo(_, _, _, _)
\* The element of rhs with this index (None: rhs itself) goes to the target.
AssignTo(t, rhs, index, after) ==
  LET own == IF index = None THEN rhs ELSE ItemOf(rhs, index - 1)
  IN  CASE t.t = "star"  -> <<[i |-> "slice", n |-> t.n, e |-> rhs, from |-> index, until |-> EndOf(rhs, after)]>>
        [] t.t = "tuple" -> <<LengthCheck(t.ts, own)>>
                              \o FlattenSeq([i \in DOMAIN t.ts |-> AssignTo(t.ts[i], own, i, TargetsAfter(t.ts, i))])
        [] t.t = "name"  -> <<[i |-> "set", n |-> t.n, e |-> own]>>
        [] t.t = "field" -> <<[i |-> "write", e |-> own]>>
        [] t.t = "item"  -> <<[i |-> "setitem", n |-> t.n, at |-> t.at, e |-> own]>>

RECURSIVE Holds(_, _, _, _, _)
\* What is known after the assignment, for the invariants of loops.
Holds(t, rhs, index, after, s) ==
  LET own == IF index = None THEN rhs ELSE ItemOf(rhs, index - 1)
      Slice(v) == SubSeq(Elements(v, s.lists), index, Len(Elements(v, s.lists)) - after)
  IN  CASE t.t = "star"  -> t.n \in DOMAIN s.env /\ s.lists[s.env[t.n].id] = Slice(Value(rhs, s))
        [] t.t = "tuple" -> \A i \in DOMAIN t.ts : Holds(t.ts[i], own, i, TargetsAfter(t.ts, i), s)
        [] t.t = "name"  -> t.n \in DOMAIN s.env /\ s.env[t.n] = Value(own, s)
        [] t.t = "field" -> s.field = Value(own, s)

AsExpression(t) ==
  CASE t.t = "name"  -> [op |-> "var", n |-> t.n]
    [] t.t = "field" -> [op |-> "field"]
    [] t.t = "item"  -> ItemOf([op |-> "var", n |-> t.n], t.at)

TranslateAssign(s, k) ==
  LET Assigned(v) == v.ss \o FlattenSeq([i \in DOMAIN s.targets |-> AssignTo(s.targets[i], v.e, None, 0)])
  IN  Assigned(Translate(s.value, k))

\* Numbers are added in an expression; list.__add__ is a method, and lists have no
\* __iadd__ of their own.
TranslateAugAssign(s, k) ==
  LET left == AsExpression(s.target)
      Added(v) ==
        IF s.lists THEN v.ss \o <<[i |-> "append", k |-> k, l |-> left, r |-> v.e]>> \o AssignTo(s.target, Result(k), None, 0)
        ELSE v.ss \o AssignTo(s.target, [op |-> "add", l |-> left, r |-> v.e], None, 0)
  IN  Added(Translate(s.value, Append(k, 1)))

RECURSIVE TranslateBlock(_, _, _), TranslateStatement(_, _, _)
\* The next element and, if there is one, the targets.
NextElement(s, k) == <<[i |-> "next", k |-> k], [i |-> "ifnext", k |-> k, then |-> AssignTo(s.target, Result(k), None, 0)]>>
TranslateFor(s, k) ==
  LET loop == [i |-> "while", k |-> k, target |-> s.target,
               body |-> TranslateBlock(s.body, Append(k, 1), k) \o <<[i |-> "label", l |-> <<"end", k>>]>> \o NextElement(s, k)]
      Looped(it) == it.ss \o <<[i |-> "iter", k |-> k, e |-> it.e]>> \o NextElement(s, k) \o <<loop, [i |-> "del", k |-> k]>>
  IN  Looped(Translate(s.iter, Append(k, 2))) \o TranslateBlock(s.orelse, Append(k, 3), k)
        \o <<[i |-> "label", l |-> <<"post", k>>]>>
TranslateStatement(s, k, loop) ==
  CASE s.op = "assign"   -> TranslateAssign(s, k)
    [] s.op = "augment"  -> TranslateAugAssign(s, k)
    [] s.op = "for"      -> TranslateFor(s, k)
    [] s.op = "break"    -> <<[i |-> "goto", l |-> <<"post", loop>>]>>
    [] s.op = "continue" -> <<[i |-> "goto", l |-> <<"end", loop>>]>>
    [] s.op = "read"     -> <<[i |-> "read", n |-> s.n]>>
    [] s.op = "when"     -> <<[i |-> "when", n |-> s.n, v |-> s.v, then |-> TranslateStatement(s.then, k, loop)]>>
TranslateBlock(ss, k, loop) ==
  FlattenSeq([i \in DOMAIN ss |-> TranslateStatement(ss[i], Append(k, i), loop)])

RECURSIVE HasItem(_)
HasItem(t) == t.t = "item" \/ (t.t = "tuple" /\ \E i \in DOMAIN t.ts : HasItem(t.ts[i]))

RECURSIVE Supported(_)
\* A subscript is looked for in the first target of the statement.
Supported(s) ==
  CASE s.op = "assign" -> (\E i \in DOMAIN s.targets : HasItem(s.targets[i])) => s.targets[1].t = "item"
    [] s.op = "for"    -> ~ HasItem(s.target) /\ \A i \in DOMAIN s.body : Supported(s.body[i])
    [] OTHER -> TRUE

-----------------------------------------------------------------------------
(* Python: [env, lists, field, events, how]; the value is evaluated once.   *)

Normal(r) == r.how = "normal"
Event(r, e) == [r EXCEPT !.events = Append(@, e)]
\* What can be told of a value: its contents.
Seen(v, lists) == IF v.k = "list" THEN [k |-> "list", s |-> lists[v.id]] ELSE v
\* The one method of the program changes the field.
Bumped(r) == Event([r EXCEPT !.field = Number(r.field.n + 1)], <<"call">>)
Fresh(r, contents) == [r EXCEPT !.lists = Append(@, contents)]

RECURSIVE PythonValue(_, _), PythonValues(_, _, _)
\* [v, r]
PythonValue(e, r) ==
  LET Gathered(q) ==
        IF e.op = "tuple" THEN [v |-> Tuple(q.vs), r |-> q.r]
        ELSE [v |-> ListRef(Len(q.r.lists) + 1), r |-> Fresh(q.r, q.vs)]
      Item(q) == IF ~ Normal(q.r) THEN q
                 ELSE IF e.i >= Len(Elements(q.v, q.r.lists)) THEN [q EXCEPT !.r.how = "raised"]
                 ELSE [q EXCEPT !.v = Elements(@, q.r.lists)[e.i + 1]]
      Called(q) == [v |-> q.field, r |-> q]
  IN  CASE e.op = "const" -> [v |-> Number(e.v), r |-> r]
        [] e.op = "var"   -> IF e.n \in DOMAIN r.env THEN [v |-> r.env[e.n], r |-> r] ELSE [v |-> None, r |-> [r EXCEPT !.how = "raised"]]
        [] e.op = "field" -> [v |-> r.field, r |-> r]
        [] e.op \in {"tuple", "list"} -> Gathered(PythonValues(e.es, <<>>, r))
        [] e.op = "item"  -> Item(PythonValue(e.e, r))
        [] e.op = "call"  -> Called(Bumped(r))
PythonValues(es, vs, r) ==
  LET Rest(q) == PythonValues(Tail(es), Append(vs, q.v), q.r)
  IN  IF es = <<>> \/ ~ Normal(r) THEN [vs |-> vs, r |-> r] ELSE Rest(PythonValue(Head(es), r))

RECURSIVE PythonAssign(_, _, _)
PythonAssign(t, v, r) ==
  LET Unpacked(elements) ==
        LET extra == Len(elements) - Len(t.ts)
            star == IF Starred(t.ts) = {} THEN 0 ELSE CHOOSE i \in Starred(t.ts) : TRUE
            Fits == IF star = 0 THEN extra = 0 ELSE extra >= -1
            Part(i) == IF star = 0 \/ i < star THEN elements[i]
                       ELSE IF i > star THEN elements[i + extra]
                       ELSE ListRef(Len(r.lists) + 1)
            Caught == IF star = 0 THEN r ELSE Fresh(r, SubSeq(elements, star, star + extra))
        IN  IF ~ Fits THEN [r EXCEPT !.how = "raised"]
            ELSE FoldLeft(LAMBDA q, i : PythonAssign(t.ts[i], Part(i), q), Caught, [i \in DOMAIN t.ts |-> i])
  IN  IF ~ Normal(r) THEN r
      ELSE CASE t.t \in {"name", "star"} -> [r EXCEPT !.env = With(@, t.n, v)]
             [] t.t = "field" -> [r EXCEPT !.field = v]
             [] t.t = "tuple" -> Unpacked(Elements(v, r.lists))
             [] t.t = "item"  -> IF t.at >= Len(r.lists[r.env[t.n].id]) THEN [r EXCEPT !.how = "raised"]
                                 ELSE [r EXCEPT !.lists[r.env[t.n].id][t.at + 1] = v]

RECURSIVE PythonBlock(_, _), PythonLoop(_, _, _, _)
PythonStatement(s, r) ==
  LET AssignAll(q) == FoldLeft(LAMBDA p, t : PythonAssign(t, q.v, p), q.r, s.targets)
      Augmented(old, q) ==
        IF ~ Normal(q.r) THEN q.r
        ELSE IF s.lists THEN [q.r EXCEPT !.lists[old.id] = @ \o Elements(q.v, q.r.lists)]
        ELSE PythonAssign(s.target, Number(old.n + q.v.n), q.r)
      Old(q) == IF Normal(q.r) THEN Augmented(q.v, PythonValue(s.value, q.r)) ELSE q.r
      Looped(q) == IF Normal(q.r) THEN PythonLoop(s, q.v.id, 1, q.r) ELSE q.r
      Shown(q) == IF Normal(q.r) THEN Event(q.r, <<s.n, Seen(q.v, q.r.lists)>>) ELSE q.r
      Tested(q) == IF Normal(q.r) /\ q.v = s.v THEN PythonBlock(<<s.then>>, q.r) ELSE q.r
  IN  CASE s.op = "assign"   -> AssignAll(PythonValue(s.value, r))
        [] s.op = "augment"  -> Old(PythonValue(AsExpression(s.target), r))
        [] s.op = "for"      -> Looped(PythonValue(s.iter, r))
        [] s.op = "read"     -> Shown(PythonValue([op |-> "var", n |-> s.n], r))
        [] s.op = "when"     -> Tested(PythonValue([op |-> "var", n |-> s.n], r))
        [] OTHER             -> [r EXCEPT !.how = s.op]
PythonBlock(ss, r) == IF ss = <<>> \/ ~ Normal(r) THEN r ELSE PythonBlock(Tail(ss), PythonStatement(Head(ss), r))

\* The list is looked at again for every element.
PythonLoop(s, id, next, r) ==
  LET Again(q) ==
        CASE q.how \in {"normal", "continue"} -> PythonLoop(s, id, next + 1, [q EXCEPT !.how = "normal"])
          [] q.how = "break" -> [q EXCEPT !.how = "normal"]
          [] q.how = "raised" -> q
  IN  IF next > Len(r.lists[id]) THEN PythonBlock(s.orelse, r)
      ELSE Again(PythonBlock(s.body, PythonAssign(s.target, r.lists[id][next], r)))

Observed(r) == [env |-> [n \in DOMAIN r.env |-> Seen(r.env[n], r.lists)], field |-> r.field, events |-> r.events]
RunPython(p) ==
  PythonBlock(p.body, [env |-> p.env, lists |-> p.lists, field |-> Number(0), events |-> <<>>, how |-> "normal"])

-----------------------------------------------------------------------------
(* The specification: the translated body is executed.                      *)

Init ==
  \E j \in DOMAIN AssignmentPrograms : \E p \in AssignmentPrograms[j] :
    /\ task = [of |-> "assign", program |-> p]
    /\ state = [at |-> "analyzed", code |-> <<>>, env |-> p.env, lists |-> p.lists, lent |-> {},
                iters |-> <<>>, field |-> Number(0), results |-> <<>>, events |-> <<>>]

Assigning(at) == task.of = "assign" /\ state.at = at

TranslateBody ==
  /\ Assigning("analyzed") /\ \A i \in DOMAIN task.program.body : Supported(task.program.body[i])
  /\ state' = [state EXCEPT !.at = "running", !.code = TranslateBlock(task.program.body, <<>>, <<>>)]
  /\ UNCHANGED task

Unsupported ==
  /\ Assigning("analyzed") /\ \E i \in DOMAIN task.program.body : ~ Supported(task.program.body[i])
  /\ state' = [state EXCEPT !.at = "unsupported"]
  /\ UNCHANGED task

Running(i) == Assigning("running") /\ state.code # <<>> /\ Head(state.code).i = i
Statement == Head(state.code)
Goes(s) == state' = [s EXCEPT !.code = Tail(@)] /\ UNCHANGED task
Keep(k, v, s) == [s EXCEPT !.results = With(@, k, v)]
NewList(k, contents) == Keep(k, ListRef(Len(state.lists) + 1), Fresh(state, contents))

\* Writing a list takes all of its permission, of which every iterator has a part.
MayWrite(id) == \A k \in state.lent : state.iters[k].id # id

\* The invariant that every loop gets, about its iterator and its targets.
LoopInvariant(k, target) ==
  LET it == state.iters[k]
      contents == state.lists[it.id]
      Before(n) == SubSeq(contents, 1, n)
  IN  /\ it.contents = contents /\ it.index \in 0..Len(contents)
      /\ IF it.ended THEN it.previous = contents /\ it.index = Len(it.previous)
         ELSE contents # <<>> /\ it.previous = Before(it.index - 1)
      /\ contents # <<>> =>
           it.index > 0 /\ state.results[k] = contents[it.index] /\ Holds(target, Result(k), None, 0, state)

Permitted ==
  LET st == Statement
      Within(id) == MayWrite(id) /\ st.at < Len(state.lists[id])
      Fits(n) == IF st.exact THEN n = st.n ELSE n >= st.n
  IN  CASE st.i \in {"set", "write", "iter"} -> WellDefined(st.e, state)
        [] st.i = "setitem" -> /\ WellDefined(st.e, state) /\ st.n \in DOMAIN state.env
                               /\ Within(state.env[st.n].id)
        [] st.i = "list"    -> \A i \in DOMAIN st.es : WellDefined(st.es[i], state)
        [] st.i = "append"  -> WellDefined(st.l, state) /\ WellDefined(st.r, state)
        [] st.i = "length"  -> WellDefined(st.e, state) /\ Fits(Len(Elements(Value(st.e, state), state.lists)))
        [] st.i = "slice"   -> WellDefined(st.until, state)
        [] st.i \in {"read", "when"} -> st.n \in DOMAIN state.env
        [] st.i = "while"   -> LoopInvariant(st.k, st.target)
        [] OTHER -> TRUE

SetVariable == Running("set") /\ Permitted /\ Goes([state EXCEPT !.env = With(@, Statement.n, Value(Statement.e, state))])
WriteField == Running("write") /\ Permitted /\ Goes([state EXCEPT !.field = Value(Statement.e, state)])
SetItem ==
  /\ Running("setitem") /\ Permitted
  /\ Goes([state EXCEPT !.lists[state.env[Statement.n].id][Statement.at + 1] = Value(Statement.e, state)])
CreateList ==
  /\ Running("list") /\ Permitted
  /\ Goes(NewList(Statement.k, [i \in DOMAIN Statement.es |-> Value(Statement.es[i], state)]))
AddLists ==
  LET Contents(e) == Elements(Value(e, state), state.lists)
  IN  Running("append") /\ Permitted /\ Goes(NewList(Statement.k, Contents(Statement.l) \o Contents(Statement.r)))
CheckLength == Running("length") /\ Permitted /\ Goes(state)
TakeSlice ==
  LET slice == SubSeq(Elements(Value(Statement.e, state), state.lists), Statement.from, Value(Statement.until, state).n)
      Bound(s) == [s EXCEPT !.env = With(@, Statement.n, ListRef(Len(s.lists)))]
  IN  Running("slice") /\ Permitted /\ Goes(Bound(Fresh(state, slice)))
CallMethod ==
  LET Returned(s) == Keep(Statement.k, s.field, s)
  IN  Running("call") /\ Goes(Returned(Bumped(state)))
ReadVariable ==
  /\ Running("read") /\ Permitted
  /\ Goes(Event(state, <<Statement.n, Seen(state.env[Statement.n], state.lists)>>))

\* list.__iter__, __next__ and __del__.
CreateIterator ==
  LET Of(id) == [id |-> id, contents |-> state.lists[id], index |-> 0, previous |-> <<>>, ended |-> FALSE]
  IN  /\ Running("iter") /\ Permitted
      /\ Goes([state EXCEPT !.iters = With(@, Statement.k, Of(Value(Statement.e, state).id)), !.lent = @ \cup {Statement.k}])
TakeNext ==
  LET it == state.iters[Statement.k]
      Moved == [it EXCEPT !.index = @ + 1, !.previous = SubSeq(it.contents, 1, it.index)]
  IN  /\ Running("next")
      /\ IF it.index = Len(it.contents)
         THEN Goes([state EXCEPT !.iters[Statement.k] = [it EXCEPT !.ended = TRUE, !.previous = it.contents]])
         ELSE Goes(Keep(Statement.k, it.contents[it.index + 1], [state EXCEPT !.iters[Statement.k] = Moved]))
DeleteIterator == Running("del") /\ Goes([state EXCEPT !.lent = @ \ {Statement.k}])

Inserted(ss) == state' = [state EXCEPT !.code = ss \o Tail(@)] /\ UNCHANGED task
AssignElement == Running("ifnext") /\ Inserted(IF state.iters[Statement.k].ended THEN <<>> ELSE Statement.then)
Branch == Running("when") /\ Permitted /\ Inserted(IF state.env[Statement.n] = Statement.v THEN Statement.then ELSE <<>>)
Loop == Running("while") /\ Permitted /\ Inserted(IF state.iters[Statement.k].ended THEN <<>> ELSE Append(Statement.body, Statement))
PassLabel == Running("label") /\ Goes(state)
Jump ==
  LET target == SelectInSeq(state.code, LAMBDA st : st = [i |-> "label", l |-> Statement.l])
  IN  /\ Running("goto")
      /\ state' = [state EXCEPT !.code = SubSeq(@, target, Len(@))]
      /\ UNCHANGED task

\* A precondition, a loop's invariant, an index, a length or a definedness check fails.
Reject ==
  /\ Assigning("running") /\ state.code # <<>> /\ ~ Permitted
  /\ state' = [state EXCEPT !.at = "rejected"]
  /\ UNCHANGED task

Return == Assigning("running") /\ state.code = <<>> /\ state' = [state EXCEPT !.at = "returned"] /\ UNCHANGED task

Ended == state.at \in {"returned", "rejected", "unsupported"} /\ UNCHANGED vars

Next ==
  \/ TranslateBody \/ Unsupported
  \/ SetVariable \/ WriteField \/ SetItem \/ CreateList \/ AddLists \/ CheckLength \/ TakeSlice \/ CallMethod \/ ReadVariable
  \/ CreateIterator \/ TakeNext \/ DeleteIterator \/ AssignElement \/ Branch \/ Loop \/ PassLabel \/ Jump
  \/ Reject \/ Return \/ Ended

Spec == Init /\ [][Next]_vars

\* A body whose checks succeed leaves the variables, the field and the lists as Python
\* does and reads the values Python reads, in nested and starred targets, chains,
\* augmented assignments and loops over lists, although every target evaluates the
\* value again (statement.py assign_to, translate_stmt_Assign, translate_stmt_AugAssign,
\* translate_stmt_For).
AssignmentsRunLikePython ==
  Assigning("returned") =>
    LET Same(r) == Normal(r) /\ Observed(r) = Observed(state)
    IN  Same(RunPython(task.program))
=============================================================================
