--------------------------- MODULE MCAssignments ---------------------------
(* The assignments and loops of MCStatements: programs that a static type   *)
(* check lets through, within the limits up to which the translation agrees *)
(* with Python.                                                             *)
EXTENDS Integers, Sequences, FiniteSets, SequencesExt

N(n) == [k |-> "number", n |-> n]
Pair(v, w) == [k |-> "tuple", s |-> <<v, w>>]
ListOf(id) == [k |-> "list", id |-> id]
\* c and r have no value; xs and zs are one list.
Arguments ==
  [env   |-> [n \in {"a", "b", "t", "xs", "zs", "ps"} |->
                CASE n = "a" -> N(1) [] n = "b" -> N(2) [] n = "t" -> Pair(N(5), N(6))
                  [] n \in {"xs", "zs"} -> ListOf(1) [] n = "ps" -> ListOf(2)],
   lists |-> <<<<N(3), N(4), N(5)>>, <<Pair(N(7), N(8)), Pair(N(9), N(3))>>>>]

NameT(n) == [t |-> "name", n |-> n]
FieldT == [t |-> "field"]
ItemT(n, i) == [t |-> "item", n |-> n, at |-> i]
StarT(n) == [t |-> "star", n |-> n]
TupleT(ts) == [t |-> "tuple", ts |-> ts]
ConstE(v) == [op |-> "const", v |-> v]
VarE(n) == [op |-> "var", n |-> n]
FieldE == [op |-> "field"]
CallE == [op |-> "call"]
TupleE(es) == [op |-> "tuple", es |-> es]
ListE(es) == [op |-> "list", es |-> es]
ItemE(e, i) == [op |-> "item", e |-> e, i |-> i]
Assign1(t, e) == [op |-> "assign", targets |-> <<t>>, value |-> e]
Chain(t, u, e) == [op |-> "assign", targets |-> <<t, u>>, value |-> e]
Augment(t, e) == [op |-> "augment", target |-> t, value |-> e, lists |-> FALSE]
AugmentList(t, e) == [op |-> "augment", target |-> t, value |-> e, lists |-> TRUE]
For(t, e, b, orelse) == [op |-> "for", target |-> t, iter |-> e, body |-> b, orelse |-> orelse]
When(n, v, then) == [op |-> "when", n |-> n, v |-> N(v), then |-> then]
ReadN(n) == [op |-> "read", n |-> n]

\* Static types, so that the programs are those that mypy lets through.
IntT == [k |-> "number"]
ListT(of) == [k |-> "list", of |-> of]
PairT == [k |-> "tuple", ts |-> <<IntT, IntT>>]
TypeOfName(n) ==
  CASE n \in {"a", "b", "c"} -> IntT [] n = "t" -> PairT
    [] n \in {"xs", "zs", "r"} -> ListT(IntT) [] n = "ps" -> ListT(PairT)
RECURSIVE TypeOfE(_), Fits(_, _)
TypeOfE(e) ==
  CASE e.op \in {"const", "field", "call"} -> IntT
    [] e.op = "var" -> TypeOfName(e.n)
    [] e.op = "tuple" -> [k |-> "tuple", ts |-> [i \in DOMAIN e.es |-> TypeOfE(e.es[i])]]
    [] e.op = "list" -> ListT(TypeOfE(e.es[1]))
    [] e.op = "item" -> LET Of(ty) == IF ty.k = "list" THEN ty.of ELSE ty.ts[e.i + 1] IN Of(TypeOfE(e.e))
Fits(t, ty) ==
  CASE t.t = "name" -> TypeOfName(t.n) = ty
    [] t.t = "star" -> TypeOfName(t.n) = ListT(ty)
    [] t.t \in {"field", "item"} -> ty = IntT
    [] t.t = "tuple" ->
         LET stars == {i \in DOMAIN t.ts : t.ts[i].t = "star"}
             Type(i, n) == LET last == n - Len(t.ts) IN IF stars = {} \/ \A j \in stars : i <= j THEN ty.ts[i] ELSE ty.ts[i + last]
         IN  CASE ty.k = "list"  -> \A i \in DOMAIN t.ts : Fits(t.ts[i], ty.of)
               [] ty.k = "tuple" -> /\ IF stars = {} THEN Len(ty.ts) = Len(t.ts) ELSE Len(ty.ts) >= Len(t.ts)
                                    /\ \A i \in DOMAIN t.ts : Fits(t.ts[i], Type(i, Len(ty.ts)))
               [] OTHER -> FALSE

-----------------------------------------------------------------------------
(* Where the translation agrees with Python: limits. *)

\* The places of the targets of a statement, in their order.
RECURSIVE PlacesOf(_), Reads(_), OneTaken(_, _)
PlacesOf(t) ==
  CASE t.t \in {"name", "star"} -> <<t.n>> [] t.t = "field" -> <<"field">> [] t.t = "item" -> <<"items">>
    [] t.t = "tuple" -> FoldLeft(LAMBDA s, u : s \o PlacesOf(u), <<>>, t.ts)
\* What the expression of a value reads once its statements are done.
Reads(e) ==
  CASE e.op = "var" -> {e.n} \cup (IF TypeOfName(e.n).k = "list" THEN {"items"} ELSE {})
    [] e.op = "field" -> {"field"}
    [] e.op = "tuple" -> UNION {Reads(e.es[i]) : i \in DOMAIN e.es}
    [] e.op = "item" -> Reads(e.e)
    [] OTHER -> {}
\* No target but the last changes what the value reads: it is evaluated again for each.
Stable(s) ==
  LET places == FoldLeft(LAMBDA p, t : p \o PlacesOf(t), <<>>, s.targets)
  IN  \A i \in 1..(Len(places) - 1) : places[i] \notin Reads(s.value)

RECURSIVE Calls(_)
Calls(e) == e.op = "call" \/ (e.op \in {"tuple", "list"} /\ \E i \in DOMAIN e.es : Calls(e.es[i]))
\* No call comes after a read of the field, which is read after all calls.
ReadInTime(e) == Calls(e) => "field" \notin Reads(e)
\* The targets after a starred one are counted from the left: it takes one element.
OneTaken(t, n) ==
  t.t = "tuple" => \A i \in DOMAIN t.ts : t.ts[i].t = "star" /\ i < Len(t.ts) => n = Len(t.ts)

-----------------------------------------------------------------------------

Sources ==
  {ConstE(9), VarE("a"), VarE("t"), VarE("xs"), FieldE, CallE, ItemE(VarE("t"), 1), ItemE(VarE("xs"), 2),
   ListE(<<VarE("a"), VarE("b")>>), ListE(<<CallE, VarE("a")>>)}
    \cup {TupleE(<<e, f>>) : e, f \in {VarE("a"), VarE("b"), CallE, FieldE, VarE("t"), ListE(<<ConstE(9), CallE>>)}}
    \cup {TupleE(<<e, f, ConstE(9)>>) : e, f \in {VarE("b"), CallE, VarE("t")}}
SingleTargets == {NameT("a"), NameT("c"), NameT("r"), NameT("xs"), FieldT, ItemT("xs", 0), ItemT("xs", 3)}
Targets ==
  SingleTargets
    \cup {TupleT(<<t, u>>) : t, u \in {NameT("a"), NameT("c"), FieldT, ItemT("xs", 0), TupleT(<<NameT("a"), NameT("c")>>)}}
    \cup {TupleT(<<t, StarT("r")>>) : t \in {NameT("a"), FieldT, TupleT(<<NameT("a"), NameT("c")>>)}}
    \cup {TupleT(<<StarT("r"), t>>) : t \in {NameT("a"), FieldT}}
    \cup {TupleT(<<NameT("a"), StarT("r"), NameT("c")>>), TupleT(<<NameT("c"), NameT("b"), StarT("r")>>),
          TupleT(<<TupleT(<<NameT("c"), StarT("r")>>), NameT("a"), FieldT>>)}
Lasts == {<<>>, <<ReadN("c")>>, <<Assign1(ItemT("zs", 1), VarE("a")), ReadN("xs")>>}

LengthOfE(e) == IF e.op = "var" THEN (IF e.n = "xs" THEN 3 ELSE 2) ELSE Len(e.es)
Typed(s) == \A i \in DOMAIN s.targets : Fits(s.targets[i], TypeOfE(s.value))
Within(s) ==
  /\ Stable(s) /\ ReadInTime(s.value)
  /\ \A i \in DOMAIN s.targets : s.targets[i].t = "tuple" => OneTaken(s.targets[i], LengthOfE(s.value))
Assigned1 == {Assign1(t, e) : t \in Targets, e \in Sources}
Assigned2 == {Chain(t, u, e) : t \in SingleTargets, u \in Targets, e \in Sources}
                \cup {Chain(u, t, e) : t \in {NameT("c"), NameT("r")}, u \in Targets, e \in Sources}
WithArguments(b) == [env |-> Arguments.env, lists |-> Arguments.lists, body |-> b]
PlainPrograms == {WithArguments(<<s>> \o last) : s \in {s \in Assigned1 \cup Assigned2 : Typed(s) /\ Within(s)}, last \in Lasts}

\* The list that is extended has no second name, and no call changes what is added to.
AugmentPrograms ==
  {WithArguments(<<Augment(t, e)>> \o last) : t \in {NameT("a"), NameT("c"), ItemT("xs", 0), ItemT("xs", 3)},
                                            e \in {ConstE(9), VarE("a"), CallE, FieldE, ItemE(VarE("xs"), 1)}, last \in Lasts}
  \cup {WithArguments(<<Augment(FieldT, e)>> \o last) : e \in {ConstE(9), FieldE, ItemE(VarE("xs"), 1)}, last \in Lasts}
  \cup {WithArguments(<<Assign1(NameT("r"), ListE(<<CallE>>)), AugmentList(NameT("r"), e), ReadN("r")>> \o last) :
          e \in {VarE("xs"), VarE("r"), ListE(<<CallE, VarE("b")>>)}, last \in Lasts}

LoopBodies ==
  {<<ReadN("c")>>, <<Augment(NameT("b"), VarE("c"))>>, <<When("c", 4, [op |-> "break"]), ReadN("c")>>,
   <<When("c", 3, [op |-> "continue"]), Assign1(NameT("a"), VarE("c"))>>, <<Assign1(NameT("xs"), ListE(<<ConstE(9)>>)), ReadN("c")>>,
   <<Assign1(NameT("c"), CallE)>>, <<Assign1(ItemT("zs", 2), VarE("c"))>>, <<When("c", 8, Assign1(ItemT("xs", 2), VarE("c")))>>,
   <<For(NameT("a"), VarE("xs"), <<When("a", 4, [op |-> "break"]), Augment(FieldT, VarE("c"))>>, <<ReadN("a")>>)>>,
   <<For(NameT("c"), VarE("zs"), <<When("c", 5, [op |-> "continue"]), ReadN("c")>>, <<Assign1(FieldT, VarE("c"))>>)>>}
Loops ==
  {For(t, e, b, orelse) : t \in {NameT("c"), FieldT, ItemT("xs", 0)}, e \in {VarE("xs"), ListE(<<CallE, VarE("a")>>)},
                          b \in LoopBodies, orelse \in {<<>>, <<ReadN("c")>>}}
  \cup {For(TupleT(<<t, u>>), e, b, orelse) :
          t \in {NameT("c"), NameT("a"), FieldT}, u \in {NameT("c"), StarT("r"), FieldT},
          e \in {VarE("ps"), ListE(<<VarE("t"), TupleE(<<CallE, VarE("b")>>)>>)}, b \in LoopBodies, orelse \in {<<>>, <<ReadN("c")>>}}
LoopPrograms == {WithArguments(<<s>> \o last) : s \in Loops, last \in Lasts}

AssignmentPasses == <<PlainPrograms, AugmentPrograms, LoopPrograms>>
=============================================================================
