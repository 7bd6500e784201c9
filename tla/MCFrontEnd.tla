----------------------------- MODULE MCFrontEnd -----------------------------
EXTENDS ModuleExecution, AlgebraicTypes, TypeDomain, Inheritance

CONSTANTS EvaluatedExpressions, PureFunctionBodies, GhostPrograms,
          FieldContracts, IONets

Exprs == INSTANCE Evaluation WITH Expressions <- EvaluatedExpressions
PureArguments == {"c" :> c @@ "p" :> p : c \in {0, 1}, p \in {0, 1, 99}}
Pure == INSTANCE PureFunctions WITH Functions <- PureFunctionBodies, Arguments <- PureArguments
GhostTasks == INSTANCE MCGhostCode
Ghosts == INSTANCE GhostCode WITH Programs <- GhostPrograms, Functions <- GhostTasks!MCFunctions,
            Variables <- GhostTasks!MCVariables, Fields <- GhostTasks!MCFields, GhostFields <- {"gf"}
Fields == INSTANCE FieldPermissions WITH FieldPrograms <- FieldContracts
NetTasks == INSTANCE MCIOOperations
Nets == INSTANCE IOOperations WITH IOPrograms <- IONets, Library <- NetTasks!Library

ASSUME ModulesAreThere == ProgramsAssumption
ASSUME HierarchiesAreThere == ClassesAssumption

\* The operators that the definitions of the tasks share with the modules.
NoTasks == <<>>
ExprTasks == INSTANCE Evaluation WITH Expressions <- NoTasks
GhostPasses == GhostTasks!GhostPasses
FieldTasks == INSTANCE MCFieldPermissions
FieldPasses == FieldTasks!FieldPasses
IOPasses == NetTasks!IOPasses

-----------------------------------------------------------------------------
(* Global code *)

Use(path) == [path |-> path, on |-> None]
CallOn(c) == [path |-> <<>>, on |-> c]
Evaluate(use) == [op |-> "use", use |-> use]
Def(d) == [op |-> "def", name |-> d]
Var(d) == [op |-> "var", name |-> d, reads |-> {}]
VarOf(d, path) == [op |-> "var", name |-> d, reads |-> {Use(path)}]
Class(d) == [op |-> "class", name |-> d, reads |-> {}]
Import(m) == [op |-> "import", mod |-> m]
From(m, n, as) == [op |-> "from", mod |-> m, name |-> n, as |-> as]
Star(m) == [op |-> "star", mod |-> m]

Declarations == {"f", "g", "h", "x", "y", "bar", "A", "B", "A.m", "B.m", "A.init"}
NoClasses == [c \in {} |-> None]
Orders(S) == {s \in [1..Cardinality(S) -> S] : \A i, j \in DOMAIN s : i # j => s[i] # s[j]}

\* One module: functions that call and read what may be defined after them.
LateNames ==
  {[code |-> [m \in {"main"} |-> code], home |-> [d \in Declarations |-> "main"],
    uses |-> [d \in {"f", "g"} |-> {Use(<<n>>) : n \in IF d = "f" THEN ofF ELSE ofG}],
    notes |-> [d \in {"f", "g"} |-> {}], base |-> NoClasses, method |-> NoClasses,
    alias |-> NoClasses] :
     code \in Orders({Def("f"), Def("g"), Var("x"), VarOf("y", <<"f">>)}),
     ofF \in SUBSET {"g", "x", "__name__"}, ofG \in SUBSET {"f", "x"}}

\* Classes: a method may be that of a class that comes later.
Classes ==
  {[code |-> [m \in {"main"} |-> code], home |-> [d \in Declarations |-> "main"],
    uses |-> [d \in {"bar", "A.m", "B.m", "A.init"} |->
                CASE d = "bar" -> {CallOn("A")} [] d = "A.m" -> {Use(<<"x">>)}
                  [] d = "B.m" -> {Use(<<"y">>)} [] d = "A.init" -> init],
    notes |-> [d \in {"bar", "A", "B"} |-> IF d = "bar" THEN {[path |-> <<"A">>, quoted |-> quoted]} ELSE {}],
    base |-> [c \in {"A", "B"} |-> IF c = "B" THEN "A" ELSE None],
    method |-> [c \in {"A", "B"} |-> [n \in {"m", "init"} |->
                 IF n = "m" THEN (IF c = "A" THEN "A.m" ELSE ofB)
                 ELSE IF c = "A" THEN "A.init" ELSE None]],
    alias |-> NoClasses] :
     code \in Orders({Class("A"), Class("B"), Def("bar"), Var("x"), VarOf("y", <<"B">>),
                      Evaluate(Use(<<"bar">>))}),
     ofB \in {"B.m", None}, init \in {{}, {Use(<<"x">>)}}, quoted \in BOOLEAN}
\* (Every two of the three choices together.)
PairedClasses == {p \in Classes : ({} = p.uses["A.init"]) # (p.method["B"]["m"] = None)
                                    <=> \E note \in p.notes["bar"] : note.quoted}

\* Three modules that import each other.
MainCode ==
  {<<i, s, t>> : i \in {Import("a"), From("a", "g", "g"), From("a", "g", "k"), Star("a")},
                 s \in {Def("h"), Evaluate(Use(<<"g">>)), Import("b"), Star("b")},
                 t \in {Evaluate(Use(path)) : path \in {<<"g">>, <<"k">>, <<"h">>, <<"y">>, <<"a", "g">>, <<"b", "y">>}}}
CodeOfA == {<<From("b", "y", "y"), Def("g")>>, <<Import("b"), Def("g")>>, <<Def("g"), Import("b")>>,
            <<Star("b"), Def("g"), Evaluate(Use(<<"g">>))>>}
CodeOfB == {<<Var("y")>>, <<Import("a"), Var("y")>>, <<From("a", "g", "g"), Var("y")>>,
            <<Star("a"), VarOf("y", <<"g">>)>>, <<Var("y"), Import("a")>>}
Imports ==
  {[code |-> [m \in {"main", "a", "b"} |->
                CASE m = "main" -> main [] m = "a" -> a [] m = "b" -> b],
    home |-> [d \in Declarations |-> CASE d = "g" -> "a" [] d = "y" -> "b" [] OTHER -> "main"],
    uses |-> [d \in {"g", "h"} |-> IF d = "g" THEN {Use(inG)} ELSE {Use(inH)}],
    notes |-> [d \in {"g", "h"} |-> {}], base |-> NoClasses, method |-> NoClasses,
    alias |-> [n \in {"k"} |-> "g"]] :
     main \in MainCode, a \in CodeOfA, b \in CodeOfB, inG \in {<<"y">>, <<"b", "y">>}, inH \in {<<"g">>, <<"a", "g">>}}
\* (What h reads matters where it is defined.)
DistinctImports == {p \in Imports : Def("h") \in Range(p.code["main"]) \/ p.uses["h"] = {Use(<<"g">>)}}

\* A call of a method at module level, and a constructor called by a function.
Uncovered ==
  {[code |-> [m \in {"main"} |-> code], home |-> [d \in Declarations |-> "main"],
    uses |-> [d \in {"f", "A.m", "A.init"} |->
                CASE d = "f" -> {Use(<<"A">>)} [] d = "A.m" -> {Use(<<"x">>)}
                  [] d = "A.init" -> init],
    notes |-> [d \in {"f", "A"} |-> {}], base |-> [c \in {"A"} |-> None],
    method |-> [c \in {"A"} |-> [n \in {"m", "init"} |-> IF n = "m" THEN "A.m" ELSE "A.init"]],
    alias |-> NoClasses] :
     code \in UNION {Orders({Class("A"), Def("f"), Var("x"), Evaluate(use)}) :
                        use \in {Use(<<"f">>), CallOn("A")}},
     init \in {{}, {Use(<<"x">>)}}}

ModulePasses == <<LateNames, PairedClasses, DistinctImports>>
ModuleUncovered == <<Uncovered>>

-----------------------------------------------------------------------------
(* Expressions *)

K(v) == [op |-> "const", v |-> v]
Field == [op |-> "field"]
CallWith(fn, args, kws) == [op |-> "call", fn |-> fn, recv |-> None, args |-> args, kws |-> kws]
Toggle == CallWith("toggle", <<>>, <<>>)
Boom == CallWith("boom", <<>>, <<>>)
Add(l, r) == [op |-> "add", l |-> l, r |-> r]
Less(es) == [op |-> "less", es |-> es]
Junction(op, es) == [op |-> op, es |-> es]
If(c, t, f) == [op |-> "if", c |-> c, t |-> t, f |-> f]
Around(op, e) == [op |-> op, e |-> e]
Kw(n, e) == [name |-> n, e |-> e]
StarOf(items) == [op |-> "star", items |-> items]

Triples(S) == S \X S \X S

Parts == {K(0), K(1), Field, Toggle, Boom}
Nested == {K(1), Field, Toggle, Around("not", Toggle), Add(K(1), Toggle), Add(Toggle, Field),
           Junction("and", <<Toggle, K(1)>>), Junction("or", <<Toggle, Boom>>),
           If(Toggle, K(0), Toggle), CallWith("put", <<Toggle>>, <<>>), Less(<<Toggle, K(1)>>)}

Simple ==
  {Around(op, e) : op \in {"not", "constant", "type"}, e \in Parts}
    \cup {Add(l, r) : l, r \in Parts} \cup {Less(<<l, r>>) : l, r \in Parts}
Junctions(S) == {Junction(op, es) : op \in {"and", "or"}, es \in (S \X S) \cup Triples(S)}
Chains(S) == {Less(es) : es \in Triples(S)}
Conditionals(S) == {If(t[1], t[2], t[3]) : t \in Triples(S)}
Sums(S) == {Add(l, r) : l, r \in S}
ArgumentLists(S) ==
  {<<StarOf(<<e, K(1), e>>)>> : e \in S} \cup {<<e, K(1), StarOf(<<K(0), e>>)>> : e \in S}
    \cup {<<l, r>> : l, r \in S} \cup {<<l, r, K(0)>> : l, r \in S}
Calls(S) ==
  {CallWith("put", args, kws) : args \in ArgumentLists(S),
     kws \in {<<>>} \cup {<<Kw(n, e)>> : n \in {"c", "z"}, e \in S}}
    \cup {CallWith("put", <<l>>, <<Kw(n, e), Kw(m, K(1))>>) :
             l \in S, e \in S, n \in {"b", "z"}, m \in {"c", "y"}}
Methods(S) == {[CallWith("put", <<a>>, <<>>) EXCEPT !.recv = r] : r, a \in S}

\* Whether the Viper expression reads the heap, and whether there are statements.
RECURSIVE Reads(_)
Reads(e) ==
  CASE e.op = "field" -> TRUE
    [] e.op = "not" -> Reads(e.e)
    [] e.op = "add" -> Reads(e.l) \/ Reads(e.r)
    [] e.op \in {"and", "or", "less"} -> \E i \in DOMAIN e.es : Reads(e.es[i])
    [] e.op = "if" -> Reads(e.c) \/ Reads(e.t) \/ Reads(e.f)
    [] OTHER -> FALSE
Operands(e) ==
  CASE e.op \in {"const", "field"} -> <<>>
    [] e.op \in {"not", "constant", "type"} -> <<e.e>>
    [] e.op = "add" -> <<e.l, e.r>>
    [] e.op \in {"and", "or", "less"} -> e.es
    [] e.op = "if" -> <<e.c, e.t, e.f>>
    [] e.op = "call" -> (IF e.recv = None THEN <<>> ELSE <<e.recv>>) \o ExprTasks!Unpacked(e.args)
                          \o [i \in DOMAIN e.kws |-> e.kws[i].e]
RECURSIVE Acts(_)
Acts(e) == e.op = "call" \/ \E i \in DOMAIN Operands(e) : Acts(Operands(e)[i])

\* What the translation gets wrong: an operand that reads the heap before a later
\* one changes it, the third operand of a chain, an object whose class is asked
\* for, keywords out of order.
RECURSIVE WithinLimits(_)
WithinLimits(e) ==
  LET es == Operands(e)
  IN  /\ \A i \in DOMAIN es : WithinLimits(es[i])
      /\ \A i, j \in DOMAIN es : (i < j /\ Reads(es[i])) => ~ Acts(es[j])
      /\ e.op = "less" => \A i \in DOMAIN es : i > 2 => ~ Acts(es[i])
      /\ e.op \in {"constant", "type"} => ~ Acts(e.e)
      /\ e.op = "call" => \A i, j \in DOMAIN e.kws :
           (i < j /\ Acts(e.kws[i].e) /\ Acts(e.kws[j].e)) => e.kws[i].name # "z"

AllExpressions ==
  <<Simple, Junctions(Parts), Chains(Parts), Conditionals(Parts), Calls(Parts), Methods(Parts),
    Sums(Nested), Junctions(Nested), Chains(Nested), Conditionals(Nested), Calls(Nested \ Parts)>>
ExpressionPasses == [i \in DOMAIN AllExpressions |-> {e \in AllExpressions[i] : WithinLimits(e)}]

-----------------------------------------------------------------------------
(* Pure functions *)

Nm(n) == [op |-> "var", n |-> n]
Plus(l, r) == [op |-> "add", l |-> l, r |-> r]
Equal(l, r) == [op |-> "eq", l |-> l, r |-> r]
Set(n, e) == [op |-> "assign", n |-> n, e |-> e]
AugmentBy(n, e) == [op |-> "aug", n |-> n, e |-> e]
Ret(e) == [op |-> "return", e |-> e]
When(c, t, f) == [op |-> "if", c |-> c, t |-> t, f |-> f]
Check(e) == [op |-> "assert", e |-> e]
Unfold == [op |-> "unfold", e |-> K(1)]
Case(value, name, guard, body) == [value |-> value, name |-> name, guard |-> guard, body |-> body]
MatchOf(e, cases) == [op |-> "match", e |-> e, cases |-> cases]

Branches ==
  {<<>>, <<Set("x", K(1))>>, <<Set("x", Around("inv", Nm("p")))>>, <<Set("y", Nm("x"))>>,
   <<Ret(K(2))>>, <<AugmentBy("x", K(1))>>, <<Set("x", K(3)), Ret(Nm("x"))>>,
   <<When(Nm("p"), <<Set("x", K(4))>>, <<Ret(K(5))>>)>>,
   <<When(Nm("p"), <<Ret(Nm("p"))>>, <<>>), Set("y", K(1))>>}
Before == {<<>>, <<Set("x", K(0))>>, <<Set("y", Nm("p")), Set("x", Nm("y"))>>, <<Set("p", Plus(Nm("p"), K(1)))>>}
Afterwards ==
  {<<>>, <<Ret(Nm("x"))>>, <<Ret(Plus(Nm("x"), Nm("y")))>>, <<AugmentBy("x", K(1)), Ret(Nm("x"))>>,
   <<Set("y", Nm("x")), Ret(Nm("y"))>>, <<Check(Nm("p")), Ret(K(1))>>,
   <<When(Nm("p"), <<Set("x", K(6))>>, <<>>), Ret(Nm("x"))>>, <<When(Nm("p"), <<Ret(Nm("x"))>>, <<>>)>>}
OtherBranches == {<<>>, <<Set("x", K(1))>>, <<Set("y", Nm("x"))>>, <<Ret(K(2))>>, <<AugmentBy("x", K(1))>>}
Conditional == {pre \o <<When(Nm("c"), t, f)>> \o post :
                  pre \in Before, t \in Branches, f \in OtherBranches, post \in Afterwards}

Unfolding == {pre \o <<When(Nm("c"), t, <<>>)>> \o <<Ret([op |-> "field"])>> :
                pre \in {<<>>, <<Unfold>>}, t \in {<<Unfold>>, <<Ret(K(1))>>, <<Check([op |-> "field"]), Unfold>>}}

\* The name of a guarded case is read in that case only: Python binds it also when
\* the guard fails, the translation does not.
CaseBodies == {<<>>, <<Set("x", Plus(Nm("x"), K(2)))>>, <<Ret(Nm("x"))>>, <<Set("y", K(1))>>}
Matching ==
  {<<Set("x", K(0)), MatchOf(e, <<Case(v, "z", g, b1), Case(w, None, None, b2), Case(None, "y", None, b3)>>)>>
     \o post : e \in {Nm("p"), Around("inv", Nm("p"))}, v \in {0, None}, w \in {1, None},
              g \in {None, Nm("c"), Equal(Nm("z"), Nm("c"))}, b1 \in {<<>>, <<Ret(Nm("z"))>>},
              b2 \in CaseBodies, b3 \in {<<>>, <<Set("y", K(1))>>}, post \in {<<>>, <<Ret(Plus(Nm("x"), Nm("y")))>>}}

PurePasses == <<Conditional, Unfolding, Matching>>

-----------------------------------------------------------------------------
(* Class hierarchies *)

Op(op) == [op |-> op]
SetTo(v) == [op |-> "set", v |-> v]
Result(v) == [op |-> "ret", v |-> v]
CallOf(n) == [op |-> "call", n |-> n]
Contract(pre, needs, gives, post, default, body) ==
  [pre |-> pre, needs |-> needs, gives |-> gives, post |-> post, default |-> default, body |-> body]
PyClass(methods, inv, maker) == [methods |-> methods, inv |-> inv, maker |-> maker]

\* The methods of a class: each name with one of its candidates, None for absent.
Defines(candidates) ==
  {[n \in {n \in DOMAIN choice : choice[n] # None} |-> choice[n]] :
     choice \in {f \in [DOMAIN candidates -> UNION {candidates[n] : n \in DOMAIN candidates}] :
                  \A n \in DOMAIN f : f[n] \in candidates[n]}}

Plain(bodies) ==
  {Contract(pre, "none", "none", post, default, body) :
     pre \in {{0}, {0, 1}}, post \in {{0}, {0, 1}}, default \in {None, 0}, body \in bodies}
Returning == {<<Result(0)>>, <<Result(1)>>, <<CallOf("k")>>}
Helpers == {Contract({0, 1}, "none", "none", {0}, None, <<Result(0)>>),
           Contract({0, 1}, "none", "none", {0, 1}, None, <<Result(1)>>)}
Overriding ==
  {<<PyClass(a, None, FALSE), PyClass(b, None, FALSE)>> :
     a \in Defines([m |-> Plain(Returning), k |-> Helpers]),
     b \in Defines([m |-> Plain({<<Result(1)>>, <<Op("super")>>}) \cup {None}, k |-> Helpers \cup {None}])}

Changing(body) == Contract({0, 1}, "pred", "pred", {None}, None, <<Op("unfold")>> \o body \o <<Op("fold")>>)
Reading == Contract({0}, "pred", "pred", {0}, None, <<Op("unfold"), Op("get"), Op("fold")>>)
Making(pre, body) == Contract(pre, "none", "pred", {None}, None, body \o <<Op("fold")>>)
Changes == {Changing(<<SetTo(0)>>), Changing(<<Op("setarg")>>), Reading}
Supers == {Changing(<<Op("super")>>), None}
Makers == {Making({0}, <<Op("setarg")>>), Making({0, 1}, <<Op("setarg")>>)}
Families ==
  {<<PyClass(a, inv[1], made), PyClass(b, inv[2], FALSE), PyClass(c, inv[3], FALSE)>> :
     a \in Defines([m |-> Changes, init |-> Makers]),
     b \in Defines([m |-> {Changing(<<SetTo(0)>>), Reading} \cup Supers,
                   init |-> {Making({0, 1}, <<SetTo(0)>>), Making({0, 1}, <<Op("super")>>)}]),
     c \in Defines([m |-> Supers, init |-> {Making({0}, <<Op("super")>>)}]),
     inv \in {{0}, {0, 1}} \X {{0}, {0, 1}, None} \X {{0}, None}, made \in BOOLEAN}

HierarchyPasses == <<{p \in Overriding : NoGaps(p)}, {p \in Families : NoGaps(p) /\ OwnConstructors(p)}>>

\* The class in between does not declare the method.
HierarchyGaps ==
  <<{<<PyClass(a, None, FALSE), PyClass(b, None, FALSE), PyClass(c, None, FALSE)>> :
       a \in Defines([m |-> Plain({<<Result(0)>>})]), b \in Defines([k |-> Helpers]),
       c \in Defines([m |-> Plain({<<Result(1)>>, <<Op("super")>>})])}>>

-----------------------------------------------------------------------------
(* Declared types *)

Inst(c) == [k |-> "inst", c |-> c, args |-> <<>>]
InstOf(c, d) == [k |-> "inst", c |-> c, args |-> <<d>>]
UnionType(items) == [k |-> "union", items |-> items]
Extending(c, args) == [c |-> c, args |-> args]
Bases(c) == {Extending(Object, <<>>)} \cup {Extending(d, <<>>) : d \in c}
Hierarchy(super, generic, enums) ==
  [classes |-> DOMAIN super, generic |-> generic, enums |-> enums, super |-> super]
Root == Extending(Object, <<>>)

UnionsOf(h, types) ==
  {u \in {UnionType(o) : o \in {{s, t} : s, t \in types} \cup {{s, t, u} : s, t, u \in types}} :
     IsDeclaredType(h, u)}
Declared(h, types) == {h @@ [declared |-> t] : t \in types \cup UnionsOf(h, types)}

PlainHierarchies ==
  UNION {LET h == Hierarchy([c \in {"A", "B", "C", "D", NoneType} |->
                              CASE c = "B" -> b [] c = "C" -> c1 [] c = "D" -> d [] OTHER -> Root], {}, enums)
         IN  Declared(h, {Inst(c) : c \in {"A", "B", "C", "D"}} \cup {NoType, Inst(Object)}) :
           b \in Bases({"A"}), c1 \in Bases({"A", "B"}), d \in Bases({"C"}), enums \in {{}, {"D"}}}
GenericHierarchies ==
  UNION {LET h == Hierarchy([c \in {"A", "B", "C", NoneType} |->
                              CASE c = "B" -> Extending("A", args) [] OTHER -> Root],
                            IF args = <<"C">> /\ plain THEN {"A"} ELSE {"A", "B"}, {})
         IN  Declared(h, {Inst("A"), Inst("B"), Inst("C"), InstOf("A", "C"), NoType} \cup
                         (IF "B" \in h.generic THEN {InstOf("B", "C"), InstOf("B", NoneType)} ELSE {})) :
           args \in {<<"var">>, <<"C">>}, plain \in BOOLEAN}
TypePasses == <<PlainHierarchies, GenericHierarchies>>

-----------------------------------------------------------------------------
(* Algebraic data types *)

FieldNamed(name, typ) == [name |-> name, typ |-> typ]
ConsOf(name, fields) == [name |-> <<name>>, fields |-> fields]
AdtClassOf(name, super, body, tuple) == [name |-> name, super |-> super, body |-> body, tuple |-> tuple]
ListCons == <<ConsOf("Node", <<FieldNamed(<<"elem">>, "int"), FieldNamed(<<"next">>, "self")>>), ConsOf("Null", <<>>)>>
TreeCons == <<ConsOf("Leaf", <<FieldNamed(<<"elem">>, "int")>>),
              ConsOf("Node", <<FieldNamed(<<"left">>, "self"), FieldNamed(<<"right">>, "self")>>)>>
ShapeCons == <<ConsOf("Circle", <<FieldNamed(<<"radius">>, "int")>>),
               ConsOf("Label", <<FieldNamed(<<"owner">>, "C"), FieldNamed(<<"size">>, "int")>>)>>
\* The field type has the name of the constant of the constructor.
TypeField == <<ConsOf("Leaf", <<FieldNamed(<<"type">>, "int")>>), ConsOf("Null", <<>>)>>

\* Tuples that are equal in Python.
SideCons == <<ConsOf("Left", <<FieldNamed(<<"elem">>, "int")>>), ConsOf("Right", <<FieldNamed(<<"elem">>, "int")>>)>>

AdtOf(cons, body, tupleOf(_)) ==
  [kind |-> "adt", name |-> <<"Adt">>, cons |-> cons,
   classes |-> <<AdtClassOf(<<"Adt">>, "ADT", "pass", None)>>
                 \o [i \in DOMAIN cons |-> AdtClassOf(cons[i].name, "Adt", body, tupleOf(cons[i].name))]]
AdtPasses ==
  <<{AdtOf(cons, "doc", LAMBDA n : n) : cons \in {ListCons, TreeCons, ShapeCons, SideCons, TypeField, <<>>}},
    {AdtOf(ListCons, "methods", LAMBDA n : n), AdtOf(ListCons, "pass", LAMBDA n : <<"Other">>)},
    {[kind |-> "enum", members |-> members] : members \in SUBSET (0..2)}>>

-----------------------------------------------------------------------------

FrontEndInit == Init \/ Exprs!Init \/ Pure!Init \/ Ghosts!Init \/ ClassesInit \/ TypesInit
                  \/ Fields!Init \/ Nets!Init \/ AdtInit
FrontEndNext == Next \/ Exprs!Next \/ Pure!Next \/ Ghosts!Next \/ ClassesNext \/ TypesNext
                  \/ Fields!Next \/ Nets!Next \/ AdtNext
FrontEndSpec == FrontEndInit /\ [][FrontEndNext]_vars

\* See Evaluation: translated expressions do what Python does (expression.py,
\* call.py).
ExpressionsRunLikePython == Exprs!ExpressionsRunLikePython

\* See PureFunctions: the expression for a pure function has Python's value
\* (pure.py translate_exprs).
PureFunctionsReturnPythonsValue == Pure!PureFunctionsReturnPythonsValue

\* See GhostCode: extraction succeeds and leaves a program that is complete in itself
\* (extraction.py).
ExtractionIsComplete == Ghosts!ExtractionIsComplete

\* See GhostCode: erasing ghost code changes nothing that exists at run time
\* (ghost_checker.py, extraction.py).
ErasureKeepsTheRegularRun == Ghosts!ErasureKeepsTheRegularRun

\* See FieldPermissions: contracts over fields that come and go are kept
\* (statement.py create_new_field_permission).
FieldsAreThere == Fields!FieldsAreThere

\* See IOOperations: verified input and output is what the net allows, and an
\* operation that terminates ends (opener.py, result_translator.py,
\* termination_check.py).
OperationsKeepTheirWord ==
    Nets!InputOutputIsAllowed /\ Nets!TerminatingOperationsEnd
=============================================================================
