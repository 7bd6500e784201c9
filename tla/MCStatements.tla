---------------------------- MODULE MCStatements ----------------------------
(* Statements for TLC: the method bodies of MCControlFlow, match statements, *)
(* assignments and uses of names.  A behaviour has one of them: the         *)
(* variables of ControlFlow stand still at the end of an empty method in    *)
(* the others.                                                              *)
EXTENDS MCControlFlow

CONSTANTS None, MatchStatements, NamedPrograms, AssignmentPrograms

VARIABLES task, state

Matching == INSTANCE PatternMatching WITH Matches <- MatchStatements
Assigning == INSTANCE Assignments
AssignmentTasks == INSTANCE MCAssignments
Naming == INSTANCE Names
NamingTasks == INSTANCE Names WITH NamedPrograms <- <<>>

\* The variables of ControlFlow at the end of an empty method.
Idle ==
  /\ body = <<>> /\ declared = TRUE /\ junk \in Junk
  /\ code = <<Label(EndLabel)>> /\ pc = 1
  /\ store = [v \in {MethodError} |-> Null] /\ result = <<>>
  /\ outcomes = <<>> /\ events = <<>>

-----------------------------------------------------------------------------
(* Match statements *)

Val(cls, n) == [cls |-> cls, n |-> n, f |-> <<>>]
Obj(cls, v) == [cls |-> cls, n |-> 0, f |-> <<v>>]
IntOf(n) == Val("int", n)
BoolOf(n) == Val("bool", n)
NoneVal == Val("none", 0)
Values == {IntOf(0), IntOf(1), BoolOf(0), BoolOf(1), NoneVal}
Subjects == Values \cup {Obj("A", IntOf(1)), Obj("A", BoolOf(1)), Obj("B", NoneVal), Obj("B", IntOf(0))}

As(name, sub) == [p |-> "as", name |-> name, sub |-> sub]
Wildcard == As(None, None)
Single(v) == [p |-> "single", v |-> v]
Equals(v) == [p |-> "value", v |-> v]
OfClass(c, kw) == [p |-> "class", cls |-> c, kw |-> kw]
OneOf(alts) == [p |-> "or", alts |-> alts]

Tests == {Single(BoolOf(1)), Single(BoolOf(0)), Single(NoneVal), Equals(IntOf(0)), Equals(IntOf(1)), OfClass("int", <<>>)}
Inner == {As("x", None), As("y", Single(BoolOf(1))), Equals(IntOf(1))}
Patterns ==
  Tests \cup {As("x", t) : t \in Tests} \cup {OfClass(c, <<>>) : c \in {"A", "B", "bool"}}
    \cup {OfClass(c, <<p>>) : c \in {"A", "B"}, p \in Inner}
    \cup {As("x", OfClass("A", <<As("y", None)>>)), OfClass("A", <<Equals(IntOf(1)), As("y", None)>>)}
    \cup {OneOf(<<p, q>>) : p, q \in {Single(BoolOf(1)), Equals(IntOf(0)), OfClass("B", <<>>)}}
    \cup {OneOf(<<As("x", Single(BoolOf(1))), As("x", OfClass("A", <<>>))>>)}
Guards == {None} \cup {[name |-> n, v |-> v] : n \in {"x", "y"}, v \in {IntOf(1), BoolOf(1)}}

RECURSIVE Captured(_)
Captured(p) ==
  CASE p.p = "as"    -> {p.name} \cup (IF p.sub = None THEN {} ELSE Captured(p.sub))
    [] p.p = "class" -> UNION {Captured(p.kw[i]) : i \in DOMAIN p.kw}
    [] p.p = "or"    -> UNION {Captured(p.alts[i]) : i \in DOMAIN p.alts}
    [] OTHER -> {}

\* A name has no value before the statement if a case with a guard or an or-pattern
\* captures it: Python keeps it bound when the guard fails, the translation assigns
\* neither then nor for an alternative.
CapturedOnce(m) ==
  \A i \in DOMAIN m.cases :
    (m.cases[i].guard # None \/ m.cases[i].pattern.p = "or") =>
       Captured(m.cases[i].pattern) \cap DOMAIN m.before = {}

CaseOf(p, g, reads) == [pattern |-> p, guard |-> g, reads |-> reads]
Befores == {[n \in {} |-> NoneVal], [n \in {"x", "y"} |-> BoolOf(1)]}
MatchesOf(first, last) ==
  {[subject |-> v, before |-> before, after |-> after,
    cases |-> <<CaseOf(p, g, reads), CaseOf(q, None, <<"x">>)>> \o rest] :
     v \in Subjects, before \in Befores, p \in first, g \in Guards, q \in last,
     reads \in {<<"x">>}, after \in {<<>>, <<"y">>},
     rest \in {<<>>, <<CaseOf(As("y", None), None, <<"y">>)>>}}
MatchPasses ==
  <<{m \in MatchesOf(Patterns, {Equals(IntOf(1)), As("x", OfClass("A", <<>>))}) : CapturedOnce(m)}>>

-----------------------------------------------------------------------------
(* Names *)

Assigned(n, v) == [op |-> "set", n |-> n, v |-> v]
ReadOf(n) == [op |-> "read", n |-> n]
Raising1 == [op |-> "raise"]
ForAll(n, reads) == [op |-> "all", n |-> n, v |-> 9, reads |-> reads]
CallSub(arg, site) == [op |-> "inline", arg |-> arg, site |-> site]
TryOf(b, catches, as, handler, orelse, final) ==
  [op |-> "try", body |-> b, catches |-> catches, as |-> as, handler |-> handler,
   orelse |-> orelse, final |-> final]

ReadAll(ns) == [i \in DOMAIN ns |-> ReadOf(ns[i])]
Method(params, globals, b) == [params |-> params, globals |-> globals, body |-> b]
\* The inlined method has names of the caller.
SubMethods ==
  {Method(<<"x">>, {}, <<Assigned("p", 5)>> \o ReadAll(<<"p", "x", "g">>)),
   Method(<<"p">>, {"g"}, <<Assigned("g", 8), Assigned("p", 6), ForAll("p", <<"p", "g">>), ReadOf("p")>>),
   Method(<<"p">>, {}, <<TryOf(<<Assigned("x", 6), Assigned("p", 7), Raising1>>, TRUE, "e",
                               ReadAll(<<"e", "x", "p", "g">>), <<>>, <<Assigned("p", 4), ReadOf("x"), ReadOf("p")>>)>>),
   Method(<<"q">>, {}, <<TryOf(<<Assigned("x", 6)>>, TRUE, "e", <<ReadOf("q")>>, ReadAll(<<"x", "q", "g">>), <<>>),
                         Raising1>>)}
FirstUses == {<<>>, <<Assigned("p", 1)>>, <<Assigned("x", 2)>>, <<Assigned("x", 2), Assigned("p", 1)>>}
TriedUses == {<<s>> : s \in {Assigned("p", 3), Assigned("x", 3), Assigned("g", 3), ReadOf("x"), ForAll("p", <<"p", "x">>),
                            ForAll("x", <<"p", "x">>), CallSub("p", "call1"), CallSub("x", "call1")}}
HandlerUses == {ReadAll(<<"e", "p">>), <<Assigned("x", 4), ReadOf("p")>>, <<ForAll("e", <<"e", "p">>), ReadOf("e")>>,
                <<ForAll("g", <<"g", "x">>), Assigned("p", 5), ReadOf("e")>>}
ElseUses == {<<>>, ReadAll(<<"p", "x">>)}
FinallyUses == {<<>>, <<Assigned("x", 7)>>, <<ForAll("p", <<"p", "g">>), ReadOf("x")>>, <<CallSub("g", "call2")>>}
LastUses == {ReadAll(<<"p", "x", "g">>), <<CallSub("p", "call3"), ReadOf("p")>>}

HasTry(ss) == \E i \in DOMAIN ss : ss[i].op = "try"
Sites(ss) == {ss[i].site : i \in {i \in DOMAIN ss : ss[i].op = "inline"}}
MethodsWithTry ==
  {[main |-> Method(<<"p">>, globals, first \o <<TryOf(tried \o raising, TRUE, "e", handler, orelse, final)>> \o last),
    sub |-> sub, module |-> {"g", "x"}, statics |-> statics] :
     first \in FirstUses, tried \in TriedUses, raising \in {<<>>, <<Raising1>>}, handler \in HandlerUses,
     orelse \in ElseUses, final \in FinallyUses, last \in LastUses, sub \in SubMethods,
     globals \in {{}, {"g"}}, statics \in {{"p", "e"}}}

\* A method with a try statement is inlined once: its handlers get the aliases of the
\* last inlining.
InlinedOnce(p) == HasTry(p.sub.body) => Len(NamingTasks!Inlines(p.main.body) \o NamingTasks!LateInlines(p.main.body)) <= 1
NamePasses == <<{p \in MethodsWithTry : InlinedOnce(p)}>>

-----------------------------------------------------------------------------

AssignmentPasses == AssignmentTasks!AssignmentPasses

StatementsInit ==
  \/ Init /\ task = None /\ state = None
  \/ Idle /\ (Matching!Init \/ Assigning!Init \/ Naming!Init)
BodyStep == task = None /\ Next /\ UNCHANGED <<task, state>>
StatementsNext ==
  \/ BodyStep
  \/ task # None /\ (Matching!Next \/ Assigning!Next \/ Naming!Next) /\ UNCHANGED vars
StatementsSpec == StatementsInit /\ [][StatementsNext]_<<vars, task, state>>
                    /\ WF_<<vars, task, state>>(BodyStep)

\* See PatternMatching: a verified match statement takes Python's case with Python's
\* names (statement.py translate_stmt_Match).
MatchesLikePython == task # None => Matching!MatchesLikePython

\* See Assignments: assignments and loops leave Python's values (statement.py
\* assign_to, translate_stmt_For).
AssignmentsRunLikePython == task # None => Assigning!AssignmentsRunLikePython

\* See Names: names mean Python's variables (expression.py translate_Name, call.py
\* inline_method).
NamesMeanPythonsVariables == task # None => Naming!NamesMeanPythonsVariables
=============================================================================
