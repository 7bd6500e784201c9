-------------------------- MODULE MCFieldPermissions --------------------------
EXTENDS Naturals, Sequences, FiniteSets

CONSTANT None

VARIABLES task, state

Objects == INSTANCE FieldPermissions WITH FieldPrograms <- <<>>

-----------------------------------------------------------------------------
Num(n) == [op |-> "num", n |-> n]
Amount(op, l, r) == [op |-> op, l |-> l, r |-> r]
Half == Amount("div", Num(1), Num(2))
Wildcard == [op |-> "wildcard"]
Amounts == {Num(1), Half, Wildcard, Amount("sub", Num(1), Amount("mul", Num(3), Amount("div", Num(1), Num(4)))),
            Amount("add", Half, Amount("mul", Half, Num(1)))}

Lit(v) == [op |-> "const", v |-> v]
Param == [op |-> "param"]
Bound == [op |-> "bound"]
Read(f) == [op |-> "read", f |-> f]
Eq(l, r) == [op |-> "eq", l |-> l, r |-> r]
OldOf(e) == [op |-> "old", e |-> e]
LetIn(l, r) == [op |-> "let", l |-> l, r |-> r]
Quantified(op, dom, isold, e) == [op |-> op, dom |-> dom, isold |-> isold, e |-> e]

True == [op |-> "pure", e |-> Lit(1)]
Acc(f, amount) == [op |-> "acc", f |-> f, amount |-> amount]
Holds(e) == [op |-> "pure", e |-> e]
And(l, r) == [op |-> "and", l |-> l, r |-> r]
ImpliesThat(e, a) == [op |-> "implies", l |-> e, r |-> a]
MaySet(f) == [op |-> "mayset", f |-> f]
MayCreate(f) == [op |-> "maycreate", f |-> f]

SetTo(f, e) == [op |-> "set", f |-> f, e |-> e]
Del(f) == [op |-> "del", f |-> f]
CallM(e) == [op |-> "call", e |-> e]
AssertThat(a) == [op |-> "assert", e |-> a]
IfParam(body) == [op |-> "if", body |-> body]

MethodOf(types, pre, body, post) == [types |-> types, pre |-> pre, body |-> body, post |-> post]
Hierarchies2 == {[c \in {"A", "B"} |-> IF c = "B" THEN b ELSE None] : b \in {None, "A"}}
Program(super, cls, init, m, main) ==
  [super |-> super, cls |-> cls,
   methods |-> [n \in {"init", "m", "main"} |-> CASE n = "init" -> init [] n = "m" -> m [] n = "main" -> main]]

\* A constructor that leaves it to a method to create f.
InitEnds == {<<<<>>, MayCreate("f")>>, <<<<SetTo("f", Lit(0))>>, Acc("f", Num(1))>>,
             <<<<IfParam(<<SetTo("f", Lit(1))>>)>>, MaySet("f")>>,
             <<<<IfParam(<<SetTo("f", Lit(1))>>)>>, ImpliesThat(Param, Acc("f", Num(1)))>>,
             <<<<SetTo("f", Lit(1)), Del("f")>>, MayCreate("f")>>,
             <<<<SetTo("f", Lit(0)), SetTo("f", Lit(1))>>, And(Acc("f", Num(1)), Holds(Eq(Read("f"), Lit(1))))>>}
MethodPres == {True, MayCreate("f"), MaySet("f"), Acc("f", Num(1)), ImpliesThat(Param, Acc("f", Num(1)))}
MethodBodies == {<<>>, <<SetTo("f", Param)>>, <<Del("f")>>, <<IfParam(<<Del("f")>>)>>,
                 <<SetTo("f", Lit(1)), Del("f"), SetTo("f", Lit(0))>>, <<Read("f")>>}
MethodPosts == {True, Acc("f", Num(1)), MayCreate("f"), MaySet("f"),
                And(Acc("f", Num(1)), Holds(Eq(Read("f"), Param)))}
MainBodies == {<<CallM(Lit(1)), Read("f")>>, <<SetTo("f", Lit(1)), CallM(Param), Read("f")>>,
               <<CallM(Param), CallM(Lit(0)), Read("f")>>,
               <<CallM(Lit(0)), SetTo("f", Lit(1)), Del("f"), CallM(Lit(1)), AssertThat(Acc("f", Num(1)))>>}
CreatedFields(super, cls) ==
  {Program(super, cls, MethodOf(<<cls>>, True, i[1], i[2]), MethodOf(<<cls>>, pre, body, post),
           MethodOf(<<cls>>, True, main, True)) :
     i \in InitEnds, pre \in MethodPres, body \in MethodBodies, post \in MethodPosts, main \in MainBodies}
NoBase == [c \in {"A"} |-> None]
Creating == CreatedFields(NoBase, "A")

\* Contracts over what a field was, and amounts that leave the caller what it knows.
SetBoth == <<SetTo("f", Lit(1)), SetTo("g", Lit(0))>>
BothFields == And(And(Acc("f", Num(1)), Acc("g", Num(1))),
                  And(Holds(Eq(Read("f"), Lit(1))), Holds(Eq(Read("g"), Lit(0)))))
Formulas == {Eq(Read("f"), OldOf(Read("f"))), Eq(Read("f"), OldOf(Read("g"))), Eq(OldOf(Eq(Read("f"), Param)), Lit(0)),
             LetIn(Read("f"), Eq(OldOf(Read("f")), Bound)),
             LetIn(OldOf(Read("f")), Quantified("exists", <<Read("f"), Lit(0)>>, FALSE, Eq(Bound, Param))),
             Quantified("forall", <<Read("f"), Lit(1)>>, TRUE, Eq(Bound, Read("f"))),
             Quantified("forall", <<Read("f")>>, FALSE, Eq(Bound, OldOf(Read("f")))),
             Quantified("exists", <<Read("f"), Lit(0)>>, TRUE, Eq(Bound, Read("f")))}
OldValues ==
  {Program(NoBase, "A", MethodOf(<<"A">>, True, SetBoth, BothFields),
           MethodOf(<<"A">>, And(Acc("f", q), Acc("g", Wildcard)), body,
                    And(And(Acc("f", q2), Acc("g", Wildcard)), Holds(e))),
           MethodOf(<<"A">>, True, main, True)) :
     q \in Amounts, q2 \in Amounts, body \in {<<>>, <<SetTo("f", Param)>>, <<SetTo("f", Read("g"))>>}, e \in Formulas,
     main \in {<<CallM(Param), AssertThat(Holds(Eq(Read("f"), Lit(1))))>>,
               <<CallM(Lit(0)), AssertThat(Holds(Eq(Read("f"), Lit(0)))), SetTo("f", Lit(1))>>,
               <<CallM(Read("f")), CallM(Read("f")), SetTo("f", Lit(0))>>}}

\* Receivers that are a union, and fields a subclass inherits.
Receivers ==
  {Program(super, cls, MethodOf(<<cls>>, True, <<SetTo("f", Lit(1))>>, Acc("f", Num(1))),
           MethodOf(types, pre, body, post), MethodOf(<<cls>>, True, main, True)) :
     super \in Hierarchies2, cls \in {"A", "B"}, types \in {<<"A">>, <<"B">>, <<"A", "B">>, <<"B", "A">>},
     pre \in {Acc("f", Num(1)), Acc("f", Half), MaySet("f")},
     body \in {<<>>, <<SetTo("f", Param)>>, <<Del("f"), SetTo("f", Param)>>, <<Del("f")>>},
     post \in {Acc("f", Num(1)), MayCreate("f"), And(Acc("f", Num(1)), Holds(Eq(Read("f"), Param))),
               And(Acc("f", Half), Holds(Eq(Read("f"), OldOf(Read("f")))))},
     main \in {<<CallM(Lit(0)), Read("f"), AssertThat(Holds(Eq(Read("f"), Lit(0))))>>,
               <<CallM(Lit(1)), Read("f")>>, <<CallM(Lit(1)), SetTo("f", Lit(1))>>}}
\* A method is called on what its receiver can be.
CalledOn(p) == \E i \in DOMAIN p.methods["m"].types :
                 p.methods["m"].types[i] \in {p.cls, p.super[p.cls]}
FieldPasses == <<Creating, OldValues, {p \in Receivers : CalledOn(p)}>>

=============================================================================
