--------------------------- MODULE MCIOOperations ---------------------------
EXTENDS Naturals, Sequences, FiniteSets, TLC

CONSTANT None

VARIABLES task, state

-----------------------------------------------------------------------------
Nm(n) == [op |-> "name", n |-> n]
Num(v) == [op |-> "num", v |-> v]
Around(op, e) == [op |-> op, e |-> e]
Pos(e) == Around("pos", e)

And(l, r) == [op |-> "and", l |-> l, r |-> r]
Implies(test, r) == [op |-> "implies", test |-> test, r |-> r]
IfExp(l, test, r) == [op |-> "ifexp", test |-> test, l |-> l, r |-> r]
Io(name, args) == [op |-> "io", name |-> name, args |-> args]
ReadIo(pre, result, post) == Io("read", <<Nm(pre), Nm(result), Nm(post)>>)
WriteIo(pre, e, post) == Io("write", <<Nm(pre), e, Nm(post)>>)

Arg(name, typ) == [name |-> name, typ |-> typ]
Place(name) == Arg(name, "Place")
Int(name) == Arg(name, "int")
Operation(name, args, defaults, existentials, body, terminates, measure) ==
  [name |-> name, args |-> args, defaults |-> defaults, existentials |-> existentials,
   body |-> body, terminates |-> terminates, measure |-> measure]
Basic(name, args, defaults) == Operation(name, args, defaults, <<>>, None, Num(1), None)

Library ==
  "read" :> Basic("read", <<Place("t_pre"), Int("result"), Place("t_post")>>, 2)
    @@ "write" :> Basic("write", <<Place("t_pre"), Int("value"), Place("t_post")>>, 1)
    @@ "split_io" :> Basic("split_io", <<Place("t_pre"), Place("t_post1"), Place("t_post2")>>, 2)
    @@ "join_io" :> Basic("join_io", <<Place("t_pre1"), Place("t_pre2"), Place("t_post")>>, 1)
    @@ "end_io" :> Basic("end_io", <<Place("t_pre")>>, 0)

Nets == INSTANCE IOOperations WITH IOPrograms <- <<>>

\* main(t_pre, n, t_post) and part(t_pre, m, r, t_post).
Main(existentials, body) ==
  Operation("main", <<Place("t_pre"), Int("n"), Place("t_post")>>, 1, existentials, body, None, None)
Part(existentials, body) ==
  Operation("part", <<Place("t_pre"), Int("m"), Int("r"), Place("t_post")>>, 2, existentials, body, None, None)

Then(first, second) == And(first, second)
Vars == <<"v", "t2", "t3">>
MainBodies ==
  {Main(<<"v", "t2">>, b) :
     b \in {Then(ReadIo("t_pre", "v", "t2"), WriteIo("t2", Nm("v"), "t_post")),
            Then(WriteIo("t2", Nm("v"), "t_post"), ReadIo("t_pre", "v", "t2")),
            Then(ReadIo("t_pre", "v", "t2"), ReadIo("t2", "v", "t_post")),
            Then(ReadIo("t_pre", "v", "t_post"), WriteIo("t_pre", Nm("v"), "t2")),
            Then(IfExp(ReadIo("t_pre", "v", "t2"), Nm("n"), WriteIo("t_pre", Num(0), "t2")),
                 WriteIo("t2", Num(1), "t_post")),
            Then(IfExp(ReadIo("t_pre", "v", "t2"), Nm("n"), WriteIo("t_pre", Num(0), "t2")),
                 WriteIo("t2", Nm("v"), "t_post")),
            Then(IfExp(WriteIo("t_pre", Num(1), "t2"), Nm("n"), ReadIo("t_pre", "v", "t2")),
                 ReadIo("t2", "v", "t_post")),
            Then(Implies(Nm("n"), ReadIo("t_pre", "v", "t2")), WriteIo("t2", Num(1), "t_post")),
            Then(ReadIo("t2", "v", "t2"), WriteIo("t_pre", Num(1), "t_post"))}}
    \cup {Main(<<>>, Then(WriteIo("t_pre", Num(0), "t_post"), WriteIo("t_pre", Num(1), "t_post"))),
          Main(<<"t2">>, WriteIo("t_pre", Nm("n"), "t_post"))}
    \cup {Main(<<"v", "t2", "t3">>, Then(ReadIo("t_pre", "v", "t2"), b)) :
            b \in {IfExp(WriteIo("t2", Num(1), "t_post"), Nm("v"),
                         Then(WriteIo("t2", Num(0), "t3"), WriteIo("t3", Nm("n"), "t_post"))),
                   IfExp(Then(ReadIo("t2", "v", "t3"), WriteIo("t3", Num(0), "t_post")), Nm("n"),
                         WriteIo("t2", Nm("v"), "t_post"))}}
    \cup {Main(vs, Then(Io("part", <<Nm("t_pre"), Nm("n"), Nm("v"), Nm("t2")>>), b)) :
            vs \in {<<"v", "t2">>, <<"t2", "v">>},
            b \in {WriteIo("t2", Nm("v"), "t_post"),
                   Io("part", <<Nm("t2"), Num(0), Nm("v"), Nm("t_post")>>)}}
Parts ==
  {Part(<<>>, ReadIo("t_pre", "r", "t_post")),
   Part(<<"t5">>, Then(WriteIo("t_pre", Nm("m"), "t5"), ReadIo("t5", "r", "t_post"))),
   Part(<<"t5">>, IfExp(ReadIo("t_pre", "r", "t_post"), Nm("m"),
                        Then(WriteIo("t_pre", Num(1), "t5"), ReadIo("t5", "r", "t_post")))),
   Part(<<"t5">>, Then(ReadIo("t_pre", "r", "t5"), WriteIo("t5", Nm("r"), "t_post"))),
   Part(<<>>, None)}
UsesPart(o) == \E i \in DOMAIN Nets!CallsOf(o) : Nets!CallsOf(o)[i].op = "part"

Stmt(s, op, args, targets) == [s |-> s, op |-> op, args |-> args, targets |-> targets]
OpenStmt(op, arg) == Stmt("open", op, <<Nm("t_pre"), Nm(arg)>>, <<>>)
DoRead == Stmt("do", "read", <<Nm("t_pre")>>, <<"x", "t_pre">>)
DoWrite(e) == Stmt("do", "write", <<Nm("t_pre"), e>>, <<"t_pre">>)
DoPart == Stmt("do", "part", <<Nm("t_pre"), Nm("n")>>, <<"x", "t_pre">>)
When(e, body) == [s |-> "if", e |-> e, body |-> body]
Ghost == [s |-> "ghost", target |-> "end", op |-> "main", args |-> <<Nm("t_pre"), Nm("n")>>, index |-> 1]

Steps(o) ==
  {DoRead, DoWrite(Nm("n")), DoWrite(Nm("x")), DoWrite(Num(1))}
    \cup (IF UsesPart(o) THEN {OpenStmt("part", "n"), DoPart}
          ELSE {When(Nm("n"), <<DoRead>>), When(Around("not", Nm("n")), <<DoWrite(Num(0))>>)})
UpTo2(S) == {<<a>> : a \in S} \cup (S \X S)
UpTo3(S) == UpTo2(S) \cup (S \X S \X S)
Program(main, part, body, returns) ==
  [ops |-> "main" :> main @@ "part" :> part, main |-> "main", body |-> body, returns |-> returns]

Performances ==
  UNION {{Program(o, Part(<<>>, None), <<OpenStmt("main", "n")>> \o body, "t_pre") :
            body \in IF Len(Nets!CallsOf(o)) = 2 THEN UpTo2(Steps(o)) ELSE UpTo3(Steps(o))} :
           o \in {o \in MainBodies : ~ UsesPart(o)}}
PartPerformances ==
  UNION {{Program(o, part, <<OpenStmt("main", "n")>> \o body, "t_pre") :
            body \in UpTo2(Steps(o))} : o \in {o \in MainBodies : UsesPart(o)}, part \in Parts}
\* Four steps; and the place where the operation ends, known beforehand.
LongerPerformances ==
  {Program(o, part, <<Ghost, OpenStmt("main", "n")>> \o body, returns) :
     o \in {o \in MainBodies : UsesPart(o)}, part \in Parts, returns \in {"end", "t_pre"},
     body \in {<<OpenStmt("part", "n"), DoRead, DoWrite(Nm("x"))>>,
               <<DoPart, OpenStmt("part", "x"), DoRead>>, <<DoPart, DoPart>>,
               <<OpenStmt("part", "n"), DoWrite(Nm("n")), DoRead, DoWrite(Nm("x"))>>,
               <<OpenStmt("part", "n"), DoRead, DoWrite(Nm("x")), DoWrite(Nm("x"))>>}}

\* Two branches, in any order.
OnPlace(op, args, targets) == Stmt("do", op, args, targets)
Branches ==
  {Program(Main(<<"a", "b", "v", "c", "d">>,
                Then(Io("split_io", <<Nm("t_pre"), Nm("a"), Nm("b")>>),
                     Then(first, Then(ReadIo("b", "v", "d"), Io("join_io", <<Nm(l), Nm("d"), Nm("t_post")>>))))),
           Part(<<>>, None),
           <<OpenStmt("main", "n"), OnPlace("split_io", <<Nm("t_pre")>>, <<"p", "q">>)>> \o body, "t_pre") :
     l \in {"a", "c"}, first \in {WriteIo("a", Nm("n"), "c"), Then(WriteIo("a", Num(0), "c"), WriteIo("b", Num(1), "d"))},
     body \in {<<s1, s2, OnPlace("join_io", <<Nm("p"), Nm("q")>>, <<"t_pre">>)>> :
                 s1, s2 \in {OnPlace("write", <<Nm(t), e>>, <<t>>) : t \in {"p", "q"}, e \in {Nm("n"), Num(1)}}
                              \cup {OnPlace("read", <<Nm(t)>>, <<"x", t>>) : t \in {"p", "q"}}}}

\* An operation that does not come back.
Endings ==
  {[ops |-> "main" :> Operation("main", <<Place("t_pre"), Int("n")>>, 0, <<"t2">>,
                                            Then(WriteIo("t_pre", Nm("n"), "t2"), Io("end_io", <<Nm("t2")>>)),
                                            terminates, None),
    main |-> "main", body |-> <<OpenStmt("main", "n")>> \o body, returns |-> None] :
     terminates \in {None, Num(1)},
     body \in UpTo3({DoWrite(Nm("n")), DoWrite(Num(1)), OnPlace("end_io", <<Nm("t_pre")>>, <<>>)})}

-----------------------------------------------------------------------------
(* Termination *)

Rec(body, terminates, measure) ==
  Operation("main", <<Place("t_pre"), Int("n"), Place("t_post")>>, 1, <<"v", "t2">>, body, terminates, measure)
RecIo(pre, e, post) == Io("main", <<Nm(pre), e, Nm(post)>>)
Other(body, terminates, measure) ==
  Operation("part", <<Place("t_pre"), Int("m"), Int("r"), Place("t_post")>>, 2, <<>>, body, terminates, measure)
OtherIo(e) == Io("part", <<Nm("t2"), e, Nm("v"), Nm("t_post")>>)
ReadThen(body) == Then(ReadIo("t_pre", "v", "t2"), body)

Smaller == {Nm("n"), Around("dec", Nm("n")), Around("inc", Nm("n")), Nm("v"), Num(0)}
Recursions ==
  {ReadThen(RecIo("t2", e, "t_post")) : e \in Smaller}
    \cup {ReadThen(Implies(test, RecIo("t2", e, "t_post"))) :
            e \in Smaller, test \in {Pos(Nm("n")), Around("not", Pos(Nm("n"))), Nm("v")}}
    \cup {ReadThen(IfExp(RecIo("t2", e, "t_post"), test, WriteIo("t2", Nm("n"), "t_post"))) :
            e \in Smaller, test \in {Pos(Nm("n")), Pos(Around("dec", Nm("n"))), Pos(Nm("v"))}}
    \cup {IfExp(WriteIo("t_pre", Nm("n"), "t_post"), Pos(Nm("n")),
                Then(ReadIo("t_pre", "v", "t2"), RecIo("t2", Around("inc", Nm("n")), "t_post")))}
    \cup {Then(ReadIo("t_pre", "v", "t2"), Implies(Pos(Nm("n")), Io(op, <<Nm("t2"), Nm("t_post")>>))) :
            op \in {"gap_io", "forever"}}
Measures == {None, Nm("n"), Around("inc", Nm("n")), Num(2)}
Conditions == {None, Num(1), Pos(Nm("n")), Around("not", Pos(Nm("n")))}
Unending == "gap_io" :> Basic("gap_io", <<Place("t_pre"), Place("t_post")>>, 1)
            @@ "forever" :> Operation("forever", <<Place("t_pre"), Place("t_post")>>, 1, <<>>, None, None, None)
Termination ==
  {[ops |-> Unending @@ "main" :> Rec(body, terminates, measure), main |-> "main", body |-> None,
    returns |-> None] : body \in Recursions, terminates \in Conditions, measure \in Measures}
MutualTermination ==
  {[ops |-> "main" :> Rec(ReadThen(Implies(Pos(Nm("n")), OtherIo(e))), terminates, measure)
            @@ "part" :> Other(IfExp(Io("main", <<Nm("t_pre"), d, Nm("t_post")>>), Pos(Nm("m")),
                                     ReadIo("t_pre", "r", "t_post")), Num(1), other),
    main |-> "main", body |-> None, returns |-> None] :
     e \in Smaller, terminates \in Conditions, measure \in Measures,
     d \in {Nm("m"), Around("dec", Nm("m"))}, other \in {None, Nm("m"), Around("inc", Nm("m")), Num(2)}}

IOPasses == <<Performances, PartPerformances, LongerPerformances, Branches, Endings, Termination, MutualTermination>>

=============================================================================
