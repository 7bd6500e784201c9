----------------------------- MODULE MCGhostCode -----------------------------
(* The programs on which the ghost checker and the extractor are run. *)
EXTENDS Naturals, Sequences

VARIABLES task, state

Ex(k, id, on, args) == [k |-> k, id |-> id, on |-> on, args |-> args, flag |-> "unset", has |-> FALSE]
V(x) == Ex("var", x, "", <<>>)
Call(f, args) == Ex("call", f, "", args)
St(k, targets, value, body, orelse) ==
  [k |-> k, targets |-> targets, value |-> value, body |-> body, orelse |-> orelse,
   args |-> <<>>, flag |-> "unset", has |-> FALSE]
Zero == Ex("const", "", "", <<>>)
Pass == St("pass", <<>>, Zero, <<>>, <<>>)

F(ghost, pure, params, ret) == [ghost |-> ghost, pure |-> pure, params |-> params, ret |-> ret]
MCFunctions ==
  [pure   |-> F(FALSE, TRUE, <<FALSE>>, "regular"),
   impure |-> F(FALSE, FALSE, <<FALSE>>, "regular"),
   watch  |-> F(FALSE, FALSE, <<FALSE, TRUE>>, "regular"),
   gives  |-> F(FALSE, FALSE, <<FALSE>>, "ghost"),
   both   |-> F(FALSE, FALSE, <<FALSE>>, "mixed"),
   lemma  |-> F(TRUE, FALSE, <<TRUE>>, "ghost")]
MCFields == {"rf", "gf"}
MCVariables == {"r", "s", "g"}
Ghost == INSTANCE GhostCode WITH Functions <- MCFunctions, Variables <- MCVariables,
                                 Fields <- MCFields, GhostFields <- {"gf"}, Programs <- <<>>

Names == {V("r"), V("g")}
Places == {Ex("field", f, "r", <<>>) : f \in MCFields}
Flat == {Call(f, <<a>>) : f \in {"pure", "impure", "gives", "both", "lemma"}, a \in Names}
        \cup {Call("watch", <<a, b>>) : a \in Names, b \in Names}
        \cup {Ex("call", f, "g", <<V("r")>>) : f \in {"pure", "impure"}}
        \cup {Ex("builtin", "len", "", <<a>>) : a \in Names}
        \cup {Ex("reveal", "Reveal", "", <<a>>) : a \in {Call("pure", <<V("r")>>), Call("pure", <<V("g")>>)}}
Nested == {Call(f, <<c>>) : f \in {"pure", "impure", "lemma"}, c \in Flat}
          \cup {Call("watch", <<V("r"), c>>) : c \in Flat} \cup {Call("watch", <<c, V("g")>>) : c \in Flat}
          \cup {Ex("spec", "Assert", "", <<c>>) : c \in Flat}
          \cup {Ex("op", "", "", <<c, a>>) : c \in Flat \cup Names, a \in Names}
Values == Names \cup Places \cup Flat \cup Nested
Pairs == {Ex("pair", "", "", <<a, b>>) : a \in Names \cup Flat, b \in Names}
Targets == {<<t>> : t \in Names \cup Places \cup {Ex("elem", "", x, <<>>) : x \in {"r", "g"}}}
           \cup {<<V("g"), V("r")>>, <<V("s"), V("r")>>}

Assigned == {St("assign", ts, v, <<>>, <<>>) : ts \in Targets, v \in Values}
Unpacked == {St("assign", <<Ex("pair", "", "", <<a, b>>)>>, v, <<>>, <<>>) :
                a \in Names, b \in Names, v \in Pairs \cup {Call("both", <<c>>) : c \in Names}}
Updated == {St("aug", <<t>>, v, <<>>, <<>>) : t \in Names, v \in Values}
Evaluated == {St(k, <<>>, v, <<>>, <<>>) : k \in {"expr", "assert", "raise"}, v \in Values}
Returns == {St("return", <<>>, v, <<>>, <<>>) : v \in Values \cup Pairs}
Jumps == {St(k, <<>>, Zero, <<>>, <<>>) : k \in {"break", "continue"}}

\* Blocks of compound statements: statements of every kind, two at a time.
Short == {St("assign", <<t>>, v, <<>>, <<>>) :
             t \in Names, v \in Names \cup {Call("impure", <<V("r")>>), Call("gives", <<V("r")>>)}}
         \cup {St("assign", <<V("r")>>, Call("watch", <<V("r"), V("g")>>), <<>>, <<>>),
               St("expr", <<>>, Call("lemma", <<V("g")>>), <<>>, <<>>),
               St("return", <<>>, V("r"), <<>>, <<>>), St("raise", <<>>, Zero, <<>>, <<>>), Pass}
         \cup Jumps
LoopVar(k) == IF k = "for" THEN <<V("s")>> ELSE <<>>
Tests == Names \cup Flat \cup {Ex("op", "", "", <<c, V("g")>>) : c \in Flat}
Compound == {St(k, LoopVar(k), t, <<a>>, o) : k \in {"if", "while", "for"}, t \in Tests, a \in Short,
                                              o \in {<<>>}}
Blocks == {St(k, LoopVar(k), V(t), <<a, b>>, o) : k \in {"if", "while", "for", "try"}, t \in {"r", "g"},
                                       a \in Short, b \in Short, o \in {<<>>, <<Pass>>}}
Moves == {St("assign", <<V("r")>>, V("s"), <<>>, <<>>), St("assign", <<V("s")>>, V("g"), <<>>, <<>>)}
Uses == Short \cup Moves
Inner == {St(k, LoopVar(k), V(t), <<a>>, <<>>) : k \in {"if", "while", "for"}, t \in {"r", "g"}, a \in Uses}
NestedBlocks == {St(k, <<>>, V(t), <<a, i>>, <<>>) : k \in {"while", "try"}, t \in {"r", "g"}, i \in Inner,
                                                   a \in Moves \cup Jumps \cup {Pass, St("raise", <<>>, Zero, <<>>, <<>>)}}

P(ghost, ret, body) == [ghost |-> ghost, ret |-> ret, ghosts |-> {"g"}, params |-> <<>>, body |-> body]
\* Up to three parameters, positional ones first and those with a default last.
Parameter(x) == {[name |-> x, ghost |-> b, keyword |-> k, default |-> d] :
                   b \in BOOLEAN, k \in BOOLEAN, d \in {Ghost!NoDefault, Zero, V("g")}}
InOrder(ps) ==
  \A i, j \in DOMAIN ps : i < j =>
     /\ ps[i].keyword => ps[j].keyword
     /\ ~ps[j].keyword /\ ps[i].default # Ghost!NoDefault => ps[j].default # Ghost!NoDefault
Signatures ==
  {ps \in Parameter("a") \X Parameter("b") \X Parameter("c") : InOrder(ps)}
    \cup {ps \in Parameter("a") \X Parameter("b") : InOrder(ps)} \cup {<<a>> : a \in Parameter("a")}

\* (Families, because TLC builds small sets much faster than large ones.)
Copied == St("assign", <<V("r")>>, V("s"), <<>>, <<>>)
Everything ==
  <<{P(b, "regular", <<s>>) : b \in BOOLEAN, s \in Assigned}, {P(b, "regular", <<s>>) : b \in BOOLEAN, s \in Unpacked},
    {P(b, "regular", <<s>>) : b \in BOOLEAN, s \in Updated}, {P(b, "regular", <<s>>) : b \in BOOLEAN, s \in Evaluated},
    {P(FALSE, "regular", <<s>>) : s \in Compound},
    {P(FALSE, ret, <<s>>) : ret \in {"regular", "ghost", "mixed"}, s \in Returns},
    {P(FALSE, "regular", <<s, Copied>>) : s \in Blocks}, {P(TRUE, "regular", <<s, Copied>>) : s \in Blocks},
    {P(FALSE, "regular", <<s, Copied>>) : s \in NestedBlocks},
    {[P(b, "regular", <<Pass>>) EXCEPT !.params = ps] : b \in BOOLEAN, ps \in Signatures}>>

\* What the checker lets through although it should not, or the extractor leaves
\* behind: the README describes each case.  The programs that are run are the others.
RECURSIVE Inside(_), Statements(_)
Inside(e) == {e} \cup UNION {Inside(e.args[i]) : i \in DOMAIN e.args}
Statements(ss) == UNION {{ss[i]} \cup Statements(ss[i].body) \cup Statements(ss[i].orelse) : i \in DOMAIN ss}
Watches(e) == \E x \in Inside(e) : x.k = "call" /\ TRUE \in {MCFunctions[x.id].params[i] : i \in DOMAIN x.args} /\ ~MCFunctions[x.id].ghost
GivesGhost(e) == e.k = "call" /\ ~MCFunctions[e.id].pure /\ MCFunctions[e.id].ret # "regular"

GhostArgumentInside(s)  == \E x \in Inside(s.value) : Ghost!IsCall(x) /\ \E i \in DOMAIN x.args : Watches(x.args[i])
DroppedEffect(s)        == s.k \in {"expr", "if", "while", "for"} /\ GivesGhost(s.value)
PureCall(x) == x.k = "builtin" \/ (x.k = "call" /\ MCFunctions[x.id].pure)
HasImpure(e) == \E x \in Inside(e) : Ghost!IsImpureCall(x)
ConvertedEffect(s, p) ==
  IF s.k = "return"
  THEN p.ret # "regular" /\ ~Ghost!IsImpureCall(s.value) /\ HasImpure(s.value)
  ELSE /\ \E x \in Inside(s.value) : PureCall(x) /\ HasImpure(x)
       /\ \E i \in DOMAIN s.targets : Ghost!IsGhostTarget(s.targets[i], [vars |-> {"g"}])
UpdateOfAGhost(s)       == s.k = "aug" /\ s.targets[1] = V("g") /\ Ghost!IsCall(s.value)
ChainOfTargets(s)       == Len(s.targets) > 1 /\ GivesGhost(s.value)
Mentions(s, x) == V(x) \in Inside(s.value) \cup {s.targets[i] : i \in DOMAIN s.targets}
LateGhostVariable(s)    == \E i, j \in DOMAIN s.body : i < j /\ s.body[j].k = "for" /\ s.body[j].value = V("g") /\ Mentions(s.body[i], "s")
GhostKeywordWithoutDefault(p) == \E i \in DOMAIN p.params : p.params[i].keyword /\ p.params[i].ghost /\ p.params[i].default = Ghost!NoDefault
WithinLimits(p) == ~GhostKeywordWithoutDefault(p) /\ \A s \in Statements(p.body) :
  ~(\/ GhostArgumentInside(s) \/ DroppedEffect(s) \/ ConvertedEffect(s, p)
    \/ UpdateOfAGhost(s) \/ ChainOfTargets(s) \/ LateGhostVariable(s))
GhostPasses == [i \in DOMAIN Everything |-> {p \in Everything[i] : WithinLimits(p)}]

=============================================================================
