------------------------------ MODULE GhostCode ------------------------------
(***************************************************************************)
(* Ghost code: the checker that separates what exists at run time from     *)
(* what exists only for the proof, the extractor that removes the latter,  *)
(* and the run of a program before and after.                              *)
(*                                                                         *)
(* The checker marks the nodes of the syntax tree as it walks: `flag' is   *)
(* is_ghost ("unset" while the attribute is missing), `has' is             *)
(* contains_ghost.  A mark, once set, is what later questions are          *)
(* answered with; that is why the answers carry the marked tree along.     *)
(*                                                                         *)
(* Expressions: "const", "var", "field" (on.id), "elem" (on[..]), "op",    *)
(* "pair", "call" (of id, on a receiver `on' or on ""), "spec" (contract   *)
(* function), "reveal" (transparent call) and "builtin" (resolved late).   *)
(***************************************************************************)
EXTENDS Naturals, Sequences, SequencesExt

CONSTANTS Functions,    \* name -> [ghost, pure, params, ret]
          GhostFields,  \* the fields declared ghost
          Fields, Variables,
          Programs      \* families (a sequence of sets) of programs [ghost, ret, ghosts, params, body]

VARIABLES task,     \* the program at hand
          state     \* at: "written", "checked", "rejected", "extracted" or "crashed";
                    \* the program, marked once it is checked; what is left of its body

vars == <<task, state>>

Mark(n, ghost, has) == [n EXCEPT !.flag = IF ghost THEN "ghost" ELSE "regular", !.has = has]
AnyHas(nodes) == \E i \in DOMAIN nodes : nodes[i].has
\* Of a sequence of answers: whether all are positive, and the marked trees.
AllOk(answers) == \A i \in DOMAIN answers : answers[i].ok
Trees(answers) == [i \in DOMAIN answers |-> answers[i].e]
Known(b) == [k |-> "const", id |-> "", on |-> "", args |-> <<>>,
             flag |-> IF b THEN "ghost" ELSE "regular", has |-> b]
IsCall(e) == e.k \in {"call", "spec", "reveal", "builtin"}
InGhostCode(c) == [c EXCEPT !.ghost = TRUE]

(***************************************************************************)
(* Expressions.  c = [ghost: in_ghost_ctx, vars: the ghost variables].     *)
(***************************************************************************)
IsGhostTarget(e, c) ==
  CASE e.k = "var"   -> e.id \in c.vars
    [] e.k = "field" -> e.id \in GhostFields
    [] e.k = "elem"  -> e.on \in c.vars
    [] OTHER         -> FALSE

IsImpureCall(e) == e.k = "call" /\ ~Functions[e.id].pure

RECURSIVE IsGhost(_, _), CheckCall(_, _), CheckForCall(_, _)

\* The answer about an expression: [ok, v, e].
IsGhost(e, c) ==
  LET Leaf(v) == [ok |-> TRUE, v |-> v, e |-> Mark(e, v, v)]
      OfCall(j) == [ok |-> j.ok, v |-> j.ghost \/ j.info \in {"ghost", "mixed"}, e |-> j.e]
      OfParts(js) == LET v    == \E i \in DOMAIN js : js[i].v
                         args == Trees(js)
                     IN  [ok |-> AllOk(js), v |-> v, e |-> Mark([e EXCEPT !.args = args], v, v \/ AnyHas(args))]
  IN  IF e.flag # "unset" THEN [ok |-> TRUE, v |-> e.flag = "ghost", e |-> e]
      ELSE IF IsCall(e) THEN OfCall(CheckCall(e, c))
      ELSE IF e.k \in {"op", "pair"} THEN OfParts([i \in DOMAIN e.args |-> IsGhost(e.args[i], c)])
      ELSE Leaf(IsGhostTarget(e, c))

\* A mutant: a conversion leaves the mark of the converted expression as it is.
IsAssignableUnmarked(e1, g2, c, conversionAllowed) ==
  LET Answer(j) == [ok |-> j.ok, yes |-> (j.v = g2 \/ (conversionAllowed /\ g2)) /\ (~c.ghost \/ g2), e |-> j.e]
  IN  Answer(IsGhost(e1, c))

\* May e1 go where something (ghost iff g2) is expected?  [ok, yes, e].
IsAssignable(e1, g2, c, conversionAllowed) ==
  LET Answer(j) ==
        LET conversion == conversionAllowed /\ ~j.v /\ g2
        IN  [ok  |-> j.ok,
             yes |-> (conversion \/ j.v = g2) /\ (~c.ghost \/ g2),
             e   |-> IF conversion /\ ~IsImpureCall(e1) THEN Mark(j.e, TRUE, TRUE) ELSE j.e]
  IN  Answer(IsGhost(e1, c))

\* Every call under e, in the context c: [ok, e].
CheckForCall(e, c) ==
  LET Answer(js) == [ok |-> AllOk(js), e |-> [e EXCEPT !.args = Trees(js)]]
  IN  Answer([i \in DOMAIN e.args |-> IF IsCall(e.args[i]) THEN CheckCall(e.args[i], c)
                                                        ELSE CheckForCall(e.args[i], c)])

CheckGhostFunc(call, c) ==
  LET Answer(j) == [ok |-> j.ok, ghost |-> TRUE, info |-> "none", e |-> Mark(j.e, TRUE, TRUE)]
  IN  Answer(CheckForCall(call, InGhostCode(c)))

CheckUnresolvedCall(call, c) ==
  LET Answer(js) == LET v == c.ghost \/ \E i \in DOMAIN js : js[i].v
                    IN  [ok |-> AllOk(js), ghost |-> v, info |-> "none", e |-> Mark([call EXCEPT !.args = Trees(js)], v, v)]
  IN  Answer([i \in DOMAIN call.args |-> IsGhost(call.args[i], c)])

\* A call of a regular function from regular code, argument by argument.
CheckRegularCall(call, c) ==
  LET f == Functions[call.id]
      Answer(js) ==
        IF \A i \in DOMAIN js : js[i].ok /\ js[i].yes
        THEN [ok |-> TRUE, ghost |-> FALSE, info |-> f.ret,
              e |-> Mark([call EXCEPT !.args = Trees(js)], FALSE, \E i \in DOMAIN js : f.params[i])]
        ELSE IF f.pure THEN CheckGhostFunc(call, c)
        ELSE [ok |-> FALSE, ghost |-> FALSE, info |-> "none", e |-> call]
  IN  Answer([i \in DOMAIN call.args |->
                IsAssignable(call.args[i], f.params[i], [c EXCEPT !.ghost = @ \/ f.params[i]], TRUE)])

\* [ok, ghost: is the function ghost here, info: of its result, e].
CheckCall(e, c) ==
  CASE e.k = "spec" ->
         [ok |-> TRUE, ghost |-> TRUE, info |-> "none", e |-> Mark(e, TRUE, TRUE)]
    [] e.k = "reveal" ->
         LET Answer(j) == [ok |-> j.ok, ghost |-> j.v, info |-> "none", e |-> Mark([e EXCEPT !.args = <<j.e>>], j.v, TRUE)]
         IN  Answer(IsGhost(e.args[1], c))
    [] e.k = "builtin" -> CheckUnresolvedCall(e, c)
    [] OTHER ->
         LET f == Functions[e.id]
             asGhost == c.ghost \/ e.on \in c.vars
         IN  IF asGhost /\ ~f.ghost /\ ~f.pure
             THEN [ok |-> FALSE, ghost |-> FALSE, info |-> "none", e |-> e]
             ELSE IF asGhost \/ f.ghost THEN CheckGhostFunc(e, c)
             ELSE CheckRegularCall(e, c)

(***************************************************************************)
(* Statements: [k, targets, value, body, orelse, flag, has].  A check      *)
(* gives [ok, s, vars]; a For may add to the ghost variables.              *)
(***************************************************************************)
Rejected(s, c) == [ok |-> FALSE, s |-> s, vars |-> c.vars]
Accepted(ok, s, c) == [ok |-> ok, s |-> s, vars |-> c.vars]

\* Assignment of value to one target: [ok, value, target].
CheckAssign(value, target, c, conversionAllowed) ==
  LET Element(t, j) == [ok |-> j.ok /\ ~t.v /\ ~j.v /\ ~c.ghost, value |-> j.e, target |-> t.e]
      Other(t, j)   == [ok |-> j.ok /\ j.yes, value |-> j.e, target |-> t.e]
      To(t) == IF target.k = "elem" THEN Element(t, IsGhost(value, c))
                                    ELSE Other(t, IsAssignable(value, t.v, c, conversionAllowed))
  IN  To(IsGhost(target, c))

\* Unpacking of value into the targets of a pair.
CheckUnpacking(value, target, c) ==
  LET ts    == [i \in DOMAIN target.args |-> IsGhostTarget(target.args[i], c)]
      all   == \A i \in DOMAIN ts : ts[i]
      mixed == \E i \in DOMAIN ts : ts[i] # ts[1]
      Answer(j, as) ==
        LET args == [i \in DOMAIN as |-> as[i].target]
        IN  [ok |-> j.ok /\ AllOk(as), value |-> j.e,
             target |-> Mark([target EXCEPT !.args = args], all, all \/ AnyHas(args))]
      \* j is about the value; part i is ghost iff the value is, or the function gives it as such.
      Parts(j) == Answer(j, [i \in DOMAIN ts |->
                    CheckAssign(Known(j.v \/ (IsCall(value) /\ (j.info = "ghost" \/ (j.info = "mixed" /\ i = 2)))),
                                target.args[i], c, ~mixed)])
      OfCall(j) == [ok |-> j.ok, v |-> j.ghost, info |-> j.info, e |-> j.e]
  IN  Parts(IF IsCall(value) THEN OfCall(CheckCall(value, c)) ELSE IsGhost(value, c))

RECURSIVE CheckTargets(_, _, _)
CheckTargets(value, targets, c) ==
  IF targets = <<>> THEN [ok |-> TRUE, value |-> value, targets |-> <<>>]
  ELSE LET Answer(a, r) == [ok |-> a.ok /\ r.ok, value |-> r.value, targets |-> <<a.target>> \o r.targets]
           First(a) == Answer(a, CheckTargets(a.value, Tail(targets), c))
       IN  First(IF targets[1].k = "pair" THEN CheckUnpacking(value, targets[1], c)
                                          ELSE CheckAssign(value, targets[1], c, TRUE))

AllTargets(targets) ==
  FlattenSeq([i \in DOMAIN targets |-> IF targets[i].k = "pair" THEN targets[i].args ELSE <<targets[i]>>])

VisitAssign(s, c) ==
  LET ghostTargets == \A i \in DOMAIN AllTargets(s.targets) : IsGhostTarget(AllTargets(s.targets)[i], c)
      definitely   == ghostTargets /\ ~IsCall(s.value)
      Answer(r, j) ==
        LET ghost == definitely \/ (ghostTargets /\ j.v)
        IN  Accepted(r.ok /\ j.ok,
                     Mark([s EXCEPT !.targets = r.targets, !.value = j.e], ghost,
                          ghost \/ j.e.has \/ AnyHas(r.targets)), c)
      Checked(r) == Answer(r, IsGhost(r.value, c))
  IN  Checked(CheckTargets(s.value, s.targets, IF definitely THEN InGhostCode(c) ELSE c))

VisitAugAssign(s, c) ==
  LET Answer(t, v, cc, ghost) ==
        Accepted(v.ok /\ CheckAssign(Known(v.v), s.targets[1], cc, TRUE).ok,
                 Mark([s EXCEPT !.targets = <<t.e>>, !.value = v.e], ghost, ghost \/ v.e.has \/ t.e.has), c)
      Checked(t, definitely, v) ==
        Answer(t, v, IF definitely THEN InGhostCode(c) ELSE c, definitely \/ (t.v /\ v.e.flag = "ghost"))
      Of(t) == Checked(t, t.v /\ ~IsCall(s.value),
                       IsGhost(s.value, IF t.v /\ ~IsCall(s.value) THEN InGhostCode(c) ELSE c))
  IN  Of(IsGhost(s.targets[1], c))

VisitReturn(s, c, main) ==
  LET AsGhost(j) == Accepted(j.ok, Mark(s, TRUE, TRUE), c)
      OfPair(as) == Accepted(\A i \in 1..2 : as[i].ok /\ as[i].yes,
                             Mark([s EXCEPT !.value = Mark([@ EXCEPT !.args = Trees(as)], FALSE, TRUE)], FALSE, TRUE), c)
      OfCall(j) == Accepted(j.ok /\ ~j.ghost /\ j.info = "mixed", Mark([s EXCEPT !.value = j.e], FALSE, TRUE), c)
      OfOne(a) == Accepted(a.ok /\ a.yes, Mark([s EXCEPT !.value = a.e], FALSE, main.ret = "ghost" \/ a.e.has), c)
  IN  CASE main.ghost -> AsGhost(CheckForCall([s EXCEPT !.args = <<s.value>>], c))
        [] c.ghost /\ ~main.ghost -> Rejected(s, c)
        [] ~c.ghost /\ ~main.ghost /\ main.ret # "mixed" -> OfOne(IsAssignable(s.value, main.ret = "ghost", c, TRUE))
        [] OTHER -> IF s.value.k = "pair" THEN OfPair([i \in 1..2 |-> IsAssignable(s.value.args[i], i = 2, c, TRUE)])
                    ELSE IF IsCall(s.value) THEN OfCall(CheckCall(s.value, c))
                    ELSE Rejected(s, c)

VisitExpr(s, c) ==
  LET Answer(j) == Accepted(j.ok /\ (j.v => CheckForCall(j.e, InGhostCode(c)).ok),
                            Mark([s EXCEPT !.value = j.e], j.v, j.e.has), c)
  IN  Answer(IsGhost(s.value, c))

RECURSIVE VisitBlock(_, _, _), Visit(_, _, _)
VisitBlock(ss, c, main) ==
  IF ss = <<>> THEN [ok |-> TRUE, ss |-> <<>>, vars |-> c.vars]
  ELSE LET Answer(a, r) == [ok |-> a.ok /\ r.ok, ss |-> <<a.s>> \o r.ss, vars |-> r.vars]
           First(a) == Answer(a, VisitBlock(Tail(ss), [c EXCEPT !.vars = a.vars], main))
       IN  First(Visit(ss[1], c, main))

\* Two blocks, one after the other, as a pair of answers.
VisitBlocks(first, second, c, main) ==
  LET Then(a) == <<a, VisitBlock(second, [c EXCEPT !.vars = a.vars], main)>>
  IN  Then(VisitBlock(first, c, main))

\* A mutant: the body of ghost control flow is checked like regular code.
CheckControlFlowAsRegular(s, j, c, main) ==
  LET Answer(bs) ==
        [ok |-> j.ok /\ AllOk(bs), vars |-> bs[2].vars,
         s |-> Mark([s EXCEPT !.value = j.e, !.body = bs[1].ss, !.orelse = bs[2].ss], j.v, TRUE)]
  IN  Answer(VisitBlocks(s.body, s.orelse, c, main))

\* If, While and For: a ghost test makes the whole statement ghost code.
CheckControlFlow(s, j, c, main) ==
  LET Answer(inner, bs) ==
        [ok |-> j.ok /\ (j.v => CheckForCall(j.e, inner).ok) /\ AllOk(bs), vars |-> bs[2].vars,
         s |-> Mark([s EXCEPT !.value = j.e, !.body = bs[1].ss, !.orelse = bs[2].ss], j.v,
                    j.v \/ j.e.has \/ AnyHas(bs[1].ss) \/ AnyHas(bs[2].ss))]
      In(inner) == Answer(inner, VisitBlocks(s.body, s.orelse, inner, main))
  IN  In(IF j.v THEN InGhostCode(c) ELSE c)

\* The variable of a for must not be known as the opposite of what is iterated over.
CheckFor(s, j, c, main) ==
  LET x == s.targets[1]
      ghosts == IF s.k = "for" /\ j.v THEN c.vars \cup {x.id} ELSE c.vars
  IN  IF s.k = "for" /\ IF j.v THEN x.k # "var" ELSE x.k = "var" /\ x.id \in c.vars THEN Rejected(s, c)
      ELSE CheckControlFlow(s, j, [c EXCEPT !.vars = ghosts], main)

VisitTry(s, c, main) ==
  LET Answer(bs) ==
        [ok |-> ~c.ghost /\ AllOk(bs), vars |-> bs[2].vars,
         s |-> Mark([s EXCEPT !.orelse = bs[1].ss, !.body = bs[2].ss], FALSE, AnyHas(bs[1].ss) \/ AnyHas(bs[2].ss))]
  IN  Answer(VisitBlocks(s.orelse, s.body, c, main))

\* Assert and raise: executed at run time, so regular through and through.
VisitRegularOnly(s, c) ==
  LET Answer(j) == Accepted(j.ok /\ ~c.ghost /\ ~j.v, Mark([s EXCEPT !.value = j.e], FALSE, j.e.has), c)
  IN  Answer(IsGhost(s.value, c))

Visit(s, c, main) ==
  CASE s.k = "assign" -> VisitAssign(s, c)
    [] s.k = "aug"    -> VisitAugAssign(s, c)
    [] s.k = "return" -> VisitReturn(s, c, main)
    [] s.k = "expr"   -> VisitExpr(s, c)
    [] s.k \in {"if", "while", "for"} -> CheckFor(s, IsGhost(s.value, c), c, main)
    [] s.k = "try"    -> VisitTry(s, c, main)
    [] s.k \in {"assert", "raise"} -> VisitRegularOnly(s, c)
    [] s.k \in {"break", "continue"} -> Accepted(~c.ghost, Mark(s, FALSE, FALSE), c)
    [] OTHER -> Accepted(TRUE, Mark(s, c.ghost, c.ghost), c)      \* pass

\* The parameters of a regular function: each default must fit its parameter.
\* A parameter is [name, ghost, keyword: is it keyword-only, default].
NoDefault == [Known(FALSE) EXCEPT !.k = "none"]
CheckDefaults(ps, c) ==
  LET Answer(as) ==
        [ok |-> \A i \in DOMAIN ps : ps[i].default = NoDefault \/ (as[i].ok /\ as[i].yes),
         ps |-> [i \in DOMAIN ps |-> IF ps[i].default = NoDefault THEN ps[i] ELSE [ps[i] EXCEPT !.default = as[i].e]]]
  IN  Answer([i \in DOMAIN ps |-> IsAssignable(ps[i].default, ps[i].ghost, c, TRUE)])

(***************************************************************************)
(* Extraction.  `Gone' is the None that extract returns for ghost nodes.   *)
(***************************************************************************)
Gone == Known(TRUE)
Remaining(nodes) == SelectSeq(nodes, LAMBDA n : n # Gone)

RECURSIVE Extract(_)
Extract(e) ==
  IF e.flag = "ghost" THEN Gone
  ELSE IF ~e.has THEN e
  ELSE IF e.k = "reveal" THEN Extract(e.args[1])
  ELSE [e EXCEPT !.args = Remaining([i \in DOMAIN e.args |-> Extract(e.args[i])])]

\* What is left of a pair of targets, or of a pair that is returned.
ExtractPair(e) ==
  LET rest == Remaining([i \in DOMAIN e.args |-> Extract(e.args[i])])
  IN  IF rest = <<>> THEN Gone ELSE IF Len(rest) = 1 THEN rest[1] ELSE [e EXCEPT !.args = rest]

ExtractAssign(s) ==
  LET ts == Remaining([i \in DOMAIN s.targets |->
                         IF s.targets[i].k = "pair" THEN ExtractPair(s.targets[i]) ELSE Extract(s.targets[i])])
  IN  [s EXCEPT !.k = IF ts = <<>> THEN "expr" ELSE "assign", !.targets = ts, !.value = Extract(s.value)]

ExtractReturn(s) ==
  [s EXCEPT !.value = IF s.value.k = "pair" THEN ExtractPair(s.value) ELSE Extract(s.value)]

RECURSIVE ExtractBody(_)
ExtractStatement(s) ==
  CASE s.k = "assign" -> ExtractAssign(s)
    [] s.k = "return" -> ExtractReturn(s)
    [] s.k = "try"    -> [s EXCEPT !.body = ExtractBody(@), !.orelse = ExtractBody(@)]
    [] OTHER          -> [s EXCEPT !.value = Extract(@), !.body = ExtractBody(@), !.orelse = ExtractBody(@)]

ExtractBody(ss) ==
  IF ss = <<>> THEN <<>>
  ELSE LET s == ss[1]
       IN  (IF s.flag = "ghost" THEN <<>> ELSE IF ~s.has THEN <<s>> ELSE <<ExtractStatement(s)>>)
           \o ExtractBody(Tail(ss))

\* The parameters that are left, as the pairs <<name, default>> that Python makes
\* of the two lists: positional defaults belong to the last parameters, while
\* those of keywords are listed one by one, None where there is none.
Named(ps) == [i \in DOMAIN ps |-> ps[i].name]
ExtractDefaults(ps, keyword) ==
  LET own  == SelectSeq(ps, LAMBDA p : p.keyword = keyword)
      left == Named(SelectSeq(own, LAMBDA p : ~p.ghost))
      all  == [i \in DOMAIN own |-> own[i].default]
      kept == SelectSeq(all, LAMBDA d : d.flag # "ghost" /\ (keyword \/ d # NoDefault))
      skip == IF keyword THEN 0 ELSE Len(left) - Len(kept)
  IN  {<<left[i], IF i > skip THEN kept[i - skip] ELSE NoDefault>> : i \in DOMAIN left}

\* The assertion of the extractor: a statement that stays has a value that stays.
RECURSIVE KeepsItsValues(_)
KeepsItsValues(ss) ==
  \A i \in DOMAIN ss : /\ ss[i].k \in {"assign", "aug", "expr", "if", "while", "for"} => ss[i].value # Gone
                       /\ KeepsItsValues(ss[i].body) /\ KeepsItsValues(ss[i].orelse)

(***************************************************************************)
(* A run.  A value is a sequence of numbers (two for a pair).  A state     *)
(* has the bound variables, the fields, the calls with effects made so     *)
(* far, and ok: no name was read that does not exist.                      *)
(***************************************************************************)
Num(v) == IF v = <<>> THEN 2 ELSE v[1]
RECURSIVE Total(_)
Total(vs) == IF vs = <<>> THEN 0 ELSE Num(vs[1]) + Total(Tail(vs))
Chosen(vs, keep) == LET S == SelectSeq([i \in DOMAIN vs |-> i], LAMBDA i : keep[i])
                    IN  [j \in DOMAIN S |-> vs[S[j]]]
Regular(f) == [i \in DOMAIN Functions[f].params |-> ~Functions[f].params[i]]

\* The call of f with the values vs; whole is FALSE in the extracted program.
Apply(f, vs, st, whole) ==
  LET g == Functions[f]
      wanted == IF whole THEN Len(g.params) ELSE Len(Chosen(Regular(f), Regular(f)))
      mine == IF whole THEN Chosen(vs, Regular(f)) ELSE vs
      value == <<(Total(mine) + IF g.pure THEN 0 ELSE Len(st.trace)) % 2>>
  IN  IF Len(vs) # wanted \/ (~whole /\ g.ghost) THEN [val |-> <<>>, st |-> [st EXCEPT !.ok = FALSE]]
      ELSE IF g.ghost THEN [val |-> <<1>>, st |-> st]
      ELSE [val |-> CASE g.ret = "regular" -> value
                      [] g.ret = "ghost"   -> IF whole THEN <<1>> ELSE <<>>
                      [] OTHER             -> IF whole THEN value \o <<1>> ELSE value,
            st |-> IF g.pure THEN st ELSE [st EXCEPT !.trace = Append(@, <<f, mine>>)]]

RECURSIVE Eval(_, _, _), EvalAll(_, _, _)
EvalAll(es, st, whole) ==
  IF es = <<>> THEN [vals |-> <<>>, st |-> st]
  ELSE LET a == Eval(es[1], st, whole)
           r == EvalAll(Tail(es), a.st, whole)
       IN  [vals |-> <<a.val>> \o r.vals, st |-> r.st]

Eval(e, st, whole) ==
  LET name == IF e.k = "var" THEN e.id ELSE e.on
      r == EvalAll(e.args, [st EXCEPT !.ok = @ /\ (name = "" \/ name \in DOMAIN st.env)], whole)
  IN  CASE e.k = "var"   -> [val |-> IF r.st.ok THEN st.env[name] ELSE <<>>, st |-> r.st]
        [] e.k = "field" -> [val |-> st.heap[e.id], st |-> r.st]
        [] e.k = "call"  -> Apply(e.id, r.vals, r.st, whole)
        [] e.k = "pair"  -> [val |-> FlattenSeq(r.vals), st |-> r.st]
        [] e.k \in {"op", "builtin"} -> [val |-> <<Total(r.vals) % 2>>, st |-> r.st]
        [] e.k = "reveal" -> [val |-> r.vals[1], st |-> r.st]
        [] OTHER         -> [val |-> <<1>>, st |-> st]

Bind(x, v, st) == [st EXCEPT !.env = [y \in DOMAIN @ \cup {x} |-> IF y = x THEN v ELSE @[y]]]
RECURSIVE Store(_, _, _)
Store(ts, v, st) ==
  IF ts = <<>> THEN st
  ELSE LET t == ts[1]
           one == CASE t.k = "var"  -> Bind(t.id, v, st)
                    [] t.k = "pair" -> Store(<<t.args[2]>>, <<v[2]>>, Store(<<t.args[1]>>, <<v[1]>>, st))
                    [] t.k = "field" -> [st EXCEPT !.heap[t.id] = v, !.ok = @ /\ t.on \in DOMAIN st.env]
                    [] OTHER -> [st EXCEPT !.trace = Append(@, <<"elem", <<v>> >>), !.ok = @ /\ t.on \in DOMAIN st.env]
       IN  Store(Tail(ts), v, one)

RECURSIVE Exec(_, _, _), Loop(_, _, _, _)
After(st, how) == [st EXCEPT !.out = how]
\* A loop makes at most two rounds, in both programs.
Loop(s, st, whole, n) ==
  LET Ended(b) == IF b.out \in {"return", "raise"} THEN b
                  ELSE IF b.out = "break" THEN After(b, "normal")
                  ELSE IF n = 0 THEN Loop(s, After(b, "normal"), whole, 1)
                  ELSE IF s.k = "for" THEN Exec(s.orelse, After(b, "normal"), whole)
                  ELSE After(b, "normal")
      Tested(t) == IF Num(t.val) # 1 THEN Exec(s.orelse, t.st, whole) ELSE Ended(Exec(s.body, t.st, whole))
  IN  Tested(IF s.k = "while" THEN Eval(s.value, st, whole)
                              ELSE [val |-> <<1>>, st |-> Store(s.targets, <<n % 2>>, st)])

ExecOne(s, st, whole) ==
  LET Updated(old, new) == Store(s.targets, <<(Num(old.val) + Num(new.val)) % 2>>, new.st)
      Of(old) == Updated(old, Eval(s.value, old.st, whole))
      Caught(b) == IF b.out = "raise" THEN Exec(s.orelse, After(b, "normal"), whole) ELSE b
      With(r) ==
        CASE s.k = "assign" -> Store(s.targets, r.val, r.st)
          [] s.k \in {"expr", "assert"} -> r.st
          [] s.k = "return" -> [r.st EXCEPT !.out = "return", !.res = r.val]
          [] s.k = "raise"  -> After(r.st, "raise")
          [] s.k = "if"     -> Exec(IF Num(r.val) = 1 THEN s.body ELSE s.orelse, r.st, whole)
          [] OTHER          -> Loop(s, IF s.k = "for" THEN r.st ELSE st, whole, 0)
  IN  CASE s.k = "aug" -> Of(Eval(s.targets[1], st, whole))
        [] s.k \in {"break", "continue"} -> After(st, s.k)
        [] s.k = "try" -> Caught(Exec(s.body, st, whole))
        [] s.k = "pass" -> st
        [] OTHER -> With(Eval(s.value, st, whole))

Exec(ss, st, whole) ==
  IF ss = <<>> \/ ~st.ok \/ st.out # "normal" THEN st
  ELSE Exec(Tail(ss), ExecOne(ss[1], st, whole), whole)

\* The run of a body in which the names bound at the start are `names'.
Run(body, names, whole) ==
  Exec(body, [env |-> [x \in names |-> <<1>>], heap |-> [f \in Fields |-> <<0>>], trace |-> <<>>,
              ok |-> TRUE, out |-> "normal", res |-> <<>>], whole)

(***************************************************************************)
(* The specification: check, extract.                                      *)
(***************************************************************************)
Init ==
  \E i \in DOMAIN Programs : \E p \in Programs[i] :
    /\ task = [of |-> "ghost", program |-> p]
    /\ state = [at |-> "written", program |-> p, erased |-> <<>>]

\* GhostChecker.check on one function.
CheckProgram ==
  /\ task.of = "ghost" /\ state.at = "written"
  /\ LET p == state.program
         Checked(r, d) == [at |-> IF r.ok /\ (p.ghost \/ d.ok) THEN "checked" ELSE "rejected",
                           program |-> [p EXCEPT !.body = r.ss, !.ghosts = r.vars, !.params = d.ps],
                           erased |-> <<>>]
     IN  state' = Checked(VisitBlock(p.body, [ghost |-> p.ghost, vars |-> p.ghosts], p),
                          CheckDefaults(p.params, [ghost |-> FALSE, vars |-> p.ghosts]))
  /\ UNCHANGED task

\* ProgramExtractor.process.  The definition of a ghost function goes as a whole.
ExtractProgram ==
  /\ task.of = "ghost" /\ state.at = "checked"
  /\ LET rest == IF state.program.ghost THEN <<>> ELSE ExtractBody(state.program.body)
     IN  state' = [state EXCEPT !.erased = rest, !.at = IF KeepsItsValues(rest) THEN "extracted" ELSE "crashed"]
  /\ UNCHANGED task

Next == CheckProgram \/ ExtractProgram

Spec == Init /\ [][Next]_vars

(***************************************************************************)
(* Properties                                                              *)
(***************************************************************************)
IsExtracted == task.of = "ghost" /\ state.at = "extracted"
RegularVariables == Variables \ state.program.ghosts
Original  == Run(state.program.body, Variables, TRUE)
Extracted == Run(state.erased, RegularVariables, FALSE)

\* Extraction never fails the assertion "Value was ghost when statement is
\* regular" (extraction.py extract_Assign), and the extracted program is a program
\* of its own: it reads no name and passes no argument that was removed elsewhere,
\* and a parameter that stays keeps its own default, although parameters and
\* defaults are removed from two lists, by two marks.
ExtractionIsComplete ==
  /\ task.of = "ghost" => state.at # "crashed"
  /\ IsExtracted => Extracted.ok
  /\ IsExtracted /\ ~state.program.ghost =>
       \A keyword \in BOOLEAN :
         ExtractDefaults(state.program.params, keyword) =
           {<<p.name, p.default>> : p \in {q \in ToSet(state.program.params) : q.keyword = keyword /\ ~q.ghost}}

SameRegularRun(extracted, original) ==
  extracted.ok =>
    /\ extracted.trace = original.trace
    /\ \A f \in Fields \ GhostFields : extracted.heap[f] = original.heap[f]
    /\ state.program.ghost \/ \A x \in RegularVariables : extracted.env[x] = original.env[x]
    /\ state.program.ghost \/ extracted.out = original.out
    /\ extracted.out = "return" =>
         CASE state.program.ret = "regular" -> extracted.res = original.res
           [] state.program.ret = "mixed"   -> extracted.res = <<original.res[1]>>
           [] OTHER                   -> TRUE
\* Erasing ghost code changes nothing that exists at run time: the same calls
\* with effects in the same order, the same regular fields and variables, and
\* the same way out of the function with the same regular result.
ErasureKeepsTheRegularRun == IsExtracted => SameRegularRun(Extracted, Original)
==============================================================================
