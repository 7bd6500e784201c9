---------------------------- MODULE IOOperations ----------------------------
(***************************************************************************)
(* Verification of input and output.  An IO operation leads from places to *)
(* places and has results; a basic one is something the program does, the  *)
(* body of another one is a net of operations.  A method starts with a     *)
(* token and the permission for one operation, and can perform operations  *)
(* it has permission for, or open one, which replaces it by its body.  The *)
(* results of an operation are getter functions of its places and inputs.  *)
(*                                                                         *)
(* A program gives ops, by name, the name of its main operation, and the   *)
(* body of the method that performs it.                                    *)
(*   operations: args (name, typ), the last `defaults' of which are        *)
(*               results, existentials (names), body or None, terminates   *)
(*               and measure (expressions or None)                         *)
(*   bodies: and, ifexp, implies, io (an operation and its arguments)      *)
(*   expressions: name, num, dec, inc, pos (is positive), not              *)
(*   statements: open, do (perform, and assign the results to targets),    *)
(*               ghost (assign the result at index without performing), if *)
(* The method returns the value of the variable returns, or None.          *)
(***************************************************************************)
EXTENDS Naturals, Integers, Sequences, FiniteSets, Bags, SequencesExt

CONSTANTS IOPrograms,    \* sequence of sets of programs
          Library,       \* the operations of the contract library
          None

VARIABLES task, state

vars == <<task, state>>

Values == {0, 1}         \* results of an operation that are no places
Inputs == (-1)..2        \* inputs for which termination is checked
Unknown == 77            \* the value of a name that has none yet
FirstPlace == 100        \* places are counted from here
Fuel == 6                \* an operation that is opened more often never ends

-----------------------------------------------------------------------------
(* Analysis of an operation *)

InputArgs(o) == SubSeq(o.args, 1, Len(o.args) - o.defaults)
OutputArgs(o) == SubSeq(o.args, Len(o.args) - o.defaults + 1, Len(o.args))
IsPlace(arg) == arg.typ = "Place"

ValidPreset(o) ==
  LET args == InputArgs(o)
  IN  o.name = "join_io" \/ (args # <<>> /\ {i \in DOMAIN args : IsPlace(args[i])} = {1})
ValidPostset(o) ==
  LET args == OutputArgs(o)
  IN  o.name = "split_io" \/ {i \in DOMAIN args : IsPlace(args[i])} \subseteq {Len(args)}

NamesOf(args) == [i \in DOMAIN args |-> args[i].name]
ParseArguments(o) ==
  LET Which(args, places) == NamesOf(SelectSeq(args, LAMBDA a : IsPlace(a) = places))
  IN  [preset |-> Which(InputArgs(o), TRUE), inputs |-> Which(InputArgs(o), FALSE),
       outputs |-> Which(OutputArgs(o), FALSE), postset |-> Which(OutputArgs(o), TRUE)]
Parameters(o) == o.preset \o o.inputs
Results(o) == o.outputs \o o.postset

RECURSIVE NamesIn(_)
NamesIn(e) == CASE e.op = "name" -> {e.n} [] e.op = "num" -> {} [] OTHER -> NamesIn(e.e)

\* Terminates and TerminationMeasure, False and 1 if they are not given.
WithProperties(o) ==
  [o EXCEPT !.terminates = IF @ = None THEN [op |-> "num", v |-> 0] ELSE @,
            !.measure = IF @ = None THEN [op |-> "num", v |-> 1] ELSE @]
ValidProperties(o) == NamesIn(o.terminates) \cup NamesIn(o.measure) \subseteq Range(o.inputs)

\* The operations of a body, each with the conditions under which it is enabled.
RECURSIVE Calls(_, _)
Calls(body, guards) ==
  CASE body.op = "and"     -> Calls(body.l, guards) \o Calls(body.r, guards)
    [] body.op = "implies" -> Calls(body.r, Append(guards, body.test))
    [] body.op = "ifexp"   -> Calls(body.l, Append(guards, body.test))
                                \o Calls(body.r, Append(guards, [op |-> "not", e |-> body.test]))
    [] body.op = "io"      -> <<[op |-> body.name, args |-> body.args, guards |-> guards]>>
CallsOf(o) == Calls(o.body, <<>>)
IsBasic(o) == o.body = None

ArgsOf(o, c) == SubSeq(c.args, 1, Len(Parameters(o)))
ResultsOf(o, c) == SubSeq(c.args, Len(Parameters(o)) + 1, Len(c.args))
NamesInAll(es) == UNION {NamesIn(es[i]) : i \in DOMAIN es}

\* Results of an operation in the body define existential variables; the arguments
\* are looked at after that.
CheckCall(ops, o, st, c) ==
  LET called == ops[c.op]
      results == ResultsOf(called, c)
      names == {results[i].n : i \in DOMAIN results}
      new == SelectSeq(results, LAMBDA r : r.n \in st.undefined)
      undefined == st.undefined \ names
  IN  [ok |-> /\ st.ok /\ Len(results) = Len(Results(called))
              /\ names \subseteq Range(o.existentials) \cup Range(Results(o))
              /\ NamesInAll(c.guards) \cap st.undefined = {}
              /\ NamesInAll(c.args) \cap undefined = {},
       undefined |-> undefined,
       order |-> st.order \o [i \in DOMAIN new |->
                   [name |-> new[i].n, call |-> c, at |-> CHOOSE j \in DOMAIN results : results[j] = new[i]]]]
CheckBody(ops, o) ==
  FoldLeft(LAMBDA st, c : CheckCall(ops, o, st, c),
           [ok |-> TRUE, undefined |-> Range(o.existentials), order |-> <<>>], CallsOf(o))

\* The translation fails: an existential variable without a definition or one that
\* needs itself or a later one, a result of the operation as an argument in its body.
HasDefiningGetters(ops, o) ==
  LET st == CheckBody(ops, o)
      Needs(c) == NamesInAll(ArgsOf(ops[c.op], c))
  IN  /\ st.undefined = {}
      /\ \A i \in DOMAIN st.order :
           Needs(st.order[i].call) \cap {st.order[j].name : j \in i..Len(st.order)} = {}
      /\ \A i \in DOMAIN CallsOf(o) :
           (Needs(CallsOf(o)[i]) \cup NamesInAll(CallsOf(o)[i].guards)) \cap Range(Results(o)) = {}

-----------------------------------------------------------------------------
(* States of Viper: next (a place not yet used), tokens, chunks (permissions *)
(* for operations), post (results of operations), vars and def (variables of *)
(* the method and of the body that is opened)                                *)

RECURSIVE Value(_, _)
Value(e, def) ==
  IF e.op = "num" THEN e.v
  ELSE IF e.op = "name" THEN (IF e.n \in DOMAIN def THEN def[e.n] ELSE Unknown)
  ELSE LET v == Value(e.e, def)
       IN  CASE v = Unknown  -> Unknown
             [] v # Unknown /\ e.op = "dec" -> v - 1
             [] v # Unknown /\ e.op = "inc" -> v + 1
             [] v # Unknown /\ e.op = "pos" -> IF v > 0 THEN 1 ELSE 0
             [] v # Unknown /\ e.op = "not" -> 1 - v
ValuesIn(es, def) == [i \in DOMAIN es |-> Value(es[i], def)]
AllHold(guards, def) == \A i \in DOMAIN guards : Value(guards[i], def) = 1

\* Mutant: a getter is a function of the places only.
PlacesOnly(op, args) == [op |-> op, args |-> SelectSeq(args, LAMBDA v : v >= FirstPlace)]
GetterKey(op, args) == [op |-> op, args |-> args]

\* A getter is a function: its value is chosen when it is first applied, a place
\* that is equal to no other.
ApplyGetter(ops, s, key) ==
  LET o == ops[key.op]
      places == [i \in DOMAIN o.postset |-> s.next + i - 1]
  IN  IF key \in DOMAIN s.post THEN {s}
      ELSE {[s EXCEPT !.post = @ @@ (key :> (outputs \o places)), !.next = @ + Len(places)] :
               outputs \in [DOMAIN o.outputs -> Values]}

\* Two places are found to be equal.
Merged(s, p, q) ==
  LET R(v) == IF v = q THEN p ELSE v
      RSeq(es) == [i \in DOMAIN es |-> R(es[i])]
      RKey(key) == [key EXCEPT !.args = RSeq(@)]
      RBag(bag, F(_)) == [k \in {F(b) : b \in DOMAIN bag} |->
                            FoldSet(LAMBDA b, n : n + bag[b], 0, {b \in DOMAIN bag : F(b) = k})]
      keys == {RKey(k) : k \in DOMAIN s.post}
  IN  [s EXCEPT !.tokens = RBag(@, R), !.chunks = RBag(@, RKey),
                !.post = [k \in keys |-> RSeq(@[CHOOSE old \in DOMAIN @ : RKey(old) = k])],
                !.vars = [x \in DOMAIN @ |-> R(@[x])], !.def = [x \in DOMAIN @ |-> R(@[x])]]
Equated(s, a, b) ==
  CASE a = b -> {s}
    [] a # b /\ a >= FirstPlace -> {Merged(s, a, b)}
    [] OTHER -> {}

\* The first mention of a variable in a result position defines it; where it was
\* defined before, an equation is emitted.
TranslateResults(ops, s, c, key, holds) ==
  LET results == ResultsOf(ops[c.op], c)
      args == ArgsOf(ops[c.op], c)
      Result(t, i) ==
        LET now == GetterKey(c.op, ValuesIn(args, t.def))
            getter == t.post[IF now \in DOMAIN t.post THEN now ELSE key][i]
        IN  CASE results[i].n \notin DOMAIN t.def -> {[t EXCEPT !.def = (results[i].n :> getter) @@ @]}
              [] results[i].n \in DOMAIN t.def /\ holds -> Equated(t, t.def[results[i].n], getter)
              [] OTHER -> {t}
  IN  FoldLeft(LAMBDA S, i : UNION {Result(t, i) : t \in S}, {s}, [i \in DOMAIN results |-> i])

TranslateCall(ops, s, c) ==
  LET holds == AllHold(c.guards, s.def)
      key(t) == GetterKey(c.op, ValuesIn(ArgsOf(ops[c.op], c), t.def))
      Inhaled(t) == IF holds THEN [t EXCEPT !.chunks = @ (+) SetToBag({key(t)})] ELSE t
  IN  {Inhaled(t) : t \in UNION {TranslateResults(ops, u, c, key(s), holds) : u \in ApplyGetter(ops, s, key(s))}}

InhaleBody(ops, s, o) ==
  FoldLeft(LAMBDA S, c : UNION {TranslateCall(ops, t, c) : t \in S}, {s}, CallsOf(o))

-----------------------------------------------------------------------------
(* Termination of an operation *)

NewState == [next |-> FirstPlace, tokens |-> EmptyBag, chunks |-> EmptyBag, post |-> <<>>,
             vars |-> <<>>, def |-> <<>>, failed |-> FALSE]

\* Existential variables in the order of their definitions.
DefineExistentials(ops, o, def) ==
  LET Define(s, d) ==
        LET key == GetterKey(d.call.op, ValuesIn(ArgsOf(ops[d.call.op], d.call), s.def))
        IN  {[t EXCEPT !.def = (d.name :> t.post[key][d.at]) @@ @] :
                t \in ApplyGetter(ops, s, key)}
  IN  FoldLeft(LAMBDA S, d : UNION {Define(s, d) : s \in S}, {[NewState EXCEPT !.def = def, !.next = @ + 2]},
               CheckBody(ops, o).order)

ArgumentsOf(o, values) == [n \in Range(Parameters(o)) |-> values[CHOOSE i \in DOMAIN values : Parameters(o)[i] = n]]
Terminates(o, def) == Value(o.terminates, def) = 1
Measure(o, def) == Value(o.measure, def)

\* Mutant: the measure of a part may be that of the whole.
NotLarger(ops, o, def, c) ==
  LET part == ops[c.op]
      given == ArgumentsOf(part, ValuesIn(ArgsOf(part, c), def))
  IN  /\ part.name # "gap_io" /\ Terminates(part, given)
      /\ Measure(o, def) >= Measure(part, given)

CheckPart(ops, o, def, c) ==
  LET part == ops[c.op]
      given == ArgumentsOf(part, ValuesIn(ArgsOf(part, c), def))
  IN  /\ part.name # "gap_io" /\ Terminates(part, given)
      /\ Measure(o, def) > Measure(part, given)

CheckTermination(ops, o, values) ==
  LET def == ArgumentsOf(o, [i \in DOMAIN o.preset |-> FirstPlace + i - 1] \o values)
  IN  Terminates(o, def) =>
        /\ Measure(o, def) > 0
        /\ ~ IsBasic(o) => \A s \in DefineExistentials(ops, o, def) : \A i \in DOMAIN CallsOf(o) :
             AllHold(CallsOf(o)[i].guards, s.def) => CheckPart(ops, o, s.def, CallsOf(o)[i])
TerminationVerifies(ops, o) == \A values \in [DOMAIN o.inputs -> Inputs] : CheckTermination(ops, o, values)

-----------------------------------------------------------------------------
(* Verification of the method *)

Failed(s) == [s EXCEPT !.failed = TRUE]

ExhaleChunk(s, key) ==
  IF BagIn(key, s.chunks) THEN [s EXCEPT !.chunks = @ (-) SetToBag({key})] ELSE Failed(s)
ExhaleToken(s, place) ==
  IF BagIn(place, s.tokens) THEN [s EXCEPT !.tokens = @ (-) SetToBag({place})] ELSE Failed(s)
InhaleToken(s, place) == [s EXCEPT !.tokens = @ (+) SetToBag({place})]

KeyOf(s, stmt) == GetterKey(stmt.op, ValuesIn(stmt.args, s.vars))

Open(ops, s, stmt) ==
  LET o == ops[stmt.op]
      key == KeyOf(s, stmt)
      Known(t) == ArgumentsOf(o, ValuesIn(stmt.args, s.vars)) @@
                    [n \in Range(Results(o)) |-> t.post[key][CHOOSE i \in DOMAIN Results(o) : Results(o)[i] = n]]
  IN  {[t EXCEPT !.def = <<>>] :
         t \in UNION {InhaleBody(ops, [u EXCEPT !.def = Known(u)], o) :
                        u \in ApplyGetter(ops, ExhaleChunk(s, key), key)}}

\* The method that performs an operation has a token for each place of its preset and
\* the operation as preconditions, and tokens for its postset as postconditions.
Perform(ops, s, stmt) ==
  LET o == ops[stmt.op]
      key == KeyOf(s, stmt)
      taken == FoldLeft(ExhaleToken, ExhaleChunk(s, key), SubSeq(key.args, 1, Len(o.preset)))
      Given(t) == FoldLeft(InhaleToken, t, SubSeq(t.post[key], Len(o.outputs) + 1, Len(Results(o))))
      Assigned(t) == [t EXCEPT !.vars =
        [x \in Range(stmt.targets) |-> t.post[key][CHOOSE i \in DOMAIN stmt.targets : stmt.targets[i] = x]] @@ @]
  IN  {Assigned(Given(t)) : t \in ApplyGetter(ops, taken, key)}

GetGhostOutput(ops, s, stmt) ==
  {[t EXCEPT !.vars = (stmt.target :> t.post[KeyOf(s, stmt)][stmt.index]) @@ @] :
     t \in ApplyGetter(ops, s, KeyOf(s, stmt))}

RECURSIVE Execute(_, _, _)
Execute(ops, s, body) ==
  LET Step(t, stmt) ==
        CASE t.failed -> {t}
          [] ~ t.failed /\ stmt.s = "open"  -> Open(ops, t, stmt)
          [] ~ t.failed /\ stmt.s = "do"    -> Perform(ops, t, stmt)
          [] ~ t.failed /\ stmt.s = "ghost" -> GetGhostOutput(ops, t, stmt)
          [] ~ t.failed /\ stmt.s = "if"    ->
               IF Value(stmt.e, t.vars) = 1 THEN Execute(ops, t, stmt.body) ELSE {t}
  IN  FoldLeft(LAMBDA S, stmt : UNION {Step(t, stmt) : t \in S}, {s}, body)

\* What may be opened is what has a body, and it is given without results.
RECURSIVE ValidUses(_, _)
ValidUses(ops, body) ==
  \A i \in DOMAIN body :
    /\ body[i].s = "open" => ~ IsBasic(ops[body[i].op])
    /\ body[i].s \in {"open", "do", "ghost"} => Len(body[i].args) = Len(Parameters(ops[body[i].op]))
    /\ body[i].s = "if" => ValidUses(ops, body[i].body)

\* Its parameters have the names of those of the operation.
MethodVerifies(p, ops) ==
  LET o == ops[p.main]
      Start(values) ==
        LET args == <<FirstPlace>> \o values
        IN  [NewState EXCEPT !.next = FirstPlace + 1, !.tokens = SetToBag({FirstPlace}),
                             !.chunks = SetToBag({GetterKey(p.main, args)}), !.vars = ArgumentsOf(o, args)]
      Promised(s, values) == s.post[GetterKey(p.main, <<FirstPlace>> \o values)]
      \* Its result is the last place, where it leaves its only token.
      Ends(s, values) ==
        LET place == Promised(s, values)[Len(Results(o))]
        IN  IF o.postset = <<>> THEN s.tokens = EmptyBag
            ELSE Value([op |-> "name", n |-> p.returns], s.vars) = place /\ s.tokens = SetToBag({place})
  IN  /\ ValidUses(ops, p.body)
      /\ \A values \in [DOMAIN o.inputs -> Values] :
           \A s \in UNION {ApplyGetter(ops, t, GetterKey(p.main, <<FirstPlace>> \o values)) :
                             t \in Execute(ops, Start(values), p.body)} :
             ~ s.failed /\ Ends(s, values)

-----------------------------------------------------------------------------
(* What happens: the method performs operations, whose results come from     *)
(* outside; the net of the main operation allows some sequences of them      *)

IsSilent(op) == op \in {"split_io", "join_io", "no_op_io", "end_io"}

RECURSIVE Runs(_, _, _)
Runs(ops, runs, body) ==
  LET Perform1(r, stmt) ==
        LET o == ops[stmt.op]
            given == SubSeq(ValuesIn(stmt.args, r.vars), Len(o.preset) + 1, Len(stmt.args))
            Event(outs) == [op |-> stmt.op, given |-> given, outs |-> outs]
        IN  IF IsSilent(stmt.op) THEN {r}
            ELSE {[vars |-> [x \in {stmt.targets[i] : i \in DOMAIN outs} |->
                              outs[CHOOSE i \in DOMAIN outs : stmt.targets[i] = x]] @@ r.vars,
                   trace |-> Append(r.trace, Event(outs))] : outs \in [DOMAIN o.outputs -> Values]}
      Step(r, stmt) ==
        CASE stmt.s = "do" -> Perform1(r, stmt)
          [] stmt.s = "if" -> IF Value(stmt.e, r.vars) = 1 THEN Runs(ops, {r}, stmt.body) ELSE {r}
          [] OTHER -> {r}
  IN  FoldLeft(LAMBDA S, stmt : UNION {Step(r, stmt) : r \in S}, runs, body)

\* A net: tokens (names), calls that are not performed yet, bind (values of names),
\* and the number of times something was opened, for names of its own.
RECURSIVE Renamed(_, _, _)
Renamed(e, k, formals) ==
  CASE e.op = "num"  -> e
    [] e.op = "name" -> IF e.n \in DOMAIN formals THEN formals[e.n]
                        ELSE [op |-> "name", n |-> [n |-> e.n, k |-> k]]
    [] OTHER -> [e EXCEPT !.e = Renamed(@, k, formals)]
RenamedAll(es, k, formals) == [i \in DOMAIN es |-> Renamed(es[i], k, formals)]
RenamedCall(c, k, formals) ==
  [op |-> c.op, args |-> RenamedAll(c.args, k, formals), guards |-> RenamedAll(c.guards, k, formals)]

PlacesOf(es, from, n) == {es[i].n : i \in from..(from + n - 1)}
Enabled(ops, net, i) ==
  /\ AllHold(net.calls[i].guards, net.bind)
  /\ PlacesOf(net.calls[i].args, 1, Len(ops[net.calls[i].op].preset)) \subseteq net.tokens

Opened(ops, net, i) ==
  LET o == ops[net.calls[i].op]
      formals == [n \in Range(NamesOf(o.args)) |->
                    net.calls[i].args[CHOOSE j \in DOMAIN net.calls[i].args :
                      (Parameters(o) \o Results(o))[j] = n]]
      inner == [j \in DOMAIN CallsOf(o) |-> RenamedCall(CallsOf(o)[j], net.opened + 1, formals)]
  IN  [net EXCEPT !.calls = RemoveAt(@, i) \o inner, !.opened = @ + 1]

OutputNames(o, c) == [j \in DOMAIN o.outputs |-> c.args[Len(Parameters(o)) + j].n]
Performed(ops, net, i, outs) ==
  LET c == net.calls[i]
      o == ops[c.op]
      names == OutputNames(o, c)
  IN  [net EXCEPT !.calls = RemoveAt(@, i),
                  !.tokens = (@ \ PlacesOf(c.args, 1, Len(o.preset)))
                               \cup PlacesOf(c.args, Len(Parameters(o)) + Len(o.outputs) + 1, Len(o.postset)),
                  !.bind = IF outs = <<>> THEN @
                           ELSE [n \in Range(names) |-> outs[CHOOSE j \in DOMAIN outs : names[j] = n]] @@ @]

\* The environment gives a result the net excludes: everything is allowed then.
Breaks(ops, net, i, outs) ==
  LET names == OutputNames(ops[net.calls[i].op], net.calls[i])
  IN  \E j \in DOMAIN outs : names[j] \in DOMAIN net.bind /\ net.bind[names[j]] # outs[j]

RECURSIVE Allows(_, _, _)
Allows(ops, net, trace) ==
  \/ trace = <<>> /\ net.tokens = net.end
  \/ \E i \in DOMAIN net.calls : Enabled(ops, net, i) /\
       LET c == net.calls[i]
           o == ops[c.op]
           event == Head(trace)
       IN  \/ ~ IsBasic(o) /\ net.opened < Fuel /\ Allows(ops, Opened(ops, net, i), trace)
           \/ IsSilent(c.op) /\ Allows(ops, Performed(ops, net, i, <<>>), trace)
           \/ /\ trace # <<>> /\ c.op = event.op
              /\ \A j \in DOMAIN event.given : Value(c.args[Len(o.preset) + j], net.bind) = event.given[j]
              /\ \/ Breaks(ops, net, i, event.outs)
                 \/ Allows(ops, Performed(ops, net, i, event.outs), Tail(trace))

MainNet(p, ops, values) ==
  LET o == ops[p.main]
      name(n) == [n |-> n, k |-> 0]
      args == [i \in DOMAIN o.args |-> [op |-> "name", n |-> name((Parameters(o) \o Results(o))[i])]]
  IN  [tokens |-> {name(o.preset[1])}, end |-> {name(n) : n \in Range(o.postset)}, opened |-> 0,
       calls |-> <<[op |-> p.main, args |-> args, guards |-> <<>>]>>,
       bind |-> [n \in {name(x) : x \in Range(o.inputs)} |-> values[CHOOSE i \in DOMAIN values : name(o.inputs[i]) = n]]]

AllRunsAllowed(p, ops) ==
  LET o == ops[p.main]
  IN  \A values \in [DOMAIN o.inputs -> Values] :
        \A run \in Runs(ops, {[vars |-> [n \in Range(o.inputs) |-> values[CHOOSE i \in DOMAIN values : o.inputs[i] = n]],
                               trace |-> <<>>]}, p.body) :
          Allows(ops, MainNet(p, ops, values), run.trace)

\* A basic operation that does not terminate, a gap, or always another one to open.
RECURSIVE NeverEnds(_, _, _, _)
NeverEnds(ops, o, values, fuel) ==
  LET given == [n \in Range(o.inputs) |-> values[CHOOSE i \in DOMAIN values : o.inputs[i] = n]]
      unknown == UNION {{r.n : r \in Range(ResultsOf(ops[CallsOf(o)[i].op], CallsOf(o)[i]))} : i \in DOMAIN CallsOf(o)}
      Given(c, def) == LET part == ops[c.op]
                       IN  SubSeq(ValuesIn(ArgsOf(part, c), def), Len(part.preset) + 1, Len(Parameters(part)))
  IN  IF IsBasic(o) THEN o.name = "gap_io" \/ ~ Terminates(o, given)
      ELSE fuel = 0 \/ \E found \in [unknown -> Values] : \E i \in DOMAIN CallsOf(o) :
             LET c == CallsOf(o)[i]
             IN  AllHold(c.guards, given @@ found) /\ NeverEnds(ops, ops[c.op], Given(c, given @@ found), fuel - 1)

-----------------------------------------------------------------------------

Init == \E i \in DOMAIN IOPrograms : \E p \in IOPrograms[i] :
          task = [of |-> "io", program |-> p] /\ state = [at |-> "analyze"]

AnalyzeIOOperations ==
  /\ task.of = "io" /\ state.at = "analyze"
  /\ LET given == task.program.ops @@ Library
         ops == [n \in DOMAIN given |-> WithProperties(given[n] @@ ParseArguments(given[n]))]
     IN  state' = IF \A n \in DOMAIN ops : ValidPreset(ops[n]) /\ ValidPostset(ops[n]) /\ ValidProperties(ops[n])
                  THEN [at |-> "process", ops |-> ops] ELSE [at |-> "rejected"]
  /\ UNCHANGED task

ProcessIOOperations ==
  /\ task.of = "io" /\ state.at = "process"
  /\ LET bodies == {o \in Range(state.ops) : ~ IsBasic(o)}
     IN  state' = IF \A o \in bodies : CheckBody(state.ops, o).ok /\ HasDefiningGetters(state.ops, o)
                  THEN [state EXCEPT !.at = "terminate"] ELSE [at |-> "rejected"]
  /\ UNCHANGED task

VerifyTermination ==
  /\ task.of = "io" /\ state.at = "terminate"
  /\ state' = IF \A o \in Range(state.ops) : TerminationVerifies(state.ops, o)
              THEN [at |-> "verify", ops |-> state.ops,
                    endless |-> \E o \in {o \in Range(state.ops) : ~ IsBasic(o)} :
                     \E values \in [DOMAIN o.inputs -> Inputs] :
                       /\ Terminates(o, ArgumentsOf(o, [i \in DOMAIN o.preset |-> FirstPlace] \o values))
                       /\ NeverEnds(state.ops, o, values, Fuel)]
              ELSE [at |-> "rejected"]
  /\ UNCHANGED task

VerifyMethod ==
  /\ task.of = "io" /\ state.at = "verify" /\ task.program.body # None
  /\ state' = IF MethodVerifies(task.program, state.ops)
              THEN [state EXCEPT !.at = "run"] ELSE [at |-> "rejected"]
  /\ UNCHANGED task

RunVerified ==
  /\ task.of = "io" /\ state.at = "run"
  /\ state' = [at |-> "done", allowed |-> AllRunsAllowed(task.program, state.ops)]
  /\ UNCHANGED task

Next == AnalyzeIOOperations \/ ProcessIOOperations \/ VerifyTermination \/ VerifyMethod \/ RunVerified

Spec == Init /\ [][Next]_vars

-----------------------------------------------------------------------------
(* Properties *)

\* A verified method does only what the net of its operation allows, in an order the
\* net allows, and all of it, whatever results come from outside: opening replaces an
\* operation by its body with the same results, although variables are defined by
\* where they are mentioned first (opener.py, result_translator.py, io_checkers.py).
InputOutputIsAllowed == (task.of = "io" /\ state.at = "done") => state.allowed

\* An operation that is said to terminate, and was checked, consists of finitely many
\* basic operations, none of them a gap or one that may not terminate
\* (termination_check.py).
TerminatingOperationsEnd == (task.of = "io" /\ state.at = "verify") => ~ state.endless
=============================================================================
