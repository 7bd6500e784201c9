-------------------------------- MODULE Names --------------------------------
(***************************************************************************)
(* Which variable a name means: the aliases that the translator keeps      *)
(* while it translates a method body, the methods inlined into it and, at  *)
(* the end, all their handlers and finally-blocks, next to Python's scopes.*)
(*                                                                         *)
(* A program is [main, sub, module, statics]: a method of a class with     *)
(* these static fields, a method that is inlined, the module's variables.  *)
(* A method is [params, globals, body].  Statements: "set", "read",        *)
(* "raise", "try" (with at most one handler), "all" (a Forall over a       *)
(* lambda) and "inline" (a call of sub).  The control flow of try blocks   *)
(* is ControlFlow's subject: here they do what Python does.                *)
(***************************************************************************)
EXTENDS Naturals, Sequences, FiniteSets, SequencesExt

CONSTANTS NamedPrograms,    \* sequence of sets of programs
          None

VARIABLES task,     \* a program, and where its two executions are
          state     \* "translated" or "executed"; what the Viper program did

vars == <<task, state>>

\* The exception that "raise" raises.
Raised == 100

RECURSIVE Stored(_)
\* The names that are assigned by statements.
Stored(ss) ==
  UNION {CASE ss[i].op = "set" -> {ss[i].n}
           [] ss[i].op = "try" -> Stored(ss[i].body) \cup Stored(ss[i].handler)
                                    \cup Stored(ss[i].orelse) \cup Stored(ss[i].final)
           [] OTHER -> {} : i \in DOMAIN ss}

RECURSIVE ExceptNames(_)
ExceptNames(ss) ==
  UNION {IF ss[i].op # "try" THEN {}
         ELSE {ss[i].as} \cup ExceptNames(ss[i].body) \cup ExceptNames(ss[i].handler)
                \cup ExceptNames(ss[i].orelse) \cup ExceptNames(ss[i].final) : i \in DOMAIN ss}

\* A name that is stored and is neither a parameter nor declared global is a local
\* variable; that of an except clause is none.
Locals(m) == Stored(m.body) \ (Range(m.params) \cup m.globals)

(***************************************************************************)
(* The translation: a scope is [frame, method, aliases].  The frame is     *)
(* "main" or the place of the call that is inlined.                        *)
(***************************************************************************)
\* The parameters of a method are copied into variables that can be assigned.
ParameterCopies(m) == [n \in Range(m.params) |-> <<"copy", n>>]

\* Variables for the arguments of the inlined call and copies of its locals.
InlineAliases(m, frame) == [n \in Range(m.params) \cup Locals(m) |-> <<frame, n>>]

\* The aliases, the static fields of the class that is translated, the method's
\* parameters and locals, the module.
Lookup(p, s, n) ==
  IF n \in DOMAIN s.aliases THEN s.aliases[n]
  ELSE IF n \in p.statics THEN <<"static", n>>
  ELSE IF n \in Range(s.method.params) THEN <<"parameter", n>>
  ELSE IF n \in Locals(s.method) THEN <<"local", n>>
  ELSE <<"module", n>>

With(aliases, n, place) == [m \in DOMAIN aliases \cup {n} |-> IF m = n THEN place ELSE aliases[m]]

Without(f, x) == [m \in DOMAIN f \ {x} |-> f[m]]

\* Only a variable of the method's own locals is asked whether it is defined.
IsLocalVariable(place) == place[1] = "local"

RECURSIVE Inlines(_)
\* The calls that are inlined into statements, in the order of translation but for
\* handlers and finally-blocks, which come last.
Inlines(ss) ==
  IF ss = <<>> THEN <<>>
  ELSE LET s == Head(ss)
           own == CASE s.op = "inline" -> <<s.site>>
                    [] s.op = "try"    -> Inlines(s.body)
                    [] OTHER -> <<>>
       IN  own \o Inlines(Tail(ss))
RECURSIVE LateInlines(_)
LateInlines(ss) ==
  IF ss = <<>> THEN <<>>
  ELSE (IF Head(ss).op # "try" THEN <<>>
        ELSE Inlines(Head(ss).handler) \o Inlines(Head(ss).orelse) \o Inlines(Head(ss).final))
         \o LateInlines(Tail(ss))
LastInline(p) == Last(Inlines(p.main.body) \o LateInlines(p.main.body))

\* A mutant: handlers are translated after the aliases are gone.
NoAliases(p, s) == [n \in {} |-> None]
\* The aliases at the end of the try body; a later inlining of the method replaces them.
HandlerAliases(p, s) == IF s.frame = "main" THEN s.aliases ELSE InlineAliases(p.sub, LastInline(p))

\* The name of the exception means the block's error variable.
HandlerScope(p, s, t) ==
  [s EXCEPT !.aliases = LET a == HandlerAliases(p, s)
                        IN  IF t.as = None THEN a ELSE With(a, t.as, <<"error", s.frame>>)]
\* Handlers come first and share the aliases with the else-block.
ElseScope(p, s, t) == IF t.catches THEN HandlerScope(p, s, t) ELSE [s EXCEPT !.aliases = HandlerAliases(p, s)]
\* The copies of the parameters are no aliases any more when finally-blocks are
\* translated; those of an inlined method are.
FinallyScope(p, s) ==
  [s EXCEPT !.aliases = IF s.frame = "main" THEN [n \in {} |-> None] ELSE InlineAliases(p.sub, s.frame)]
InlineScope(p, site) == [frame |-> site, method |-> p.sub, aliases |-> InlineAliases(p.sub, site)]

-----------------------------------------------------------------------------
(* Python: a frame of its own for every call, and the module. *)

IsPythonLocal(m, n) == n \in Range(m.params) \cup Locals(m) \cup (ExceptNames(m.body) \ m.globals)
PythonPlace(s, n) ==
  IF n \in DOMAIN s.aliases THEN s.aliases[n]
  ELSE IF IsPythonLocal(s.method, n) THEN <<s.frame, n>> ELSE <<"module", n>>
PythonFrame(frame, m) == [frame |-> frame, method |-> m, aliases |-> [n \in {} |-> None]]

-----------------------------------------------------------------------------
(* Execution, of the translated program and of Python: [env, events, how].  *)

Python == "python"
Place(p, side, s, n) == IF side = Python THEN PythonPlace(s, n) ELSE Lookup(p, s, n)

Read(p, side, s, n, r) ==
  LET At(place) ==
        IF place \in DOMAIN r.env THEN [r EXCEPT !.events = Append(@, <<n, r.env[place]>>)]
        ELSE IF side = Python \/ IsLocalVariable(place) \/ place[1] = "module" THEN [r EXCEPT !.how = "undefined"]
        ELSE [r EXCEPT !.events = Append(@, <<n, None>>)]
  IN  At(Place(p, side, s, n))
Store(p, side, s, n, v, r) == [r EXCEPT !.env = With(@, Place(p, side, s, n), v)]

RECURSIVE Exec(_, _, _, _, _)
Exec(p, side, s, ss, r) ==
  LET Bound(n, place) == [s EXCEPT !.aliases = With(@, n, place)]
      Under(t) ==
        FoldLeft(LAMBDA q, n : IF q.how # "normal" THEN q ELSE Read(p, side, Bound(t.n, <<"lambda", t.n>>), n, q),
                 [r EXCEPT !.env = With(@, <<"lambda", t.n>>, t.v)], t.reads)
      Scope(of, t) ==
        IF side = Python THEN s
        ELSE CASE of = "handler" -> HandlerScope(p, s, t) [] of = "else" -> ElseScope(p, s, t)
               [] of = "finally" -> FinallyScope(p, s)
      \* Python unbinds the name of the exception when the handler is left.
      Caught(t, q) ==
        LET Entered(h) == IF t.as = None THEN [q EXCEPT !.how = "normal"]
                          ELSE Store(p, side, h, t.as, Raised, [q EXCEPT !.how = "normal"])
            Left(h, q2) == IF side # Python \/ t.as = None THEN q2
                           ELSE [q2 EXCEPT !.env = Without(@, Place(p, side, h, t.as))]
            Handle(h) == Left(h, Exec(p, side, h, t.handler, Entered(h)))
        IN  Handle(Scope("handler", t))
      After(t, q) ==
        IF q.how = "raised" /\ t.catches THEN Caught(t, q)
        ELSE IF q.how = "normal" THEN Exec(p, side, Scope("else", t), t.orelse, q) ELSE q
      Finally(t, q) ==
        LET Left(f) == IF f.how = "normal" THEN [f EXCEPT !.how = q.how] ELSE f
        IN  IF q.how = "undefined" THEN q
            ELSE Left(Exec(p, side, Scope("finally", t), t.final, [q EXCEPT !.how = "normal"]))
      Called(t) ==
        LET callee == IF side = Python THEN PythonFrame(t.site, p.sub) ELSE InlineScope(p, t.site)
            Passed(q) == IF q.how # "normal" THEN q
                         ELSE Exec(p, side, callee, p.sub.body,
                                   Store(p, side, callee, p.sub.params[1], Last(q.events)[2], q))
        IN  Passed(Read(p, side, s, t.arg, r))
      Do(t) ==
        CASE t.op = "set"    -> Store(p, side, s, t.n, t.v, r)
          [] t.op = "read"   -> Read(p, side, s, t.n, r)
          [] t.op = "raise"  -> [r EXCEPT !.how = "raised"]
          [] t.op = "all"    -> Under(t)
          [] t.op = "inline" -> Called(t)
          [] t.op = "try"    -> Finally(t, After(t, Exec(p, side, s, t.body, r)))
  IN  IF ss = <<>> \/ r.how # "normal" THEN r ELSE Exec(p, side, s, Tail(ss), Do(Head(ss)))

\* The module's variables are 0, the argument is 10.
Started(p, places) ==
  [env |-> [l \in {<<"module", n>> : n \in p.module} \cup {<<"static", n>> : n \in p.statics} \cup places |->
              IF l \in places THEN 10 ELSE 0],
   events |-> <<>>, how |-> "normal"]
ModuleEnd(r, p) == [n \in p.module |-> r.env[<<"module", n>>]]
Observed(p, r) == <<r.how, r.events, ModuleEnd(r, p)>>

Execute(p) ==
  Exec(p, "viper", [frame |-> "main", method |-> p.main, aliases |-> ParameterCopies(p.main)], p.main.body,
       Started(p, {<<k, n>> : k \in {"copy", "parameter"}, n \in Range(p.main.params)}))
ExecutePython(p) ==
  Exec(p, Python, PythonFrame("main", p.main), p.main.body, Started(p, {<<"main", n>> : n \in Range(p.main.params)}))

-----------------------------------------------------------------------------

Init ==
  \E k \in DOMAIN NamedPrograms : \E p \in NamedPrograms[k] :
    /\ task = [of |-> "names", program |-> p]
    /\ state = [at |-> "translated", run |-> <<>>]

Named(at) == task.of = "names" /\ state.at = at

Run ==
  /\ Named("translated")
  /\ state' = [at |-> "executed", run |-> Execute(task.program)]
  /\ UNCHANGED task

Finished == Named("executed") /\ UNCHANGED vars

Next == Run \/ Finished

Spec == Init /\ [][Next]_vars

\* Every name in a method body that passes the definedness checks means the variable
\* it means in Python, in handlers, else- and finally-blocks that are translated after
\* the body, under quantifiers and in inlined methods (expression.py translate_Name,
\* call.py inline_method).
NamesMeanPythonsVariables ==
  Named("executed") =>
    LET Same(r) == r.how # "undefined" => Observed(task.program, r) = Observed(task.program, ExecutePython(task.program))
    IN  Same(state.run)
=============================================================================
