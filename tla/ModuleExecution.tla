--------------------------- MODULE ModuleExecution ---------------------------
(***************************************************************************)
(* The global code of a program.  Nagini translates the statements of the  *)
(* main module, and at each import those of the imported module, to one    *)
(* Viper method that keeps for every module the set of the names defined   *)
(* so far and asserts, where a name is used, that it and all names its     *)
(* call will need are in these sets.  The module runs that method and then *)
(* Python's execution of the same modules, side by side in one state.      *)
(*                                                                         *)
(* A program is a record, whose classes have a method m and a constructor: *)
(*   code    the statements of each module                                 *)
(*   home    the module of each declaration (names are unique)             *)
(*   uses    what the body of each function or method refers to            *)
(*   notes   the annotations of each function and class                    *)
(*   base    the superclass of each class, or None                         *)
(*   method  for each class the functions that are its m and its __init__  *)
(*   alias   the declaration behind each name given with "as"              *)
(* A use is a record with a path, a name or a module and a name, and the   *)
(* class on whose objects a method is called, or None.                     *)
(***************************************************************************)
EXTENDS FrontEndTasks, Naturals, Sequences, FiniteSets, SequencesExt, TLC

CONSTANT Programs      \* sequence of sets of programs

Main == "main"
ModuleVar == <<"__name__">>

-----------------------------------------------------------------------------
(* Declarations *)

\* The declaration a reference denotes.
Target(p, path) == IF Last(path) \in DOMAIN p.alias THEN p.alias[Last(path)] ELSE Last(path)

IsClass(p, d) == d \in DOMAIN p.base

IsFunction(p, d) == d \in DOMAIN p.uses

SubclassOf(p, c, d) ==
  LET above[x \in DOMAIN p.base] ==
        {x} \cup (IF p.base[x] = None THEN {} ELSE above[p.base[x]])
  IN  d \in above[c]

AllSubclasses(p, c) == {d \in DOMAIN p.base : SubclassOf(p, d, c)}

\* The method a class has under a name, its own or an inherited one.
GetMethod(p, c, name) ==
  LET get[x \in DOMAIN p.base] ==
        IF p.method[x][name] # None THEN p.method[x][name]
        ELSE IF p.base[x] = None THEN None ELSE get[p.base[x]]
  IN  get[c]

-----------------------------------------------------------------------------
(* Dependencies of calls *)

\* What translating the body of a function adds to its call_deps: a reference
\* as it is, a call on an object once for each class it may have, on the
\* condition that this class is defined.
CallDeps(p, f) ==
  UNION {IF u.on = None
         THEN {[path |-> u.path, decl |-> Target(p, u.path), mod |-> p.home[f], conds |-> <<>>]}
         ELSE {[path |-> u.path, decl |-> GetMethod(p, c, "m"), mod |-> p.home[f], conds |-> <<c>>]
                  : c \in AllSubclasses(p, u.on)}
           : u \in p.uses[f]}

AllDeps == [path : Seq(STRING), decl : STRING \cup {None}, mod : STRING, conds : Seq(STRING)]

\* As written, a dependency counts as visited when it is there without conditions.
AddAllCallDeps(p, called) ==
  LET add[deps \in SUBSET AllDeps, res \in SUBSET AllDeps, prefix \in Seq(STRING)] ==
        FoldSet(LAMBDA dep, acc :
                  IF dep \in acc THEN acc
                  ELSE LET direct == dep.conds = <<>>
                           added == IF direct THEN acc \cup {[dep EXCEPT !.conds = prefix]} ELSE acc
                       IN  IF ~ IsFunction(p, dep.decl) THEN added
                           ELSE add[CallDeps(p, dep.decl), added, prefix \o dep.conds],
                res, deps)
  IN  add[CallDeps(p, called), {}, <<>>]

\* Mutant: what the called function calls in turn is left out.
DirectDependencies(p, d) ==
  LET called == IF IsClass(p, d) THEN GetMethod(p, d, "init") ELSE d
  IN  IF called = None \/ ~ IsFunction(p, called) THEN {} ELSE CallDeps(p, called)

Dependencies(p, d) ==
  LET called == IF IsClass(p, d) THEN GetMethod(p, d, "init") ELSE d
  IN  IF called = None \/ ~ IsFunction(p, called) THEN {}
      ELSE AddAllCallDeps(p, called)

-----------------------------------------------------------------------------
(* The method that stands for the global code *)

NamesDefined(p, names, m, path) == path \in names[m]

\* A dependency counts when all classes it is for are defined where they belong.
DependencyDefined(p, names, dep) ==
  (\A i \in DOMAIN dep.conds : <<dep.conds[i]>> \in names[p.home[dep.conds[i]]])
     => dep.path \in names[dep.mod]

GloballyDefined(p, names, m, path) ==
  /\ NamesDefined(p, names, m, path)
  /\ \A dep \in Dependencies(p, Target(p, path)) : DependencyDefined(p, names, dep)

\* A use at module level; a call on an object asserts nothing.
UseIsAsserted(p, names, m, use) == use.on # None \/ GloballyDefined(p, names, m, use.path)

\* The names an assigned value reads.
ReadsAreAsserted(p, names, m, s) == \A use \in s.reads : UseIsAsserted(p, names, m, use)

\* Annotations are needed when the definition is executed, unless they are quoted.
DefinitionDeps(p, d) == {n.path : n \in {n \in p.notes[d] : ~ n.quoted}}

DefinitionDepsDefined(p, names, d) ==
  \A path \in DefinitionDeps(p, d) : path \in names[p.home[d]]

\* The methods of a class assert nothing of their own, and define their names
\* in the module.
ClassIsAsserted(p, names, s) ==
  /\ DefinitionDepsDefined(p, names, s.name)
  /\ p.base[s.name] # None => <<p.base[s.name]>> \in names[p.home[s.name]]
  /\ ReadsAreAsserted(p, names, p.home[s.name], s)

MethodNames(p, c) == {n \in DOMAIN p.method[c] : p.method[c][n] # None}

Asserted(p, names, m, s) ==
  CASE s.op = "use"   -> UseIsAsserted(p, names, m, s.use)
    [] s.op = "var"   -> ReadsAreAsserted(p, names, m, s)
    [] s.op = "def"   -> DefinitionDepsDefined(p, names, s.name)
    [] s.op = "class" -> ClassIsAsserted(p, names, s)
    [] s.op = "from"  -> <<s.name>> \in names[s.mod]
    [] OTHER          -> TRUE

DefinedNames(p, s) ==
  {<<s.name>>} \cup (IF s.op = "class" THEN {<<n>> : n \in MethodNames(p, s.name)} ELSE {})

\* A copy of the names the module has now, each with the module in front.
ImportedNames(names, s) == {<<s.mod>> \o path : path \in names[s.mod]}

FromImportedNames(names, s) == IF s.op = "star" THEN names[s.mod] ELSE {<<s.as>>}

Added(p, names, s) ==
  CASE s.op \in {"var", "def", "class"} -> DefinedNames(p, s)
    [] s.op = "import" -> ImportedNames(names, s)
    [] s.op \in {"from", "star"} -> FromImportedNames(names, s)
    [] OTHER -> {}

IsImport(s) == s.op \in {"import", "from", "star"}

\* Mutant: an import of all names does not execute the module.
ExecutesNamedModule(enc, s) == s.op \in {"import", "from"} /\ s.mod \notin enc.defined

\* Whether the statements of the imported module come first: they are guarded by
\* defined_var, and not repeated within their own translation.
ExecutesModule(enc, s) == IsImport(s) /\ s.mod \notin enc.defined

Top(x) == Last(x.stack)

Advanced(stack) == [stack EXCEPT ![Len(stack)].pc = @ + 1]

\* One statement of the translated main method.
EncodedStatement(p, enc, s) ==
  LET m == Top(enc).mod
  IN  IF ExecutesModule(enc, s)
      THEN [enc EXCEPT !.stack = Append(@, [mod |-> s.mod, pc |-> 1]),
                       !.defined = @ \cup {s.mod}, !.trace = Append(@, s.mod)]
      ELSE IF ~ Asserted(p, enc.names, m, s) THEN [enc EXCEPT !.failed = TRUE]
      ELSE [enc EXCEPT !.stack = Advanced(@),
                       !.names[m] = @ \cup Added(p, enc.names, s)]

InitialEncoding(p) ==
  [stack |-> <<[mod |-> Main, pc |-> 1]>>, defined |-> {Main}, failed |-> FALSE,
   names |-> [m \in DOMAIN p.code |-> {ModuleVar}], trace |-> <<Main>>]

-----------------------------------------------------------------------------
(* Python *)

Missing == "missing"

Lookup(ns, m, path) ==
  LET find[n \in DOMAIN ns, q \in Seq(STRING)] ==
        IF Head(q) \notin DOMAIN ns[n] THEN Missing
        ELSE LET found == ns[n][Head(q)]
             IN  IF Len(q) = 1 THEN found
                 ELSE IF found \in DOMAIN ns THEN find[found, Tail(q)] ELSE Missing
  IN  find[m, path]

\* The functions that run when an object is called, when it can be.
Called(p, d) ==
  LET f == IF IsClass(p, d) THEN GetMethod(p, d, "init") ELSE d
  IN  {g \in {f} : IsFunction(p, g)}

\* The functions a use runs: a call on an object runs the method of its class,
\* which is any class made so far.
Runs(p, py, m, use) ==
  IF use.on = None THEN Called(p, Lookup(py.ns, m, use.path))
  ELSE {GetMethod(p, c, "m") : c \in py.made \cap AllSubclasses(p, use.on)}

Reached(p, py, start) ==
  LET reach[fs \in SUBSET DOMAIN p.uses] ==
        LET more == fs \cup UNION {UNION {Runs(p, py, p.home[f], u) : u \in p.uses[f]} : f \in fs}
        IN  IF more = fs THEN fs ELSE reach[more]
  IN  reach[start]

Unbound(py, m, use) == use.on = None /\ Lookup(py.ns, m, use.path) = Missing

\* Some branch of what a use runs finds a name missing.
Raises(p, py, m, use) ==
  \/ Unbound(py, m, use)
  \/ \E f \in Reached(p, py, Runs(p, py, m, use)) :
        \E u \in p.uses[f] : Unbound(py, p.home[f], u)

NoteMissing(p, py, m, d) ==
  \E n \in p.notes[d] : ~ n.quoted /\ Lookup(py.ns, m, n.path) = Missing

PythonRaises(p, py, m, s) ==
  CASE s.op = "use"   -> Raises(p, py, m, s.use)
    [] s.op = "var"   -> \E use \in s.reads : Raises(p, py, m, use)
    [] s.op = "def"   -> NoteMissing(p, py, m, s.name)
    [] s.op = "class" -> \/ NoteMissing(p, py, m, s.name)
                         \/ p.base[s.name] # None /\ Lookup(py.ns, m, <<p.base[s.name]>>) = Missing
                         \/ \E use \in s.reads : Raises(p, py, m, use)
    [] s.op = "from"  -> s.name \notin DOMAIN py.ns[s.mod]
    [] OTHER          -> FALSE

Bound(py, s) ==
  CASE s.op \in {"var", "def", "class"} -> s.name :> s.name
    [] s.op = "import" -> s.mod :> s.mod
    [] s.op = "from"   -> s.as :> py.ns[s.mod][s.name]
    [] s.op = "star"   -> [n \in DOMAIN py.ns[s.mod] \ {Last(ModuleVar)} |-> py.ns[s.mod][n]]
    [] OTHER           -> <<>>

PythonStatement(p, py, s) ==
  LET m == Top(py).mod
  IN  IF IsImport(s) /\ s.mod \notin py.loaded
      THEN [py EXCEPT !.stack = Append(@, [mod |-> s.mod, pc |-> 1]),
                      !.loaded = @ \cup {s.mod}, !.trace = Append(@, s.mod)]
      ELSE IF PythonRaises(p, py, m, s) THEN [py EXCEPT !.raised = TRUE]
      ELSE [py EXCEPT !.stack = Advanced(@), !.ns[m] = Bound(py, s) @@ @,
                      !.made = IF s.op = "class" THEN @ \cup {s.name} ELSE @]

InitialPython(p) ==
  [stack |-> <<[mod |-> Main, pc |-> 1]>>, loaded |-> {Main}, raised |-> FALSE, made |-> {},
   ns |-> [m \in DOMAIN p.code |-> Last(ModuleVar) :> Last(ModuleVar)], trace |-> <<Main>>]

-----------------------------------------------------------------------------
(* The two executions *)

\* Modules are sequences of statements; the main and the imported ones are there.
IsProgram(p) ==
  /\ Main \in DOMAIN p.code
  /\ \A m \in DOMAIN p.code : Len(p.code[m]) \in Nat
  /\ \A m \in DOMAIN p.code : \A i \in 1..Len(p.code[m]) :
       IsImport(p.code[m][i]) => p.code[m][i].mod \in DOMAIN p.code

ProgramsAssumption == \A i \in DOMAIN Programs : \A p \in Programs[i] : IsProgram(p)

Init == \E i \in DOMAIN Programs : \E p \in Programs[i] :
          /\ task = [of |-> "modules", program |-> p]
          /\ state = [enc |-> InitialEncoding(p), py |-> InitialPython(p)]

Program == task.program
Enc == state.enc
Py == state.py

AtEnd(x) == Top(x).pc > Len(Program.code[Top(x).mod])

Current(x) == Program.code[Top(x).mod][Top(x).pc]

Runnable(x, failed) == ~ failed /\ x.stack # <<>>

VerifyStatement ==
  /\ task.of = "modules" /\ Runnable(Enc, Enc.failed) /\ ~ AtEnd(Enc)
  /\ state' = [state EXCEPT !.enc = EncodedStatement(Program, @, Current(Enc))]
  /\ UNCHANGED task

VerifyModuleEnd ==
  /\ task.of = "modules" /\ Runnable(Enc, Enc.failed) /\ AtEnd(Enc)
  /\ state' = [state EXCEPT !.enc.stack = Front(@)]
  /\ UNCHANGED task

Accepted == ~ Enc.failed /\ Enc.stack = <<>>

RunStatement ==
  /\ task.of = "modules" /\ Accepted /\ Runnable(Py, Py.raised) /\ ~ AtEnd(Py)
  /\ state' = [state EXCEPT !.py = PythonStatement(Program, @, Current(Py))]
  /\ UNCHANGED task

RunModuleEnd ==
  /\ task.of = "modules" /\ Accepted /\ Runnable(Py, Py.raised) /\ AtEnd(Py)
  /\ state' = [state EXCEPT !.py.stack = Front(@)]
  /\ UNCHANGED task

Next == VerifyStatement \/ VerifyModuleEnd \/ RunStatement \/ RunModuleEnd

Spec == Init /\ [][Next]_vars

-----------------------------------------------------------------------------
(* Properties *)

\* A program whose global code verifies never meets an unbound name: not where
\* a module refers to it, and not in a function that runs before the names its
\* body needs are there (common.py assert_global_defined and the call_deps).
NamesAreThere == task.of = "modules" => ~ Py.raised

\* The statements of the modules are verified in the order in which Python
\* runs them: each module once, at its first import, also when modules import
\* each other (statement.py _execute_module_statements).
ModulesRunInPythonsOrder ==
  task.of = "modules" =>
    /\ \A i, j \in DOMAIN Enc.trace : Enc.trace[i] = Enc.trace[j] => i = j
    /\ Accepted /\ Py.stack = <<>> => Enc.trace = Py.trace
=============================================================================
