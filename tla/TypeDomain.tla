------------------------------ MODULE TypeDomain ------------------------------
(***************************************************************************)
(* Python's types in Viper: constants and functions of a domain, related   *)
(* by axioms about extends_, issubtype and isnotsubtype.  The module       *)
(* translates a declared type as mypy reports it to a PythonType and to a  *)
(* term of the domain, and derives from the axioms, over the terms at      *)
(* hand, which subtype facts hold and which do not.                        *)
(*                                                                         *)
(* mypy types: [k |-> "none"], [k |-> "inst", c, args], where args holds   *)
(* at most one class, and [k |-> "union", items] with the set of its       *)
(* items.  PythonTypes: none, cls (a class as it stands), gen (with        *)
(* arguments), union, opt.  Terms: [f |-> class, args], a union with the   *)
(* set of its options, and "arg" for an argument that is not known.  A     *)
(* hierarchy gives each class its superclass, with the arguments of that   *)
(* in which "var" is its own type variable; a class with a type variable   *)
(* is in generic.                                                          *)
(***************************************************************************)
EXTENDS FrontEndTasks, Sequences

CONSTANT TypeTasks    \* sequence of sets of [classes, super, generic, enums, declared]

Object == "object"
NoneType == "NoneType"
Term(f, args) == [f |-> f, args |-> args]
UnionTerm(options) == [f |-> "union", options |-> options]
IsUnion(t) == t.f = "union"

-----------------------------------------------------------------------------
(* mypy types to PythonTypes *)

Cls(c) == [k |-> "cls", c |-> c]
Gen(c, args) == [k |-> "gen", c |-> c, args |-> args]
NoType == [k |-> "none"]

ConvertItem(t) ==
  CASE t.k = "none" -> NoType
    [] t.k = "inst" -> IF t.args = <<>> THEN Cls(t.c) ELSE Gen(t.c, <<Cls(t.args[1])>>)

\* None is taken out of a union; what is left is wrapped.
ConvertUnion(items) ==
  LET args == items \ {NoType}
      some == IF \E t \in args : args = {t} THEN CHOOSE t \in args : TRUE
              ELSE [k |-> "union", args |-> args]
  IN  IF NoType \in items THEN [k |-> "opt", t |-> some] ELSE some

ConvertType(t) ==
  IF t.k = "union" THEN ConvertUnion({ConvertItem(i) : i \in t.items}) ELSE ConvertItem(t)

\* What an Optional is about.
ValueType(type) == IF type.k = "opt" THEN type.t ELSE type

-----------------------------------------------------------------------------
(* Classes *)

\* What is reached from x, where next leads from some elements of S to others.
Above(S, next, x) ==
  LET above[y \in S] == {y} \cup (IF y \in DOMAIN next THEN above[next[y]] ELSE {})
  IN  above[x]

Superclass(p) == [c \in p.classes |-> p.super[c].c]
ClassesAbove(p, c) == Above(p.classes \cup {Object}, Superclass(p), c)
ClassIsSubtype(p, c, d) == d \in ClassesAbove(p, c)

\* The lowest class above several, whatever the order they are taken in.
IsCommonSuperclass(p, cs, c) == \A d \in cs : ClassIsSubtype(p, d, c)
CommonSuperclass(p, cs) ==
  CHOOSE c \in p.classes \cup {Object} :
    /\ IsCommonSuperclass(p, cs, c)
    /\ \A e \in p.classes \cup {Object} : IsCommonSuperclass(p, cs, e) => ClassIsSubtype(p, c, e)

\* The class whose members a value of the type has.
ClassOf(type) == IF type.k = "none" THEN NoneType ELSE type.c
PythonClassOf(p, type) ==
  LET v == ValueType(type)
  IN  IF v.k = "union" THEN CommonSuperclass(p, {ClassOf(a) : a \in v.args}) ELSE ClassOf(v)

-----------------------------------------------------------------------------
(* Terms *)

PlainClasses(p) == (p.classes \cup {Object}) \ p.generic
PlainTypes(p) == {Term(c, <<>>) : c \in PlainClasses(p)}
Instances(p, args) == PlainTypes(p) \cup UNION {{Term(c, <<a>>) : a \in args} : c \in p.generic}

ExtendsSomething(p, t) == t.f \in p.classes

\* The supertype a class axiom gives a class, its variable replaced.
Extends(p, t) ==
  LET s == p.super[t.f]
  IN  Term(s.c, IF s.args = <<>> THEN <<>>
                ELSE IF s.args[1] = "var" THEN t.args ELSE <<Term(s.args[1], <<>>)>>)

Ancestors(p, t) ==
  LET S == Instances(p, PlainTypes(p) \cup {t.args[i] : i \in DOMAIN t.args})
  IN  IF ExtendsSomething(p, t)
      THEN Above(S, [u \in {u \in S : ExtendsSomething(p, u)} |-> Extends(p, u)], t)
      ELSE {t}

\* The type argument of a term relative to a class: known when it is a subtype of it.
TypeArg(p, t, c) ==
  LET known == {a \in Ancestors(p, t) : a.f = c}
  IN  IF known = {} THEN Term("arg", <<t, Term(c, <<>>)>>) ELSE (CHOOSE a \in known : TRUE).args[1]

\* A generic class without arguments takes those of the type it is compared with.
ClassLiteral(p, type, alias) ==
  CASE type.k = "none" -> Term(NoneType, <<>>)
    [] type.k = "cls"  -> Term(type.c, IF type.c \in p.generic THEN <<TypeArg(p, alias, type.c)>> ELSE <<>>)
    [] type.k = "gen"  -> Term(type.c, <<Term(type.args[1].c, <<>>)>>)

ValueLiteral(p, type, alias) ==
  IF type.k = "union" THEN UnionTerm({ClassLiteral(p, a, alias) : a \in type.args})
  ELSE ClassLiteral(p, type, alias)

TypeLiteral(p, type, alias) ==
  LET literal == ValueLiteral(p, ValueType(type), alias)
  IN  IF type.k = "opt" THEN UnionTerm({Term(NoneType, <<>>), literal}) ELSE literal

\* get_basic: equations for classes that extend something, and for unions.
HasBasic(p, t) == IsUnion(t) \/ ExtendsSomething(p, t)
IsConstant(t) == t.f \notin {"union", "arg"} /\ t.args = <<>>

\* What makes two terms different: constants are unique, and so are the basics; the
\* arguments of a class are functions of the term.
DifferentFunctions(p, t, u) ==
  \/ IsConstant(t) /\ IsConstant(u) /\ t # u
  \/ HasBasic(p, t) /\ HasBasic(p, u) /\ t.f # u.f
Different(p, t, u) ==
  \/ DifferentFunctions(p, t, u)
  \/ t.f = u.f /\ t.f \in p.generic /\ DifferentFunctions(p, t.args[1], u.args[1])

-----------------------------------------------------------------------------
(* The axioms, over the terms at hand: sub[t] are the terms t is derived    *)
(* to be an issubtype of, nots[t] an isnotsubtype of, nsub[t] those of      *)
(* which it is derived not to be an issubtype; diff[t] are different        *)

Reflexivity(t) == {t}
ObjectSubtype == {Term(Object, <<>>)}
ExtendsImpliesSubtype(p, t) == IF ExtendsSomething(p, t) THEN {Extends(p, t)} ELSE {}
Transitivity(k, t) == UNION {k.sub[m] : m \in k.sub[t]}

\* ... read from the other ends.
TransitivityFails(k, t) ==
  (UNION {k.nsub[m] : m \in {m \in DOMAIN k.sub : t \in k.sub[m]}})
    \cup {u \in DOMAIN k.sub : k.sub[u] \cap k.nsub[t] # {}}

\* Mutant: the axiom applies to unions too.
AnyType(p, t) == TRUE

\* Only what is known not to be a union is distributed over one.
NotUnion(p, t) == HasBasic(p, t) /\ ~ IsUnion(t)

UnionSubtype(p, unions, k, t) ==
  IF NotUnion(p, t) THEN {u \in unions : u.options \cap k.sub[t] # {}} ELSE {}
UnionSubtypeFails(p, unions, k, t) ==
  IF NotUnion(p, t) THEN {u \in unions : u.options \subseteq k.nsub[t]} ELSE {}
SubtypeUnion(k, t) ==
  IF IsUnion(t) THEN {u \in DOMAIN k.sub : \A a \in t.options : u \in k.sub[a]} ELSE {}
SubtypeUnionFails(k, t) == IF IsUnion(t) THEN UNION {k.nsub[a] : a \in t.options} ELSE {}

\* Different types that extend the same one.
SubtypeExclusion(p, diff, t) ==
  IF ExtendsSomething(p, t)
  THEN {u \in diff[t] : ExtendsSomething(p, u) /\ Extends(p, u) = Extends(p, t)} ELSE {}
SubtypeExclusion2(diff, k, t) == {u \in diff[t] : t \in k.sub[u]}
SubtypeExclusionPropagation(k, t) == UNION {k.nots[m] : m \in k.sub[t]}

\* A subtype of an instance of a generic class has its argument.
ArgAxiom(p, diff, k, t) ==
  UNION {{u \in diff[v] : u.f = v.f} : v \in {v \in k.sub[t] : v.f \in p.generic}}

DefaultAxioms(p, unions, diff, k) ==
  [sub |-> [t \in DOMAIN k.sub |->
     k.sub[t] \cup Transitivity(k, t) \cup UnionSubtype(p, unions, k, t) \cup SubtypeUnion(k, t)],
   nots |-> k.nots,
   nsub |-> [t \in DOMAIN k.sub |->
     k.nsub[t] \cup TransitivityFails(k, t) \cup UnionSubtypeFails(p, unions, k, t)
       \cup SubtypeUnionFails(k, t) \cup SubtypeExclusion2(diff, k, t)
       \cup SubtypeExclusionPropagation(k, t) \cup ArgAxiom(p, diff, k, t)]]

Given(p, terms, diff) ==
  [sub |-> [t \in terms |-> Reflexivity(t) \cup ObjectSubtype \cup ExtendsImpliesSubtype(p, t)],
   nots |-> [t \in terms |-> SubtypeExclusion(p, diff, t)],
   nsub |-> [t \in terms |-> {}]]

-----------------------------------------------------------------------------
(* Type checks *)

Answer(k, t, u) ==
  CASE u \in k.sub[t] \ k.nsub[t] -> "yes"
    [] u \in k.nsub[t] \ k.sub[t] -> "no"
    [] OTHER -> "unknown"

SubtypeCheck(p, k, t, type) == Answer(k, t, TypeLiteral(p, type, t))

\* type_check: whether typeof(x), which is t, is of the type.
TypeCheck(p, k, t, type) ==
  CASE type.k = "opt" -> IF t = Term(NoneType, <<>>) THEN "yes" ELSE SubtypeCheck(p, k, t, type.t)
    [] type.k \in {"cls", "none"} /\ PythonClassOf(p, type) \in p.enums ->
         IF t = TypeLiteral(p, type, t) THEN "yes" ELSE "no"
    [] OTHER -> SubtypeCheck(p, k, t, type)

\* Python: whether an object of type t is a value of the declared type.
Items(declared) == IF declared.k = "union" THEN declared.items ELSE {declared}
IsInstanceOf(p, t, item) ==
  CASE item.k = "none" -> t.f = NoneType
    [] item.k = "inst" -> \E a \in Ancestors(p, t) :
         a.f = item.c /\ (item.args # <<>> => a.args = <<Term(item.args[1], <<>>)>>)
IsValueOf(p, t, declared) == \E i \in Items(declared) : IsInstanceOf(p, t, i)

-----------------------------------------------------------------------------

\* The types objects can have: instances of the classes.
ObjectTypes(p) == Instances(p, PlainTypes(p)) \ {Term(Object, <<>>)}

Options(t) == IF IsUnion(t) THEN t.options ELSE {}
Subterms(t) == {t} \cup Options(t) \cup UNION {Options(o) : o \in Options(t)}

Terms(p, type) ==
  LET literals == {TypeLiteral(p, type, t) : t \in ObjectTypes(p)}
  IN  UNION {Ancestors(p, s) : s \in ObjectTypes(p) \cup UNION {Subterms(t) : t \in literals}}

TypesInit == \E i \in DOMAIN TypeTasks : \E p \in TypeTasks[i] :
               task = [of |-> "types", program |-> p] /\ state = [at |-> "convert"]

ConvertDeclaredType ==
  /\ task.of = "types" /\ state.at = "convert"
  /\ LET p == task.program
         type == ConvertType(p.declared)
         terms == Terms(p, type)
     IN  state' = [at |-> "relate", type |-> type, terms |-> terms,
                   diff |-> [t \in terms |-> {u \in terms : Different(p, t, u)}]]
  /\ UNCHANGED task

GivenAxioms ==
  /\ task.of = "types" /\ state.at = "relate"
  /\ state' = [at |-> "derive", type |-> state.type, diff |-> state.diff,
               unions |-> {t \in state.terms : IsUnion(t)},
               known |-> Given(task.program, state.terms, state.diff)]
  /\ UNCHANGED task

Derivable == DefaultAxioms(task.program, state.unions, state.diff, state.known)

Derive ==
  /\ task.of = "types" /\ state.at = "derive"
  /\ Derivable # state.known
  /\ state' = [state EXCEPT !.known = Derivable]
  /\ UNCHANGED task

CheckTypes ==
  /\ task.of = "types" /\ state.at = "derive"
  /\ Derivable = state.known
  /\ LET p == task.program
         k == state.known
     IN  state' = [at |-> "done", clashes |-> {t \in DOMAIN k.sub : k.sub[t] \cap k.nsub[t] # {}},
                   class |-> PythonClassOf(p, state.type),
                   answers |-> [t \in ObjectTypes(p) |-> TypeCheck(p, k, t, state.type)]]
  /\ UNCHANGED task

TypesNext == ConvertDeclaredType \/ GivenAxioms \/ Derive \/ CheckTypes

TypesSpec == TypesInit /\ [][TypesNext]_vars

-----------------------------------------------------------------------------
(* What mypy lets through *)

\* Classes form a tree below object; nothing extends NoneType or an enumeration, and
\* only a generic class passes its variable on.
IsHierarchy(p) ==
  /\ p.classes \cap {Object, "union", "arg"} = {}
  /\ p.generic \subseteq p.classes
  /\ NoneType \in p.classes \ p.generic /\ p.super[NoneType].c = Object
  /\ p.enums \subseteq p.classes \ (p.generic \cup {NoneType})
  /\ \A c \in p.classes : LET s == p.super[c] IN
       /\ s.c \in (p.classes \cup {Object}) \ (p.enums \cup {NoneType})
       /\ IF s.c \in p.generic
          THEN \E a \in PlainClasses(p) \cup {"var"} : s.args = <<a>> /\ (a = "var" => c \in p.generic)
          ELSE s.args = <<>>
  /\ \A C \in SUBSET p.classes : (\A c \in C : p.super[c].c \in C) => C = {}

IsItem(p, t) ==
  \/ t = NoType
  \/ \E c \in (p.classes \cup {Object}) \ {NoneType} :
       \E args \in {<<>>} \cup {<<d>> : d \in IF c \in p.generic THEN PlainClasses(p) ELSE {}} :
         t = [k |-> "inst", c |-> c, args |-> args]

\* No option of a union is a subclass of another.
IsDeclaredType(p, t) ==
  IF t.k = "union"
  THEN /\ \A i \in t.items : IsItem(p, i)
       /\ t.items \ {NoType} # {}
       /\ \A i, j \in t.items \ {NoType} : i # j => ~ ClassIsSubtype(p, i.c, j.c)
  ELSE IsItem(p, t)

ASSUME TypesAssumption ==
  \A i \in DOMAIN TypeTasks : \A p \in TypeTasks[i] : IsHierarchy(p) /\ IsDeclaredType(p, p.declared)

-----------------------------------------------------------------------------
(* Properties *)

\* The derivation splits no cases over arguments that are not known.
LeavesOutArguments(p, declared) ==
  \E i \in Items(declared) : i.k = "inst" /\ i.args = <<>> /\ i.c \in p.generic

\* The axioms decide, without a contradiction, for every type an object can have
\* whether it is a value of a declared type, as Python would: inheritance, arguments
\* of generic classes, unions and Optional included; and the members looked up for
\* a value of the type are those of a class that all its values have
\* (type_domain_factory.py get_default_axioms, program_nodes.py UnionType).
TypesAreDecidedLikePython ==
  (task.of = "types" /\ state.at = "done") =>
    LET p == task.program
    IN  /\ state.clashes = {}
        /\ \A t \in DOMAIN state.answers :
             /\ state.answers[t] = "yes" <=> IsValueOf(p, t, p.declared)
             /\ state.answers[t] = "unknown" => LeavesOutArguments(p, p.declared)
             /\ (IsValueOf(p, t, p.declared) /\ t.f # NoneType) =>
                  ClassIsSubtype(p, t.f, state.class)
=============================================================================
