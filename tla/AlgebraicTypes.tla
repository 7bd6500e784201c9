--------------------------- MODULE AlgebraicTypes ---------------------------
(***************************************************************************)
(* Algebraic data types and enumerations.  An ADT class with its           *)
(* constructors, which are named tuples, becomes a domain: constructors,   *)
(* deconstructors, a type tag with a constant for each constructor, and    *)
(* axioms about them; its values are boxed into references, whose type is  *)
(* the class of the constructor.  What verifies is what holds in every     *)
(* interpretation of these axioms, so the model chooses interpretations.   *)
(*                                                                         *)
(* A task has name, and cons, a sequence of constructors with name and     *)
(* fields (name, typ): a field is a number, a value of the ADT itself or   *)
(* an object of a class C; names are sequences of words, which the code    *)
(* joins with underscores.  It also has the classes as they are written:   *)
(* super, body, and the name of their tuple.  A task about an enumeration  *)
(* has the values of its members.                                          *)
(***************************************************************************)
EXTENDS FrontEndTasks, Naturals, Sequences, SequencesExt, TLC

CONSTANTS AdtTasks,      \* sequence of sets of tasks
          Numbers,       \* values of the fields that are numbers
          AdtObjects,    \* of class C
          AdtElements,   \* of the domain, in an interpretation
          Refs           \* the references, in an interpretation

Adt == task.adt
Tags == DOMAIN Adt.cons
FieldsOf(c) == Adt.cons[c].fields
IsSelf(field) == field.typ = "self"

FieldTypes(c) == [i \in DOMAIN FieldsOf(c) |-> FieldsOf(c)[i].typ]

IsAdt(a) ==
  a.kind = "adt" =>
    \A i \in DOMAIN a.cons : \A j \in DOMAIN a.cons[i].fields : a.cons[i].fields[j].typ \in {"int", "self", "C"}

ASSUME AdtAssumption ==
  /\ \A i \in DOMAIN AdtTasks : \A a \in AdtTasks[i] : IsAdt(a)
  /\ AdtObjects # {}

-----------------------------------------------------------------------------
(* Analysis *)

\* A class of the hierarchy is either that of the ADT or a constructor of it.
WellFormed(cls) ==
  /\ cls.body \in {"pass", "doc"}
  /\ IF cls.tuple = None THEN cls.super = "ADT"
     ELSE cls.tuple = cls.name /\ cls.super # "ADT"

\* Each name is made unique once, by what it is made of.
DomainFunctions ==
  LET of(c, more) == Adt.name \o Adt.cons[c].name \o more
      Deconstructors(c) == [i \in DOMAIN FieldsOf(c) |-> of(c, FieldsOf(c)[i].name)]
  IN  FlattenSeq([c \in Tags |-> <<of(c, <<>>), of(c, <<"type">>), Adt.name \o <<"is">> \o Adt.cons[c].name>>
                                   \o Deconstructors(c)])
        \o <<Adt.name \o <<"cons", "type">>>>

-----------------------------------------------------------------------------
(* Axioms.  An interpretation I has const (a number for each constructor),   *)
(* ctype (cons_type of each element), is (the constructors whose is-function *)
(* holds), table (the constructor functions, where they are applied), decons *)
(* (the deconstructors); box, unbox and typeof.  The axioms about            *)
(* deconstructors are made for one constructor c at a time; d are its own    *)

ValuesOf(typ, elements) == [int |-> Numbers, self |-> elements, C |-> AdtObjects][typ]
ArgumentsOf(c, elements) ==
  {args \in [DOMAIN FieldsOf(c) -> Numbers \cup AdtObjects \cup elements] :
     \A i \in DOMAIN FieldsOf(c) : args[i] \in ValuesOf(FieldsOf(c)[i].typ, elements)}
Applications(elements) == UNION {{[c |-> c, args |-> args] : args \in ArgumentsOf(c, elements)} : c \in Tags}

\* The constant of a constructor type is unique.
ConstructorTypes(I) == \A c, d \in Tags : I.const[c] = I.const[d] => c = d
ConstrainConsType(I) == \A x \in DOMAIN I.ctype : \E c \in Tags : I.ctype[x] = I.const[c]
AssociateWithBool(I) ==
  \A x \in DOMAIN I.ctype : \A c \in Tags : (I.ctype[x] = I.const[c]) <=> (c \in I.is[x])

EqualityAxiom(I) ==
  \A t, u \in DOMAIN I.table : t.c = u.c => (I.table[t] = I.table[u] <=> t.args = u.args)
AssociateWithConst(I) == \A t \in DOMAIN I.table : I.ctype[I.table[t]] = I.const[t.c]

DeconstructorsOverConstructors(I, c, d) ==
  \A t \in DOMAIN I.table : t.c = c => d[I.table[t]] = t.args
DeconstructorTypes(c, d) ==
  \A x \in DOMAIN d : \A i \in DOMAIN FieldsOf(c) : FieldsOf(c)[i].typ = "C" => d[x][i] \in AdtObjects

\* Mutant: for every value.
OverAnyDeconstructors(I, c, d) ==
  FieldsOf(c) # <<>> =>
    \A x \in DOMAIN d : LET t == [c |-> c, args |-> d[x]]
                        IN  t \in DOMAIN I.table /\ I.table[t] = x
\* For the values of the constructor; and if it has fields.
ConstructorsOverDeconstructors(I, c, d) ==
  FieldsOf(c) # <<>> =>
    \A x \in DOMAIN d : c \in I.is[x] =>
      LET t == [c |-> c, args |-> d[x]]
      IN  t \in DOMAIN I.table /\ I.table[t] = x

AdtClass == 0
OtherClass == None
HasType(typ) == typ \in Tags \cup {AdtClass}
ConsAreSubclasses(I) == \A r \in DOMAIN I.typeof : HasType(I.typeof[r]) => I.typeof[r] \in Tags
UnboxOfBox(I) == \A x \in DOMAIN I.box : I.unbox[I.box[x]] = x
BoxFunction(I) ==
  \A x \in DOMAIN I.box :
    /\ HasType(I.typeof[I.box[x]])
    /\ \A c \in Tags : (c \in I.is[x]) <=> (I.typeof[I.box[x]] = c)
    /\ \A y \in DOMAIN I.box : (x = y) <=> (I.box[x] = I.box[y])
UnboxFunction(I) == \A r \in DOMAIN I.typeof : HasType(I.typeof[r]) => I.box[I.unbox[r]] = r

TypeAxioms(I) == ConstructorTypes(I) /\ ConstrainConsType(I) /\ AssociateWithBool(I)
TableAxioms(I) == EqualityAxiom(I) /\ AssociateWithConst(I)
DeconstructorAxioms(I, c, d) ==
  DeconstructorsOverConstructors(I, c, d) /\ DeconstructorTypes(c, d) /\ ConstructorsOverDeconstructors(I, c, d)
BoxAxioms(I) == ConsAreSubclasses(I) /\ BoxFunction(I)
UnboxAxioms(I) == UnboxOfBox(I) /\ UnboxFunction(I)

-----------------------------------------------------------------------------
(* Expressions: var, val, cons (its arguments are variables and values), the *)
(* field of a cast to a constructor, isinstance, eq.  An interpretation has  *)
(* the constructor functions for some arguments only                         *)

Operand(env, e) == IF e.op = "var" THEN env[e.n] ELSE e.v

\* Arguments of the type itself are unboxed.
Application(I, env, e) ==
  [c |-> e.c, args |-> [i \in DOMAIN FieldsOf(e.c) |->
     IF IsSelf(FieldsOf(e.c)[i]) THEN I.unbox[Operand(env, e.args[i])] ELSE Operand(env, e.args[i])]]
IsPresent(I, env, e) == e.op = "cons" => Application(I, env, e) \in DOMAIN I.table
TranslateCons(I, env, e) == I.box[I.table[Application(I, env, e)]]
TranslateDecons(I, r, c, i) ==
  LET v == I.decons[c][I.unbox[r]][i] IN IF IsSelf(FieldsOf(c)[i]) THEN I.box[v] ELSE v
\* For the same static type, an ADT.
TranslateValue(I, env, e) == IF e.op = "cons" THEN TranslateCons(I, env, e) ELSE Operand(env, e)
TranslateEquals(I, env, e) == TranslateValue(I, env, e.l) = TranslateValue(I, env, e.r)

\* In Python: tuples, which are equal if their elements are, whatever their class.
\* Values are nested twice, and the tuples made of them compared once deeper.
PyValues1 == Applications({})
PyValues2 == Applications(PyValues1)
PyValues3 == Applications(PyValues2)
PyValues4 == Applications(PyValues3)
SameTuple(v, w, Same(_, _)) ==
  /\ DOMAIN v.args = DOMAIN w.args
  /\ \A i \in DOMAIN v.args :
       /\ FieldsOf(v.c)[i].typ = FieldsOf(w.c)[i].typ
       /\ IF IsSelf(FieldsOf(v.c)[i]) THEN Same(v.args[i], w.args[i]) ELSE v.args[i] = w.args[i]
PyEqual1(v, w) == SameTuple(v, w, LAMBDA a, b : FALSE)
PyEqual2(v, w) == SameTuple(v, w, PyEqual1)
PyEqual3(v, w) == SameTuple(v, w, PyEqual2)
PyEqual(v, w) == SameTuple(v, w, PyEqual3)

PyCons(py, e) == [c |-> e.c, args |-> [i \in DOMAIN FieldsOf(e.c) |-> Operand(py, e.args[i])]]
PyValue(py, e) == IF e.op = "cons" THEN PyCons(py, e) ELSE Operand(py, e)
PyEquals(py, e) == PyEqual(PyValue(py, e.l), PyValue(py, e.r))

\* The value an element stands for is made of those its components stand for, m;
\* an element that is part of itself stands for none.
TagOf(I, x) == CHOOSE c \in Tags : c \in I.is[x]
Component(I, x, i) == I.decons[TagOf(I, x)][x][i]
Grounded(I, m) ==
  {x \in AdtElements : \A i \in DOMAIN FieldsOf(TagOf(I, x)) :
     IsSelf(FieldsOf(TagOf(I, x))[i]) => Component(I, x, i) \in DOMAIN m}
MadeOf(I, m) ==
  [x \in Grounded(I, m) |->
     [c |-> TagOf(I, x),
      args |-> [i \in DOMAIN FieldsOf(TagOf(I, x)) |->
                  IF IsSelf(FieldsOf(TagOf(I, x))[i]) THEN m[Component(I, x, i)] ELSE Component(I, x, i)]]]
NoMeaning == [x \in {} |-> None]
Meanings(I) == MadeOf(I, MadeOf(I, MadeOf(I, NoMeaning)))

\* The elements are Python's values, which are boxed as they are.
DefaultOf(c, elements) == [i \in DOMAIN FieldsOf(c) |-> CHOOSE v \in ValuesOf(FieldsOf(c)[i].typ, elements) : TRUE]
PythonsInterpretation ==
  LET elements == PyValues2
  IN  [const |-> [c \in Tags |-> c], ctype |-> [v \in elements |-> v.c], is |-> [v \in elements |-> {v.c}],
       table |-> [v \in elements |-> v],
       decons |-> [c \in Tags |-> [v \in elements |-> IF v.c = c THEN v.args ELSE DefaultOf(c, elements)]],
       box |-> [v \in elements |-> v], unbox |-> [v \in elements |-> v], typeof |-> [v \in elements |-> v.c]]

-----------------------------------------------------------------------------
(* An enumeration: box (of a value) and int (of a reference of its type)     *)

EnumBox(I) == \A v \in Adt.members : I.typeof[I.box[v]] = "enum" /\ I.int[I.box[v]] = v
EnumInt(I) == \A r \in Refs : I.typeof[r] = "enum" => I.int[r] \in Adt.members

-----------------------------------------------------------------------------

Uninterpreted == [const |-> None, ctype |-> None, is |-> None, table |-> None, decons |-> None,
                  box |-> None, unbox |-> None, typeof |-> None]

AdtInit == \E i \in DOMAIN AdtTasks : \E a \in AdtTasks[i] :
             task = [of |-> "adt", adt |-> a] /\ state = [at |-> "written", I |-> Uninterpreted]

IsAt(kind, at) == task.of = "adt" /\ Adt.kind = kind /\ state.at = at

\* An ADT without constructors is malformed; functions with the same name are
\* rejected by Viper.
CreateDomain ==
  /\ IsAt("adt", "written")
  /\ state' = [at |-> IF /\ Adt.cons # <<>> /\ \A i \in DOMAIN Adt.classes : WellFormed(Adt.classes[i])
                         /\ IsInjective(DomainFunctions)
                      THEN "translated" ELSE "rejected",
               I |-> Uninterpreted]
  /\ UNCHANGED task

InterpretTypes ==
  /\ IsAt("adt", "translated")
  /\ \E const \in [Tags -> Tags], ctype \in [AdtElements -> Tags] : \E is \in [AdtElements -> SUBSET Tags] :
       LET I == [state.I EXCEPT !.const = const, !.ctype = ctype, !.is = is]
       IN  TypeAxioms(I) /\ state' = [at |-> "typed", I |-> I]
  /\ UNCHANGED task

\* The interpretations of the deconstructors of c.
Deconstructors(I, c) == {d \in [AdtElements -> ArgumentsOf(c, AdtElements)] : DeconstructorAxioms(I, c, d)}

InterpretConstructors ==
  /\ IsAt("adt", "typed")
  /\ \E results \in [Applications(AdtElements) -> AdtElements \cup {None}] :
       LET applied == {t \in DOMAIN results : results[t] # None}
           T == [state.I EXCEPT !.table = [t \in applied |-> results[t]]]
       IN  /\ TableAxioms(T)
           /\ \E decons \in [Tags -> UNION {Deconstructors(T, c) : c \in Tags}] :
                /\ \A c \in Tags : decons[c] \in Deconstructors(T, c)
                /\ state' = [at |-> "constructed", I |-> [T EXCEPT !.decons = decons]]
  /\ UNCHANGED task

InterpretBoxes ==
  /\ IsAt("adt", "constructed")
  /\ \E typeof \in [Refs -> Tags \cup {AdtClass, OtherClass}], box \in [AdtElements -> Refs] :
       LET B == [state.I EXCEPT !.box = box, !.typeof = typeof]
       IN  /\ BoxAxioms(B)
           /\ \E unbox \in [Refs -> AdtElements] :
                LET I == [B EXCEPT !.unbox = unbox]
                IN  UnboxAxioms(I) /\ state' = [at |-> "interpreted", I |-> I]
  /\ UNCHANGED task

InterpretEnum ==
  /\ IsAt("enum", "written")
  /\ \E box \in [Adt.members -> Refs], int \in [Refs -> Adt.members \cup {None}], typeof \in [Refs -> {"enum", "other"}] :
       LET I == [box |-> box, int |-> int, typeof |-> typeof]
       IN  EnumBox(I) /\ EnumInt(I) /\ state' = [at |-> "interpreted", I |-> I]
  /\ UNCHANGED task

AdtNext == CreateDomain \/ InterpretTypes \/ InterpretConstructors \/ InterpretBoxes \/ InterpretEnum

AdtSpec == AdtInit /\ [][AdtNext]_vars

-----------------------------------------------------------------------------
(* Properties *)

Known == {"x", "y"}
VarExpr(n) == [op |-> "var", n |-> n]
ValExpr(v) == [op |-> "val", v |-> v]
\* Values of the constructors whose parts are variables, numbers and objects.
Atoms(f) == IF IsSelf(f) THEN {VarExpr(n) : n \in Known} ELSE {ValExpr(v) : v \in ValuesOf(f.typ, {})}
AllAtoms == {VarExpr(n) : n \in Known} \cup {ValExpr(v) : v \in Numbers \cup AdtObjects}
ConsArguments(c) ==
  {args \in [DOMAIN FieldsOf(c) -> AllAtoms] : \A i \in DOMAIN FieldsOf(c) : args[i] \in Atoms(FieldsOf(c)[i])}
Constructions == UNION {{[op |-> "cons", c |-> c, args |-> args] : args \in ConsArguments(c)} : c \in Tags}
\* Two values of a constructor without fields are not known to be equal; and values of
\* two constructors with the same types of fields are equal in Python, as tuples.
Distinct == \A c, d \in Tags : FieldTypes(c) = FieldTypes(d) => c = d
Decided == Distinct /\ \A c \in Tags : FieldsOf(c) # <<>>
Comparisons ==
  {[op |-> "eq", l |-> l, r |-> r] : l \in Constructions \cup {VarExpr("x")}, r \in {VarExpr("x"), VarExpr("y")}}

MeaningOf(I, m, r) == m[I.unbox[r]]
HasMeaning(I, m, r) == I.unbox[r] \in DOMAIN m

ConstructsLikePython(I, m, env, py) ==
  \A e \in Constructions :
    (IsPresent(I, env, e) /\ HasMeaning(I, m, TranslateCons(I, env, e))) =>
      MeaningOf(I, m, TranslateCons(I, env, e)) = PyCons(py, e)
InspectsLikePython(I, m, env, py) ==
  \A n \in Known : \A c \in Tags :
    /\ (I.typeof[env[n]] = c) <=> (py[n].c = c)
    /\ py[n].c = c => \A i \in DOMAIN FieldsOf(c) :
         LET found == TranslateDecons(I, env[n], c, i)
         IN  IF IsSelf(FieldsOf(c)[i]) THEN HasMeaning(I, m, found) /\ py[n].args[i] = MeaningOf(I, m, found)
             ELSE py[n].args[i] = found
ComparesLikePython(I, env, py) ==
  \A e \in Comparisons : (Decided /\ IsPresent(I, env, e.l) /\ IsPresent(I, env, e.r)) =>
    (TranslateEquals(I, env, e) <=> PyEquals(py, e))

PythonIsAModel ==
  LET I == PythonsInterpretation
  IN  /\ TypeAxioms(I) /\ TableAxioms(I) /\ \A c \in Tags : DeconstructorAxioms(I, c, I.decons[c])
      /\ BoxAxioms(I) /\ UnboxAxioms(I)
      /\ Distinct => \A v, w \in DOMAIN I.is : PyEqual(v, w) => v = w

IsPythons(I, m) ==
  \A env \in [Known -> {r \in Refs : HasType(I.typeof[r]) /\ HasMeaning(I, m, r)}] :
    LET py == [n \in Known |-> MeaningOf(I, m, env[n])]
    IN  ConstructsLikePython(I, m, env, py) /\ InspectsLikePython(I, m, env, py) /\ ComparesLikePython(I, env, py)
EnumIsPythons(I) ==
  \A v, w \in Adt.members : ((I.box[v] = I.box[w]) <=> v = w) /\ ((I.int[I.box[v]] = w) <=> v = w)

\* The axioms of an algebraic data type hold of Python's named tuples, and wherever
\* they hold, also of values the program does not know, construction, isinstance,
\* the fields after a cast and equality are Python's: each value is of exactly one
\* constructor, and made of its fields.  A member of an enumeration is its value
\* (program.py create_adts_domains_and_functions, _create_enum_func_box_and_unbox).
AlgebraicTypesAreDecidedLikePython ==
  /\ IsAt("adt", "translated") => PythonIsAModel
  /\ IsAt("adt", "interpreted") => IsPythons(state.I, Meanings(state.I))
  /\ IsAt("enum", "interpreted") => EnumIsPythons(state.I)
=============================================================================
