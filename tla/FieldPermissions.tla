--------------------------- MODULE FieldPermissions ---------------------------
(***************************************************************************)
(* Fields of Python objects come into being when they are assigned and go  *)
(* when they are deleted.  In the encoding an object has a permission to   *)
(* each of its fields, or a may-set permission to create it, and contracts *)
(* pass both around.  The module translates contracts, constructors and    *)
(* field statements, verifies each method by itself, and runs verified     *)
(* programs as Python does.                                                *)
(*                                                                         *)
(* A program constructs an object of class cls and calls methods on it.    *)
(* Its methods are init, m and main, each with the types its receiver can  *)
(* have, pre, body and post; m has a parameter.                            *)
(*   statements: set (field f becomes e), del, read, call (with e), assert,*)
(*               if (the parameter is not 0)                               *)
(*   assertions: acc (field f, an amount), mayset, maycreate, and,         *)
(*               implies, pure                                             *)
(*   expressions: const, read, param, bound, eq, old, let, forall, exists  *)
(*                over a sequence of expressions, which may be old         *)
(*   amounts: num, div, mul, add, sub, wildcard                            *)
(***************************************************************************)
EXTENDS Naturals, Integers, Sequences, FiniteSets, SequencesExt

CONSTANTS FieldPrograms,    \* sequence of sets of [super, cls, methods]
          None

VARIABLES task,     \* a program
          state     \* the methods still to be verified, then what Python does

vars == <<task, state>>

Full == 8           \* a full permission, in units
Undefined == 99     \* of a read without permission
NotThere == 98      \* of a read of a field that does not exist
Values == {0, 1}

-----------------------------------------------------------------------------
(* Classes and fields *)

RECURSIVE Mentioned(_)
Mentioned(x) ==
  CASE x.op \in {"read", "set"}  -> {x.f} \cup (IF x.op = "set" THEN Mentioned(x.e) ELSE {})
    [] x.op = "acc"              -> {x.f}
    [] x.op \in {"old", "pure", "call", "assert"} -> Mentioned(x.e)
    [] x.op \in {"and", "implies", "eq", "let"} -> Mentioned(x.l) \cup Mentioned(x.r)
    [] x.op = "del"              -> {x.f}
    [] x.op = "if"               -> UNION {Mentioned(x.body[i]) : i \in DOMAIN x.body}
    [] x.op \in {"forall", "exists"} -> Mentioned(x.e) \cup UNION {Mentioned(x.dom[i]) : i \in DOMAIN x.dom}
    [] OTHER                     -> {}

MentionedBy(m) ==
  Mentioned(m.pre) \cup Mentioned(m.post) \cup UNION {Mentioned(m.body[i]) : i \in DOMAIN m.body}

\* An attribute adds a field to the class, or each class, its receiver has.
FieldsOf(p, c) ==
  UNION {MentionedBy(p.methods[n]) :
           n \in {n \in DOMAIN p.methods : c \in Range(p.methods[n].types)}}
Analyzed(p) == p @@ [fields |-> [c \in DOMAIN p.super |-> FieldsOf(p, c)]]

Above(p, c) == IF p.super[c] = None THEN {c} ELSE {c, p.super[c]}
IsSubtype(p, c, d) == d \in Above(p, c)

FieldIn(c, f) == [cls |-> c, name |-> f]

GetField(p, c, f) ==
  CASE f \in p.fields[c] -> FieldIn(c, f)
    [] f \notin p.fields[c] /\ p.super[c] # None /\ f \in p.fields[p.super[c]] -> FieldIn(p.super[c], f)
    [] OTHER -> None

Inherited(p, fld) ==
  IF p.super[fld.cls] = None THEN None ELSE GetField(p, p.super[fld.cls], fld.name)
ActualField(p, fld) == IF Inherited(p, fld) = None THEN fld ELSE Inherited(p, fld)
AllFields(p, c) ==
  {fld \in UNION {{FieldIn(d, f) : f \in p.fields[d]} : d \in Above(p, c)} : Inherited(p, fld) = None}

\* Subclasses come before their superclasses.
ToposortClasses(p, types) ==
  IF Len(types) = 2 /\ IsSubtype(p, types[2], types[1]) THEN <<types[2], types[1]>> ELSE types

\* The field of the first option that the receiver, an instance of c, is of; the last
\* one has no guard.
FieldThrough(p, types, c, f) ==
  LET sorted == ToposortClasses(p, types)
      guards == {i \in DOMAIN sorted : i = Len(sorted) \/ IsSubtype(p, c, sorted[i])}
      first == CHOOSE i \in guards : \A j \in guards : i <= j
  IN  ActualField(p, GetField(p, sorted[first], f))

\* For a union: of the class all options have in common.
CommonClass(p, types) ==
  CASE Len(types) = 1 -> types[1]
    [] Len(types) = 2 /\ IsSubtype(p, types[1], types[2]) -> types[2]
    [] Len(types) = 2 /\ IsSubtype(p, types[2], types[1]) -> types[1]
    [] OTHER -> None
MaySetField(p, types, f) ==
  IF CommonClass(p, types) = None THEN None ELSE GetField(p, CommonClass(p, types), f)

-----------------------------------------------------------------------------
(* Amounts: integers and permissions are kept apart *)

IntOf(n) == [typ |-> "Int", q |-> n]
Perm(q) == [typ |-> "Perm", q |-> q]
NoAmount == [typ |-> "none"]

RECURSIVE TranslatePerm(_)
TranslatePerm(a) ==
  LET OrInt(x) == IF x.op = "num" THEN IntOf(x.n) ELSE TranslatePerm(x)
      PermMul(l, r) == Perm(l.q * r.q)
      IntPermMul(n, q) == Perm(n.q * q.q)
  IN  CASE a.op = "num" -> IF a.n = 1 THEN Perm(Full) ELSE NoAmount
        [] a.op = "div" -> LET l == OrInt(a.l)
                           IN  IF l = NoAmount THEN l
                               ELSE Perm((IF l.typ = "Int" THEN l.q * Full ELSE l.q) \div a.r.n)
        [] a.op = "mul" -> LET l == OrInt(a.l)
                               r == OrInt(a.r)
                           IN  CASE NoAmount \in {l, r} -> NoAmount
                                 [] l.typ = "Int" /\ r.typ = "Int" -> IntOf(l.q * r.q)
                                 [] l.typ = "Int" /\ r.typ = "Perm" -> IntPermMul(l, r)
                                 [] l.typ = "Perm" /\ r.typ = "Int" -> IntPermMul(r, l)
                                 [] OTHER -> Perm((l.q * r.q) \div Full)
        [] a.op \in {"add", "sub"} ->
             LET l == TranslatePerm(a.l)
                 r == TranslatePerm(a.r)
             IN  IF NoAmount \in {l, r} THEN NoAmount
                 ELSE Perm(IF a.op = "add" THEN l.q + r.q ELSE l.q - r.q)

-----------------------------------------------------------------------------
(* Contracts, in a state of Viper: perm and val of each field, may (the    *)
(* may-set permissions), cls of the receiver, par, bound, old              *)

Failed == [failed |-> TRUE]
IsFailed(s) == "failed" \in DOMAIN s

RECURSIVE Eval(_, _, _, _)

\* The permissions of the old state count, too.
EvalOld(p, types, e, s) == Eval(p, types, e.e, [s EXCEPT !.perm = s.old.perm, !.val = s.old.val])

Quantifier(op, bodies) ==
  CASE Undefined \in bodies -> Undefined
    [] op = "forall" /\ Undefined \notin bodies -> IF 0 \in bodies THEN 0 ELSE 1
    [] op = "exists" /\ Undefined \notin bodies -> IF 1 \in bodies THEN 1 ELSE 0

\* The domain may be that of the old state.
Elements(p, types, e, s) ==
  [i \in DOMAIN e.dom |-> IF e.isold THEN EvalOld(p, types, [e |-> e.dom[i]], s)
                          ELSE Eval(p, types, e.dom[i], s)]

Eval(p, types, e, s) ==
  LET E(x) == Eval(p, types, x, s)
      With(v) == [s EXCEPT !.bound = v]
  IN  CASE e.op = "const" -> e.v
        [] e.op = "param" -> s.par
        [] e.op = "bound" -> s.bound
        [] e.op = "read"  -> LET fld == FieldThrough(p, types, s.cls, e.f)
                             IN  IF s.perm[fld] > 0 THEN s.val[fld] ELSE Undefined
        [] e.op = "eq"    -> IF Undefined \in {E(e.l), E(e.r)} THEN Undefined
                             ELSE IF E(e.l) = E(e.r) THEN 1 ELSE 0
        [] e.op = "old"   -> EvalOld(p, types, e, s)
        [] e.op = "let"   -> IF E(e.l) = Undefined THEN Undefined ELSE Eval(p, types, e.r, With(E(e.l)))
        [] e.op \in {"forall", "exists"} ->
             LET elements == Elements(p, types, e, s)
                 bodies == {Eval(p, types, e.e, With(elements[i])) : i \in DOMAIN elements}
             IN  IF Undefined \in Range(elements) THEN Undefined ELSE Quantifier(e.op, bodies)

\* A permission to a field whose value was not known.
InhaleAcc(s, fld, q) ==
  IF s.perm[fld] + q > Full THEN {}
  ELSE {[s EXCEPT !.perm[fld] = s.perm[fld] + q, !.val[fld] = v] :
           v \in IF s.perm[fld] = 0 THEN Values ELSE {s.val[fld]}}
ExhaleAcc(s, fld, q) == IF s.perm[fld] < q THEN {Failed} ELSE {[s EXCEPT !.perm[fld] = @ - q]}
InhaleMay(s, fld) == {[s EXCEPT !.may[fld] = @ + 1]}
ExhaleMay(s, fld) == IF s.may[fld] = 0 THEN {Failed} ELSE {[s EXCEPT !.may[fld] = @ - 1]}

AmountOf(a) == TranslatePerm(a.amount).q

RECURSIVE Inhale(_, _, _, _)
Inhale(p, types, a, s) ==
  IF IsFailed(s) THEN {s} ELSE
  CASE a.op = "acc" /\ a.amount.op # "wildcard" ->
         InhaleAcc(s, FieldThrough(p, types, s.cls, a.f), AmountOf(a))
    [] a.op = "acc" /\ a.amount.op = "wildcard" -> InhaleAcc(s, FieldThrough(p, types, s.cls, a.f), 1)
    [] a.op = "mayset"    -> InhaleAcc(s, MaySetField(p, types, a.f), Full)
                               \cup InhaleMay(s, MaySetField(p, types, a.f))
    [] a.op = "maycreate" -> InhaleMay(s, MaySetField(p, types, a.f))
    [] a.op = "and"       -> UNION {Inhale(p, types, a.r, t) : t \in Inhale(p, types, a.l, s)}
    [] a.op = "implies"   -> (CASE Eval(p, types, a.l, s) = Undefined -> {Failed}
                                [] Eval(p, types, a.l, s) = 0 -> {s}
                                [] Eval(p, types, a.l, s) = 1 -> Inhale(p, types, a.r, s))
    [] a.op = "pure"      -> CASE Eval(p, types, a.e, s) = Undefined -> {Failed}
                               [] Eval(p, types, a.e, s) = 0 -> {}
                               [] Eval(p, types, a.e, s) = 1 -> {s}

\* Values are those before the exhale, s0.
RECURSIVE Exhale(_, _, _, _, _)
Exhale(p, types, a, s0, s) ==
  IF IsFailed(s) THEN {s} ELSE
  CASE a.op = "acc" /\ a.amount.op # "wildcard" ->
         ExhaleAcc(s, FieldThrough(p, types, s.cls, a.f), AmountOf(a))
    [] a.op = "acc" /\ a.amount.op = "wildcard" ->
         LET fld == FieldThrough(p, types, s.cls, a.f)
         IN  IF s.perm[fld] = 0 THEN {Failed} ELSE ExhaleAcc(s, fld, IF s.perm[fld] = 1 THEN 0 ELSE 1)
    [] a.op = "mayset" -> LET fld == MaySetField(p, types, a.f)
                          IN  IF s.perm[fld] > 0 THEN ExhaleAcc(s, fld, Full) ELSE ExhaleMay(s, fld)
    [] a.op = "maycreate" -> ExhaleMay(s, MaySetField(p, types, a.f))
    [] a.op = "and"       -> UNION {Exhale(p, types, a.r, s0, t) : t \in Exhale(p, types, a.l, s0, s)}
    [] a.op = "implies"   -> (CASE Eval(p, types, a.l, s0) = Undefined -> {Failed}
                                [] Eval(p, types, a.l, s0) = 0 -> {s}
                                [] Eval(p, types, a.l, s0) = 1 -> Exhale(p, types, a.r, s0, s))
    [] a.op = "pure"      -> IF Eval(p, types, a.e, s0) = 1 THEN {s} ELSE {Failed}

-----------------------------------------------------------------------------
(* Statements *)

\* Mutant: the permission to create the field is kept.
KeepsMaySet(s, fld) == IF s.may[fld] = 0 THEN {s} ELSE InhaleAcc(s, fld, Full)

\* A permission to create the field turns into one to the field.
CreateNewFieldPermission(s, fld) ==
  IF s.may[fld] = 0 THEN {s} ELSE UNION {InhaleAcc(t, fld, Full) : t \in ExhaleMay(s, fld)}

AssignField(s, fld, v) ==
  UNION {IF v = Undefined \/ t.perm[fld] < Full THEN {Failed} ELSE {[t EXCEPT !.val[fld] = v]} :
           t \in CreateNewFieldPermission(s, fld)}

DeleteField(s, fld) ==
  UNION {IF IsFailed(t) THEN {t} ELSE InhaleMay(t, fld) : t \in ExhaleAcc(s, fld, Full)}

\* The caller keeps what it knows of fields it has some permission to.
CallMethod(p, m, types, v, s) ==
  LET called == [s EXCEPT !.par = v, !.old = [perm |-> s.perm, val |-> s.val]]
      returned == UNION {Inhale(p, m.types, m.post, t) : t \in Exhale(p, m.types, m.pre, called, called)}
  IN  IF v = Undefined THEN {Failed}
      ELSE {IF IsFailed(t) THEN t ELSE [t EXCEPT !.par = s.par, !.old = s.old] : t \in returned}

RECURSIVE Translate(_, _, _, _), TranslateBody(_, _, _, _)
Translate(p, types, stmt, s) ==
  IF IsFailed(s) THEN {s} ELSE
  CASE stmt.op = "set" ->
         AssignField(s, FieldThrough(p, types, s.cls, stmt.f), Eval(p, types, stmt.e, s))
    [] stmt.op = "del" -> DeleteField(s, GetField(p, types[1], stmt.f))
    [] stmt.op = "read" -> IF Eval(p, types, stmt, s) = Undefined THEN {Failed} ELSE {s}
    [] stmt.op = "assert" -> IF Failed \in Exhale(p, types, stmt.e, s, s) THEN {Failed} ELSE {s}
    [] stmt.op = "call" -> CallMethod(p, p.methods["m"], types, Eval(p, types, stmt.e, s), s)
    [] stmt.op = "if" -> IF s.par = 0 THEN {s} ELSE TranslateBody(p, types, stmt.body, s)
TranslateBody(p, types, body, s) ==
  FoldLeft(LAMBDA S, stmt : UNION {Translate(p, types, stmt, t) : t \in S}, {s}, body)

-----------------------------------------------------------------------------
(* Verification of a method *)

\* What the encoding refuses.
RECURSIVE Valid(_, _, _)
Valid(p, types, a) ==
  CASE a.op = "acc" -> a.amount.op = "wildcard" \/ (TranslatePerm(a.amount).typ = "Perm" /\ AmountOf(a) > 0)
    [] a.op \in {"and", "implies"} -> (a.op = "implies" \/ Valid(p, types, a.l)) /\ Valid(p, types, a.r)
    [] a.op = "maycreate" -> MaySetField(p, types, a.f) # None
    [] a.op = "mayset" -> /\ MaySetField(p, types, a.f) # None
                          /\ Inherited(p, MaySetField(p, types, a.f)) = None
    [] OTHER -> TRUE
RECURSIVE ValidBody(_, _, _)
ValidBody(p, types, body) ==
  \A i \in DOMAIN body :
    CASE body[i].op = "del" -> Len(types) = 1 /\ Inherited(p, GetField(p, types[1], body[i].f)) = None
      [] body[i].op = "assert" -> Valid(p, types, body[i].e)
      [] body[i].op = "if" -> ValidBody(p, types, body[i].body)
      [] OTHER -> TRUE

Locations(p) == {FieldIn(c, f) : c \in DOMAIN p.super, f \in UNION Range(p.fields)}
Nothing(p) == [fld \in Locations(p) |-> 0]
NewState(p, c, v) ==
  [perm |-> Nothing(p), val |-> Nothing(p), may |-> Nothing(p), cls |-> c, par |-> v, bound |-> 0,
   old |-> [perm |-> Nothing(p), val |-> Nothing(p)]]

\* Before __init__, which has them as preconditions.
MaySetAll(p, c, s) ==
  [s EXCEPT !.may = [fld \in DOMAIN s.may |-> IF fld \in AllFields(p, c) THEN 1 ELSE 0]]

AtOld(s) == IF IsFailed(s) THEN s ELSE [s EXCEPT !.old = [perm |-> s.perm, val |-> s.val]]

\* ... which the constructor gives to a new object, and __init__ takes.
ConstructorCall(p, s) ==
  LET init == p.methods["init"]
      given == MaySetAll(p, p.cls, s)
      taken == FoldLeft(LAMBDA S, fld : UNION {ExhaleMay(t, fld) : t \in S}, {given},
                        SetToSeq(AllFields(p, p.cls)))
  IN  UNION {CallMethod(p, init, init.types, s.par, t) : t \in taken}

\* A method is verified for every class its receiver can have.
Starts(p, n) ==
  LET m == p.methods[n]
      classes == {c \in DOMAIN p.super : \E i \in DOMAIN m.types : IsSubtype(p, c, m.types[i])}
      fresh == {NewState(p, c, v) : c \in IF n = "main" THEN {p.cls} ELSE classes, v \in Values}
  IN  CASE n = "init" -> {AtOld(MaySetAll(p, p.cls, s)) : s \in fresh}
        [] n = "m"    -> {AtOld(t) : t \in UNION {Inhale(p, m.types, m.pre, s) : s \in fresh}}
        [] n = "main" -> UNION {ConstructorCall(p, s) : s \in fresh}

MethodVerifies(p, n) ==
  LET m == p.methods[n]
  IN  /\ ValidBody(p, m.types, m.body) /\ Valid(p, m.types, m.pre) /\ Valid(p, m.types, m.post)
      /\ \A s \in Starts(p, n) : ~ IsFailed(s) /\
           \A t \in TranslateBody(p, m.types, m.body, s) :
             Failed \notin Exhale(p, m.types, m.post, t, t)

-----------------------------------------------------------------------------
(* Python: o gives the attributes an object has, NotThere for the others   *)

RECURSIVE ValueOf(_, _, _, _, _)
ValueOf(e, o, old, par, bound) ==
  LET V(x) == ValueOf(x, o, old, par, bound)
  IN  CASE e.op = "const" -> e.v
        [] e.op = "param" -> par
        [] e.op = "bound" -> bound
        [] e.op = "read"  -> o[e.f]
        [] e.op = "eq"    -> IF NotThere \in {V(e.l), V(e.r)} THEN NotThere
                             ELSE IF V(e.l) = V(e.r) THEN 1 ELSE 0
        [] e.op = "old"   -> ValueOf(e.e, old, old, par, bound)
        [] e.op = "let"   -> ValueOf(e.r, o, old, par, V(e.l))
        [] e.op \in {"forall", "exists"} ->
             LET domain == {ValueOf(e.dom[i], IF e.isold THEN old ELSE o, old, par, bound) : i \in DOMAIN e.dom}
                 bodies == {ValueOf(e.e, o, old, par, d) : d \in domain}
             IN  CASE NotThere \in domain \cup bodies -> NotThere
                   [] e.op = "forall" -> IF 0 \in bodies THEN 0 ELSE 1
                   [] e.op = "exists" -> IF 1 \in bodies THEN 1 ELSE 0

\* What an assertion says: a field is there, or is not there yet.
RECURSIVE Says(_, _, _, _)
Says(a, o, old, par) ==
  CASE a.op = "acc"       -> o[a.f] # NotThere
    [] a.op = "maycreate" -> o[a.f] = NotThere
    [] a.op = "mayset"    -> TRUE
    [] a.op = "and"       -> Says(a.l, o, old, par) /\ Says(a.r, o, old, par)
    [] a.op = "implies"   -> ValueOf(a.l, o, old, par, 0) # 0 => Says(a.r, o, old, par)
    [] a.op = "pure"      -> ValueOf(a.e, o, old, par, 0) = 1

\* An object, or what went wrong.
Wrong == [wrong |-> TRUE]
RECURSIVE Run(_, _, _, _, _), RunBody(_, _, _, _, _)
Run(p, stmt, o, old, par) ==
  CASE stmt.op = "set" -> LET v == ValueOf(stmt.e, o, old, par, 0)
                          IN  IF v = NotThere THEN Wrong ELSE [o EXCEPT ![stmt.f] = v]
    [] stmt.op = "del" -> IF o[stmt.f] = NotThere THEN Wrong ELSE [o EXCEPT ![stmt.f] = NotThere]
    [] stmt.op = "read" -> IF o[stmt.f] = NotThere THEN Wrong ELSE o
    [] stmt.op = "assert" -> IF Says(stmt.e, o, old, par) THEN o ELSE Wrong
    [] stmt.op = "if" -> IF par = 0 THEN o ELSE FoldLeft(LAMBDA x, s : IF x = Wrong THEN x ELSE Run(p, s, x, old, par), o, stmt.body)
    [] stmt.op = "call" -> LET v == ValueOf(stmt.e, o, old, par, 0)
                           IN  IF v = NotThere \/ ~ Says(p.methods["m"].pre, o, o, v) THEN Wrong
                               ELSE RunBody(p, p.methods["m"].body, o, v, p.methods["m"].post)
RunBody(p, body, o, par, post) ==
  LET end == FoldLeft(LAMBDA x, stmt : IF x = Wrong THEN Wrong ELSE Run(p, stmt, x, o, par), o, body)
  IN  IF end = Wrong \/ post = None THEN end
      ELSE IF Says(post, end, o, par) THEN end ELSE Wrong

RunMain(p, par) ==
  LET init == RunBody(p, p.methods["init"].body, [f \in UNION Range(p.fields) |-> NotThere], par,
                      p.methods["init"].post)
  IN  IF init = Wrong THEN Wrong ELSE RunBody(p, p.methods["main"].body, init, par, None)

-----------------------------------------------------------------------------

Init == \E i \in DOMAIN FieldPrograms : \E p \in FieldPrograms[i] :
          task = [of |-> "fields", program |-> p] /\ state = [at |-> "analyze"]

Analyze ==
  /\ task.of = "fields" /\ state.at = "analyze"
  /\ state' = [at |-> "verify", program |-> Analyzed(task.program), methods |-> <<"init", "m", "main">>]
  /\ UNCHANGED task

VerifyMethod ==
  /\ task.of = "fields" /\ state.at = "verify" /\ state.methods # <<>>
  /\ state' = IF MethodVerifies(state.program, Head(state.methods))
              THEN [state EXCEPT !.methods = Tail(@)] ELSE [at |-> "rejected"]
  /\ UNCHANGED task

RunVerified ==
  /\ task.of = "fields" /\ state.at = "verify" /\ state.methods = <<>>
  /\ state' = [at |-> "done", wrong |-> \E par \in Values : RunMain(state.program, par) = Wrong]
  /\ UNCHANGED task

Next == Analyze \/ VerifyMethod \/ RunVerified

Spec == Init /\ [][Next]_vars

-----------------------------------------------------------------------------
(* Properties *)

\* A verified program reads and deletes only fields that are there, and each of its
\* contracts and assertions is true when it is reached: the permissions a constructor
\* is given, those assignments and del turn into each other, and those that contracts
\* pass on never add up to a field that was not created (statement.py
\* create_new_field_permission, contract.py translate_may_set, translate_old).
FieldsAreThere == (task.of = "fields" /\ state.at = "done") => ~ state.wrong
=============================================================================
