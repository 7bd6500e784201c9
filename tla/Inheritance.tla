----------------------------- MODULE Inheritance -----------------------------
(***************************************************************************)
(* Calls are verified against the contract of the method the receiver's    *)
(* static class has; Python calls the one of its dynamic class.  The       *)
(* translator bridges the two with checks: each method against its own     *)
(* contract, for a receiver of exactly its class; each inherited method    *)
(* again, inlined, for a receiver of exactly the inheriting class; each    *)
(* overriding method's contract against that of the method it overrides.   *)
(* A predicate of a class is a family: its body is the conjunction of the  *)
(* bodies in all classes of the receiver.                                  *)
(*                                                                         *)
(* Classes are numbered along a chain of superclasses.  A class has        *)
(* methods, the body of its predicate P (the set of allowed values of the  *)
(* field x) or None, and may have a class method that returns cls(a).      *)
(* A method has a contract: the arguments allowed, the permission needed   *)
(* and given back (none, field: that of x, pred: P), the results promised; *)
(* a default of its argument or None; and a body of statements             *)
(*    set v / setarg (x := v, x := argument), get / ret v (result),        *)
(*    fold / unfold (of P), call n, super (the same method of the class    *)
(*    above, with the same argument).                                      *)
(*                                                                         *)
(* Bodies are executed one statement at a time, by Viper in all states     *)
(* they can be in and by Python in one.  An activation is the execution of *)
(* a method n with an argument: at holds its position, a class and a       *)
(* statement, below those of the methods it has reached through super.     *)
(***************************************************************************)
EXTENDS FrontEndTasks, Integers, Sequences, SequencesExt

CONSTANT ClassHierarchies    \* sequence of sets of class sequences

FieldValues == {0, 1}

HasMethod(p, c, n) == n \in DOMAIN p[c].methods
HasPredicate(p, c) == p[c].inv # None

-----------------------------------------------------------------------------
(* Lookup *)

HasOrInherits(p, c, n) == \E d \in 1..c : HasMethod(p, d, n)

\* The class whose method n a class has.
DefiningClass(p, c, n) ==
  CHOOSE d \in 1..c : HasMethod(p, d, n) /\ \A e \in (d + 1)..c : ~ HasMethod(p, e, n)
FoundMethod(p, c, n) == p[DefiningClass(p, c, n)].methods[n]

HasClassMethod(p, c) == \E d \in 1..c : p[d].maker
AllMethods(p, c) == UNION {DOMAIN p[d].methods : d \in 1..c}

\* A member overrides what the direct superclass itself declares.
Overrides(p, c, n) == c > 1 /\ HasMethod(p, c - 1, n)

-----------------------------------------------------------------------------
(* The predicate family *)

\* A use of P stands for the family of the topmost class that has it.
InFamily(p, c) == \E d \in 1..c : HasPredicate(p, d)
Members(p) ==
  {c \in DOMAIN p : HasPredicate(p, c) /\ \A d \in 1..c : InFamily(p, d) => HasPredicate(p, d)}

\* What the body says of x for a receiver of exactly this type.
BodyFor(p, type) ==
  {v \in FieldValues : \A c \in Members(p) : type >= c => v \in p[c].inv}

\* For a type that is none of the members the body has a part no one can fold.
HasAbstractRest(p, type) == type \notin Members(p)

-----------------------------------------------------------------------------
(* Positions in the methods of a class and those above it *)

BodyOf(p, a) == p[Last(a.at).code].methods[a.n].body
BodyEnds(p, a) == Last(a.at).pc > Len(BodyOf(p, a))
Finished(p, a) == Len(a.at) = 1 /\ BodyEnds(p, a)
Statement(p, a) == BodyOf(p, a)[Last(a.at).pc]

StartOf(c) == [code |-> c, pc |-> 1]
NextStatement(a) == [a.at EXCEPT ![Len(a.at)].pc = @ + 1]
EnteredSuper(p, a) ==
  Append(NextStatement(a), StartOf(DefiningClass(p, Last(a.at).code - 1, a.n)))

\* The method whose contract an activation keeps.
MethodOf(p, a) == p[a.at[1].code].methods[a.n]

-----------------------------------------------------------------------------
(* Verification: an activation for a receiver of exactly one type, and a   *)
(* state that its Viper program can be in                                  *)

Start(x, hold) == [ok |-> TRUE, x |-> x, res |-> None, hold |-> hold]
Failure == [Start(None, {}) EXCEPT !.ok = FALSE]
PermissionOf(need) == IF need = "none" THEN {} ELSE {need}

\* What the caller knows after a call: x is unknown where a permission for it was
\* given away.
Returned(m, s) ==
  {[ok |-> s.ok, x |-> x, res |-> r,
    hold |-> (s.hold \ PermissionOf(m.needs)) \cup PermissionOf(m.gives)] :
     r \in m.post, x \in IF m.needs = "none" THEN {s.x} ELSE FieldValues}

\* The contract of the static receiver's method.
CallContract(m, s, arg) ==
  IF arg \notin m.pre \/ ~ PermissionOf(m.needs) \subseteq s.hold THEN {Failure}
  ELSE Returned(m, s)

FoldPredicate(p, s, type) ==
  IF /\ "field" \in s.hold /\ s.x \in BodyFor(p, type)
     /\ HasAbstractRest(p, type) => "rest" \in s.hold
  THEN {[s EXCEPT !.hold = (@ \ {"field", "rest"}) \cup {"pred"}]} ELSE {Failure}

UnfoldPredicate(p, s, type) ==
  IF "pred" \notin s.hold THEN {Failure}
  ELSE {[s EXCEPT !.x = x, !.hold = (@ \ {"pred"}) \cup {"field"}
                                     \cup (IF HasAbstractRest(p, type) THEN {"rest"} ELSE {})] :
          x \in IF s.x \in BodyFor(p, type) THEN {s.x} ELSE BodyFor(p, type)}

SetField(s, v) ==
  IF s.hold \cap {"may", "field"} = {} THEN {Failure}
  ELSE {[s EXCEPT !.x = v, !.hold = (@ \ {"may"}) \cup {"field"}]}

\* Statically bound calls are inlined: their bodies fold and unfold the receiver's own P.
IgnoresFamilyFolds(a) == Len(a.at) > 1

TranslateStatement(p, a) ==
  LET st == Statement(p, a)
      s == a.s
  IN  CASE st.op = "set"    -> SetField(s, st.v)
        [] st.op = "setarg" -> SetField(s, a.arg)
        [] st.op = "get"    -> IF "field" \in s.hold THEN {[s EXCEPT !.res = s.x]} ELSE {Failure}
        [] st.op = "ret"    -> {[s EXCEPT !.res = st.v]}
        [] st.op = "fold"   -> IF IgnoresFamilyFolds(a) THEN {s} ELSE FoldPredicate(p, s, a.type)
        [] st.op = "unfold" -> IF IgnoresFamilyFolds(a) THEN {s} ELSE UnfoldPredicate(p, s, a.type)
        [] st.op = "call"   -> CallContract(FoundMethod(p, Last(a.at).code, st.n), s, a.arg)

\* The activations after one step; the body of super is inlined.
Successors(p, a) ==
  IF ~ a.s.ok \/ Finished(p, a) THEN {}
  ELSE IF BodyEnds(p, a) THEN {[a EXCEPT !.at = Front(@)]}
  ELSE IF Statement(p, a).op = "super" THEN {[a EXCEPT !.at = EnteredSuper(p, a), !.s.res = None]}
  ELSE {[a EXCEPT !.at = NextStatement(a), !.s = t] : t \in TranslateStatement(p, a)}

KeepsItsContract(p, a) ==
  LET m == MethodOf(p, a)
  IN  PermissionOf(m.gives) \subseteq a.s.hold /\ (a.n # "init" => a.s.res \in m.post)

Verifies(p, a) == a.s.ok /\ (Finished(p, a) => KeepsItsContract(p, a))

\* The states in which a body starts: __init__ may set the fields.  Without a
\* permission nothing is known of x, nor that it is there.
StartsOf(p, type, n, m) ==
  IF n = "init" THEN {Start(None, {"may"})}
  ELSE {Start(x, PermissionOf(m.needs)) :
          x \in CASE m.needs = "pred"  -> BodyFor(p, type)
                  [] m.needs = "field" -> FieldValues
                  [] m.needs = "none"  -> FieldValues \cup {None}}

\* The body of class code's n, for a receiver of a type.
BodyStarts(p, code, type, n) ==
  {[type |-> type, n |-> n, arg |-> arg, at |-> <<StartOf(code)>>, s |-> s] :
     arg \in p[code].methods[n].pre, s \in StartsOf(p, type, n, p[code].methods[n])}

\* Mutant: methods are verified for their own class only.
NoInheritChecks(p, c) == {}

\* Every method a class inherits is verified again for it, but for __init__.
InheritChecks(p, c) == {n \in AllMethods(p, c) \ {"init"} : ~ HasMethod(p, c, n)}

OwnBodies(p, c) == UNION {BodyStarts(p, c, c, n) : n \in DOMAIN p[c].methods}
InheritedBodies(p, c) ==
  UNION {BodyStarts(p, DefiningClass(p, c, n), c, n) : n \in InheritChecks(p, c)}
VerifiedBodies(p) == UNION {OwnBodies(p, c) \cup InheritedBodies(p, c) : c \in DOMAIN p}

\* Names and defaults of the arguments have to agree.
DefaultsMatch(m, overridden) == m.default = overridden.default

\* Under the precondition of the overridden method the overriding one is called,
\* which has to imply the postcondition of the overridden one.
Refines(m, overridden, n) ==
  LET left == PermissionOf(overridden.needs) \ PermissionOf(m.needs)
  IN  /\ DefaultsMatch(m, overridden)
      /\ overridden.pre \subseteq m.pre
      /\ PermissionOf(m.needs) \subseteq PermissionOf(overridden.needs)
      /\ PermissionOf(overridden.gives) \subseteq left \cup PermissionOf(m.gives)
      /\ n # "init" => m.post \subseteq overridden.post

\* A constructor is called through a superclass only by cls() in a class method.
OverrideChecks(p, c) ==
  {n \in DOMAIN p[c].methods :
     Overrides(p, c, n) /\ (n # "init" \/ HasClassMethod(p, c - 1))}

OverridesVerify(p) ==
  \A c \in DOMAIN p : \A n \in OverrideChecks(p, c) :
    Refines(p[c].methods[n], p[c - 1].methods[n], n)

-----------------------------------------------------------------------------
(* Python: activations on top of each other *)

\* The method is looked up in the class of the receiver.
Activation(p, type, n, arg) ==
  [n |-> n, at |-> <<StartOf(DefiningClass(p, type, n))>>,
   arg |-> IF arg = None THEN FoundMethod(p, type, n).default ELSE arg]

TopActivation == Last(state.stack)
MovedTo(stack, at) == [stack EXCEPT ![Len(stack)].at = at]
Goes(stack, x, res) == [state EXCEPT !.stack = stack, !.x = x, !.res = res]

\* P as the classes of the receiver state it.
Promised(p, type) ==
  {v \in FieldValues : \A c \in 1..type : HasPredicate(p, c) => v \in p[c].inv}

\* The calls a caller that only knows the contract m may make.
AllowedCalls(p, type, n, m) ==
  LET xs == IF n = "init" THEN {None}
            ELSE IF m.needs = "pred" THEN Promised(p, type) ELSE FieldValues
  IN  {[arg |-> arg, x |-> x] :
         arg \in m.pre \cup (IF m.default \in m.pre THEN {None} ELSE {}), x \in xs}

\* A constructor is called for a class by name, and through a class method.
Callers(p, type, n) ==
  {c \in 1..type : HasOrInherits(p, c, n) /\ (n = "init" => c = type \/ p[c].maker)}

-----------------------------------------------------------------------------

ClassesInit == \E i \in DOMAIN ClassHierarchies : \E p \in ClassHierarchies[i] :
  task = [of |-> "classes", program |-> p] /\ state = [at |-> "compare"]

At(label) == task.of = "classes" /\ state.at = label
Chain == task.program

CompareContracts ==
  /\ At("compare")
  /\ state' = IF OverridesVerify(Chain) THEN [at |-> "verify", open |-> VerifiedBodies(Chain)]
              ELSE [at |-> "rejected"]
  /\ UNCHANGED task

\* Viper executes all bodies, in all states they start in.
VerifyStep ==
  /\ At("verify") /\ state.open # {}
  /\ state' = IF \A a \in state.open : Verifies(Chain, a)
              THEN [state EXCEPT !.open = UNION {Successors(Chain, a) : a \in @}]
              ELSE [at |-> "rejected"]
  /\ UNCHANGED task

\* A receiver of any class, known by any class above it.
CallMethod ==
  /\ At("verify") /\ state.open = {}
  /\ \E type \in DOMAIN Chain : \E n \in AllMethods(Chain, type) :
       \E c \in Callers(Chain, type, n) :
         \E call \in AllowedCalls(Chain, type, n, FoundMethod(Chain, c, n)) :
           state' = [at |-> "run", type |-> type, n |-> n, call |-> call,
                     stack |-> <<Activation(Chain, type, n, call.arg)>>,
                     x |-> call.x, res |-> None, ok |-> TRUE]
  /\ UNCHANGED task

Running == At("run") /\ state.ok /\ state.stack # <<>>

Executed(p, a) ==
  LET st == Statement(p, a)
      next == MovedTo(state.stack, NextStatement(a))
  IN  CASE st.op = "set"    -> Goes(next, st.v, state.res)
        [] st.op = "setarg" -> Goes(next, a.arg, state.res)
        [] st.op = "get"    -> IF state.x = None THEN [state EXCEPT !.ok = FALSE]
                               ELSE Goes(next, state.x, state.x)
        [] st.op = "ret"    -> Goes(next, state.x, st.v)
        [] st.op \in {"fold", "unfold"} -> Goes(next, state.x, state.res)
        [] st.op = "call"   ->
             Goes(Append(state.stack, Activation(p, state.type, st.n, a.arg)), state.x, None)
        [] st.op = "super"  -> Goes(MovedTo(state.stack, EnteredSuper(p, a)), state.x, None)

RunStep ==
  /\ Running /\ ~ BodyEnds(Chain, TopActivation)
  /\ state' = Executed(Chain, TopActivation)
  /\ UNCHANGED task

ReturnFromSuper ==
  /\ Running /\ BodyEnds(Chain, TopActivation) /\ Len(TopActivation.at) > 1
  /\ state' = Goes(MovedTo(state.stack, Front(TopActivation.at)), state.x, state.res)
  /\ UNCHANGED task

\* The caller goes on behind its call.
Resumed(stack) ==
  IF stack = <<>> THEN stack
  ELSE MovedTo(stack, NextStatement(Last(stack)))

ReturnFromMethod ==
  /\ Running /\ Finished(Chain, TopActivation)
  /\ state' = Goes(Resumed(Front(state.stack)), state.x, state.res)
  /\ UNCHANGED task

ClassesNext ==
  CompareContracts \/ VerifyStep \/ CallMethod \/ RunStep \/ ReturnFromSuper \/ ReturnFromMethod

ClassesSpec == ClassesInit /\ [][ClassesNext]_vars

-----------------------------------------------------------------------------
(* Hierarchies                                                             *)

\* A statement of class c's method n.
IsStatement(p, c, n, st) ==
  /\ st.op \in {"set", "setarg", "get", "ret", "fold", "unfold", "call", "super"}
  /\ st.op = "set" => st.v \in FieldValues
  /\ st.op = "call" => st.n # "init" /\ HasOrInherits(p, c, st.n)
  /\ st.op = "super" => c > 1 /\ HasOrInherits(p, c - 1, n)

\* Only a constructor gives a permission without needing one: it creates the field.
IsMethod(p, c, n, m) ==
  /\ m.pre \subseteq FieldValues
  /\ {m.needs, m.gives} \subseteq {"none", "field", "pred"}
  /\ IF n = "init" THEN m.needs = "none" ELSE m.needs = "none" => m.gives = "none"
  /\ Len(m.body) \in Nat /\ \A i \in 1..Len(m.body) : IsStatement(p, c, n, m.body[i])

IsChain(p) ==
  /\ Len(p) \in Nat /\ DOMAIN p = 1..Len(p)
  /\ \A c \in DOMAIN p : \A n \in DOMAIN p[c].methods : IsMethod(p, c, n, p[c].methods[n])

ClassesAssumption ==
  /\ None \notin FieldValues
  /\ \A i \in DOMAIN ClassHierarchies : \A p \in ClassHierarchies[i] : IsChain(p)

\* No member overrides one of a class that is not the direct superclass.
NoGaps(p) ==
  \A c \in DOMAIN p : c > 1 =>
    /\ \A n \in DOMAIN p[c].methods : HasOrInherits(p, c - 1, n) => Overrides(p, c, n)
    /\ HasPredicate(p, c) /\ InFamily(p, c - 1) => HasPredicate(p, c - 1)

\* A class that adds to the predicate does not inherit its constructor.
OwnConstructors(p) ==
  \A c \in DOMAIN p : HasPredicate(p, c) /\ HasOrInherits(p, c, "init") => HasMethod(p, c, "init")

-----------------------------------------------------------------------------
(* Properties *)

\* When all generated checks verify, a receiver of any class keeps the contract
\* of every class above it: whichever method Python picks, inherited, overriding
\* or calling super, it accepts the allowed arguments and defaults, returns a
\* promised result, and leaves the object in the predicate of all its classes
\* (program.py create_override_check "to check behavioural subtyping").
SubclassesKeepContracts ==
  At("run") =>
    \A c \in Callers(Chain, state.type, state.n) :
      LET m == FoundMethod(Chain, c, state.n)
      IN  state.call \in AllowedCalls(Chain, state.type, state.n, m) =>
            /\ state.ok
            /\ state.stack = <<>> =>
                 /\ m.gives = "pred" => state.x \in Promised(Chain, state.type)
                 /\ state.n # "init" => state.res \in m.post
=============================================================================
