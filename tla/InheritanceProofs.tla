-------------------------- MODULE InheritanceProofs --------------------------
(***************************************************************************)
(* That the checks of inheritance are enough: behavioural subtyping, for   *)
(* every chain of classes, however long, whatever its contracts,           *)
(* predicates and bodies, recursive ones included. The verification        *)
(* executes each body on its own and knows calls by their contracts only;  *)
(* Python executes them on top of each other, in the methods of the        *)
(* receiver's class. The proof relates the two: whatever Python's stack,   *)
(* its frames are those of activations the verification went through.      *)
(***************************************************************************)
EXTENDS Inheritance, SequenceTheorems, FiniteSetTheorems, WellFoundedInduction, TLAPS

-----------------------------------------------------------------------------
(* Natural numbers *)

\* Every set of natural numbers has a smallest one: inclusion is well-founded on
\* the finite sets 1..k.
LEMMA SmallestOf ==
  ASSUME NEW S \in SUBSET Nat, S # {}
  PROVE  \E m \in S : \A k \in S : m =< k
<1> DEFINE sets == {1..k : k \in S}
<1>1. sets \subseteq FiniteSubsetsOf(Nat) /\ sets # {}
  <2>1. \A k \in S : 1..k \in SUBSET Nat /\ IsFiniteSet(1..k)
    BY FS_Interval
  <2> QED
    BY <2>1 DEF FiniteSubsetsOf
<1>2. IsWellFoundedOn(StrictSubsetOrdering(Nat), FiniteSubsetsOf(Nat))
  BY FS_StrictSubsetOrderingWellFounded
<1>3. PICK x \in sets : \A y \in sets : ~ (<<y, x>> \in StrictSubsetOrdering(Nat))
  <2> HIDE DEF sets
  <2> QED
    BY <1>1, <1>2, WFMin
<1>4. PICK m \in S : x = 1..m
  OBVIOUS
<1>5. ASSUME NEW k \in S, k < m PROVE FALSE
  <2>1. 1..k \subseteq 1..m /\ m \in 1..m /\ m \notin 1..k
    BY <1>5
  <2>2. <<1..k, 1..m>> \in StrictSubsetOrdering(Nat)
    BY <2>1 DEF StrictSubsetOrdering
  <2> QED
    BY <1>3, <1>4, <2>2
<1> QED
  BY <1>5

\* A set of numbers up to c has a largest one.
LEMMA LargestOf ==
  ASSUME NEW c \in Nat, NEW S \in SUBSET (1..c), S # {}
  PROVE  \E m \in S : \A k \in S : k =< m
<1> DEFINE T == {d \in Nat : c - d \in S}
<1>1. \A k \in S : k \in Nat /\ k =< c /\ c - k \in Nat /\ c - (c - k) = k
  OBVIOUS
<1>2. \A k \in S : c - k \in T
  BY <1>1
<1>3. T # {}
  BY <1>2
<1>4. PICK d \in T : \A e \in T : d =< e
  <2> HIDE DEF T
  <2>1. T \in SUBSET Nat
    BY DEF T
  <2> QED BY <1>3, <2>1, SmallestOf
<1>5. \A k \in S : d =< c - k
  <2> HIDE DEF T
  <2> QED BY <1>2, <1>4
<1>6. c - d \in S /\ d \in Nat
  BY <1>4
<1>7. \A k \in S : k =< c - d
  BY <1>1, <1>5, <1>6
<1> QED
  BY <1>6, <1>7

-----------------------------------------------------------------------------
(* Lookup *)

\* The class whose method is found is the lowest one that has it.
LEMMA DefiningClassDefines ==
  ASSUME NEW p, NEW c \in Nat, NEW n, HasOrInherits(p, c, n)
  PROVE  /\ DefiningClass(p, c, n) \in 1..c
         /\ HasMethod(p, DefiningClass(p, c, n), n)
         /\ \A e \in (DefiningClass(p, c, n) + 1)..c : ~ HasMethod(p, e, n)
<1> DEFINE S == {d \in 1..c : HasMethod(p, d, n)}
<1>1. S \in SUBSET (1..c) /\ S # {}
  BY DEF HasOrInherits
<1>2. PICK m \in S : \A k \in S : k =< m
  <2> HIDE DEF S
  <2> QED BY <1>1, LargestOf
<1>3. m \in 1..c /\ HasMethod(p, m, n) /\ \A e \in (m + 1)..c : ~ HasMethod(p, e, n)
  BY <1>2
<1> QED
  BY <1>3 DEF DefiningClass

\* A class has the method of the class above it, or its own.
LEMMA LookupUnfolds ==
  ASSUME NEW p, NEW c \in Nat \ {0, 1}, NEW n, HasOrInherits(p, c, n)
  PROVE  IF HasMethod(p, c, n) THEN DefiningClass(p, c, n) = c
         ELSE /\ HasOrInherits(p, c - 1, n)
              /\ DefiningClass(p, c, n) = DefiningClass(p, c - 1, n)
<1>1. CASE HasMethod(p, c, n)
  BY <1>1, DefiningClassDefines
<1>2. CASE ~ HasMethod(p, c, n)
  <2>1. HasOrInherits(p, c - 1, n)
    BY <1>2 DEF HasOrInherits
  <2>2. c - 1 \in Nat
    OBVIOUS
  <2>3. /\ DefiningClass(p, c - 1, n) \in 1..(c - 1)
        /\ HasMethod(p, DefiningClass(p, c - 1, n), n)
        /\ \A e \in (DefiningClass(p, c - 1, n) + 1)..(c - 1) : ~ HasMethod(p, e, n)
    BY <2>1, <2>2, DefiningClassDefines
  <2>4. /\ DefiningClass(p, c, n) \in 1..c
        /\ HasMethod(p, DefiningClass(p, c, n), n)
        /\ \A e \in (DefiningClass(p, c, n) + 1)..c : ~ HasMethod(p, e, n)
    BY DefiningClassDefines
  <2> QED
    BY <1>2, <2>1, <2>3, <2>4
<1> QED
  BY <1>1, <1>2

\* What a class has, the classes below it have.
LEMMA InheritedFurther ==
  ASSUME NEW p, NEW c \in Nat, NEW d \in 1..c, NEW n, HasOrInherits(p, d, n)
  PROVE  HasOrInherits(p, c, n)
BY DEF HasOrInherits

-----------------------------------------------------------------------------
(* Contracts *)

\* The comparison of contracts is reflexive.
LEMMA RefinesItself == ASSUME NEW m, NEW n PROVE Refines(m, m, n)
BY DEF Refines, DefaultsMatch

\* The comparison of contracts is transitive.
LEMMA RefinesTransitively ==
  ASSUME NEW m, NEW l, NEW k, NEW n, Refines(m, l, n), Refines(l, k, n)
  PROVE  Refines(m, k, n)
BY DEF Refines, DefaultsMatch

\* A caller may make the call by the contract of class c.
Calls(p, c, type, n) ==
  c \in 1..type /\ type \in DOMAIN p /\ HasOrInherits(p, c, n)
    /\ (n = "init" => c = type \/ HasClassMethod(p, c))

\* Behavioural subtyping: the method of a class refines that of each class above,
\* since each override check compares neighbours.
LEMMA MethodsRefine ==
  ASSUME NEW p, IsChain(p), NoGaps(p), OverridesVerify(p),
         NEW type, NEW c, NEW n, Calls(p, c, type, n)
  PROVE  Refines(FoundMethod(p, type, n), FoundMethod(p, c, n), n)
<1> DEFINE Bad == {t \in DOMAIN p : /\ Calls(p, c, t, n) 
                                    /\ ~ Refines(FoundMethod(p, t, n), FoundMethod(p, c, n), n)}
<1>1. SUFFICES ASSUME Bad # {} PROVE FALSE
  BY DEF Calls
<1>2. Bad \in SUBSET Nat
  BY DEF IsChain
<1>3. PICK t \in Bad : \A u \in Bad : t =< u
  <2> HIDE DEF Bad
  <2> QED BY <1>1, <1>2, SmallestOf
<1>4. c \in Nat /\ t \in Nat /\ t \in DOMAIN p /\ c =< t /\ 1 =< c
  BY <1>2 DEF Calls
<1>5. c # t
  BY RefinesItself
<1>6. t - 1 \in DOMAIN p /\ t \in Nat \ {0, 1} /\ c \in 1..(t - 1)
  BY <1>4, <1>5 DEF IsChain
<1>7. HasOrInherits(p, c, n) /\ (n = "init" => HasClassMethod(p, c))
  BY <1>5 DEF Calls
<1>8. Refines(FoundMethod(p, t - 1, n), FoundMethod(p, c, n), n)
  <2>1. Calls(p, c, t - 1, n)
    BY <1>6, <1>7 DEF Calls
  <2> QED
    BY <1>3, <1>4, <1>6, <2>1
<1>9. HasOrInherits(p, t - 1, n) /\ HasOrInherits(p, t, n)
  BY <1>4, <1>6, <1>7, InheritedFurther
<1>10. CASE HasMethod(p, t, n)
  <2>1. n \in DOMAIN p[t].methods /\ Overrides(p, t, n) /\ HasMethod(p, t - 1, n)
    BY <1>4, <1>6, <1>9, <1>10 DEF NoGaps, HasMethod, Overrides
  <2>2. n = "init" => HasClassMethod(p, t - 1)
    BY <1>4, <1>6, <1>7 DEF HasClassMethod
  <2>3. Refines(p[t].methods[n], p[t - 1].methods[n], n)
    BY <1>4, <2>1, <2>2 DEF OverridesVerify, OverrideChecks
  <2>4. DefiningClass(p, t, n) = t /\ DefiningClass(p, t - 1, n) = t - 1
    <3>1. DefiningClass(p, t - 1, n) = t - 1
      <4>1. /\ DefiningClass(p, t - 1, n) \in 1..(t - 1)
            /\ \A e \in (DefiningClass(p, t - 1, n) + 1)..(t - 1) : ~ HasMethod(p, e, n)
        BY <1>4, <1>6, <1>9, DefiningClassDefines
      <4> QED BY <4>1, <2>1, <1>6
    <3> QED BY <1>6, <1>9, <1>10, <3>1, LookupUnfolds
  <2>5. Refines(FoundMethod(p, t, n), FoundMethod(p, t - 1, n), n)
    BY <2>3, <2>4 DEF FoundMethod
  <2> QED
    BY <1>8, <2>5, RefinesTransitively
<1>11. CASE ~ HasMethod(p, t, n)
  <2>1. DefiningClass(p, t, n) = DefiningClass(p, t - 1, n)
    BY <1>6, <1>9, <1>11, LookupUnfolds
  <2> QED
    BY <1>8, <2>1 DEF FoundMethod
<1> QED
  BY <1>10, <1>11

-----------------------------------------------------------------------------
(* Predicates *)

\* Without gaps the family has all classes that declare the predicate.
LEMMA FamilyIsComplete ==
  ASSUME NEW p, IsChain(p), NoGaps(p), NEW c \in DOMAIN p, HasPredicate(p, c)
  PROVE  c \in Members(p)
<1> SUFFICES ASSUME NEW d \in 1..c, InFamily(p, d), ~ HasPredicate(p, d) PROVE FALSE
  BY DEF Members
<1> DEFINE S == {e \in DOMAIN p : e >= d /\ HasPredicate(p, e)}
<1>1. S \in SUBSET Nat /\ S # {} /\ c \in Nat /\ d \in Nat /\ d =< c /\ d >= 1
  BY DEF IsChain
<1>2. PICK e \in S : \A k \in S : e =< k
  <2> HIDE DEF S
  <2> QED BY <1>1, SmallestOf
<1>3. e > d /\ e \in DOMAIN p /\ e \in Nat /\ HasPredicate(p, e)
  BY <1>1, <1>2
<1>4. InFamily(p, e - 1)
  BY <1>1, <1>3 DEF InFamily
<1>5. HasPredicate(p, e - 1)
  BY <1>1, <1>3, <1>4 DEF NoGaps
<1>6. e - 1 \in DOMAIN p
  BY <1>1, <1>3 DEF IsChain
<1> QED
  BY <1>1, <1>2, <1>3, <1>5, <1>6

LEMMA BodyIsPromised ==
  ASSUME NEW p, IsChain(p), NoGaps(p), NEW type \in DOMAIN p
  PROVE  BodyFor(p, type) = Promised(p, type)
<1>1. \A c \in 1..type : c \in DOMAIN p
  BY DEF IsChain
<1>2. \A c \in DOMAIN p : c \in Nat /\ c >= 1 /\ type \in Nat
  BY DEF IsChain
<1>3. \A c \in 1..type : HasPredicate(p, c) => c \in Members(p) /\ type >= c
  BY <1>1, <1>2, FamilyIsComplete
<1>4. \A c \in Members(p) : type >= c => c \in 1..type /\ HasPredicate(p, c)
  BY <1>2 DEF Members
<1> QED
  BY <1>3, <1>4 DEF BodyFor, Promised

\* A class that inherits its constructor adds nothing to the predicate.
LEMMA ConstructorsSuit ==
  ASSUME NEW p, IsChain(p), NoGaps(p), OwnConstructors(p),
         NEW type \in DOMAIN p, HasOrInherits(p, type, "init")
  PROVE  /\ DefiningClass(p, type, "init") \in DOMAIN p
         /\ BodyFor(p, DefiningClass(p, type, "init")) = BodyFor(p, type)
<1> DEFINE d == DefiningClass(p, type, "init")
<1>1. type \in Nat /\ type \in 1..Len(p) /\ DOMAIN p = 1..Len(p) /\ Len(p) \in Nat
  BY DEF IsChain
<1>2. d \in 1..type /\ \A e \in (d + 1)..type : ~ HasMethod(p, e, "init")
  BY <1>1, DefiningClassDefines
<1>3. HasMethod(p, d, "init")
  BY <1>1, DefiningClassDefines
<1> HIDE DEF d
<1>4. \A c \in (d + 1)..type : ~ HasPredicate(p, c)
  <2> TAKE c \in (d + 1)..type
  <2>1. c \in DOMAIN p /\ HasOrInherits(p, c, "init") /\ ~ HasMethod(p, c, "init")
    BY <1>1, <1>2, <1>3 DEF HasOrInherits
  <2> QED BY <2>1 DEF OwnConstructors
<1>5. d \in DOMAIN p
  BY <1>1, <1>2
<1>6. Promised(p, d) = Promised(p, type)
  BY <1>1, <1>2, <1>4 DEF Promised
<1> QED
  BY <1>5, <1>6, BodyIsPromised DEF d

-----------------------------------------------------------------------------
(* Positions *)

Positions == [code : Nat, pc : Nat]

\* Where an activation of n for a receiver of a type can be.
PlacedAt(p, type, n, at) ==
  /\ at \in Seq(Positions) /\ Len(at) >= 1
  /\ \A k \in 1..Len(at) : at[k].code \in 1..type /\ HasMethod(p, at[k].code, n) /\ at[k].pc >= 1

\* Where an activation stands: a class that has the method, at a statement or the
\* end.
LEMMA LastPosition ==
  ASSUME NEW p, NEW type, NEW n, NEW at, PlacedAt(p, type, n, at)
  PROVE  /\ Len(at) \in Nat /\ Last(at) = at[Len(at)] /\ Last(at) \in Positions
         /\ Last(at).code \in 1..type /\ HasMethod(p, Last(at).code, n) /\ Last(at).pc >= 1
         /\ at[1] \in Positions /\ at[1].code \in 1..type /\ HasMethod(p, at[1].code, n)
<1>1. Len(at) \in Nat /\ Len(at) >= 1 /\ at \in Seq(Positions)
  BY DEF PlacedAt
<1>2. Last(at) = at[Len(at)]
  BY DEF Last
<1>3. Len(at) \in 1..Len(at) /\ 1 \in 1..Len(at)
  BY <1>1
<1>4. \A k \in 1..Len(at) : at[k] \in Positions
  BY <1>1
<1> QED
  BY <1>1, <1>2, <1>3, <1>4 DEF PlacedAt

\* The statement an activation stands at is one of the class chain's.
LEMMA StatementsAreLegal ==
  ASSUME NEW p, IsChain(p), NEW type \in DOMAIN p, NEW a, PlacedAt(p, type, a.n, a.at),
         ~ BodyEnds(p, a)
  PROVE  IsStatement(p, Last(a.at).code, a.n, Statement(p, a))
<1> DEFINE c == Last(a.at).code
           m == p[c].methods[a.n]
<1>1. c \in DOMAIN p /\ a.n \in DOMAIN p[c].methods
  BY LastPosition DEF IsChain, HasMethod
<1>2. IsMethod(p, c, a.n, m)
  BY <1>1 DEF IsChain
<1>3. Last(a.at).pc \in 1..Len(m.body)
  <2>1. Len(m.body) \in Nat /\ ~ (Last(a.at).pc > Len(m.body))
    BY <1>2 DEF BodyEnds, BodyOf, IsMethod
  <2>2. Last(a.at).pc \in Nat /\ Last(a.at).pc >= 1
    BY LastPosition DEF Positions
  <2>3. \A k, l \in Nat : k >= 1 /\ ~ (k > l) => k \in 1..l
    OBVIOUS
  <2> QED
    BY <2>1, <2>2, <2>3
<1> QED
  BY <1>2, <1>3 DEF IsMethod, Statement, BodyOf

\* Going on to the next statement.
LEMMA NextIsPlaced ==
  ASSUME NEW p, NEW type, NEW a, PlacedAt(p, type, a.n, a.at)
  PROVE  /\ PlacedAt(p, type, a.n, NextStatement(a))
         /\ Len(NextStatement(a)) = Len(a.at)
         /\ NextStatement(a)[1].code = a.at[1].code
<1> DEFINE last == Len(a.at)
           q == a.at[last]
           r == [code |-> q.code, pc |-> q.pc + 1]
<1>1. a.at \in Seq(Positions) /\ last \in Nat /\ last >= 1 /\ last \in 1..last
  <2>1. a.at \in Seq(Positions) /\ last >= 1
    BY DEF PlacedAt
  <2>2. last \in Nat
    BY <2>1
  <2> QED BY <2>1, <2>2
<1>2. q \in Positions
  BY <1>1
<1>3. q = [code |-> q.code, pc |-> q.pc] /\ q.code \in Nat /\ q.pc \in Nat
  BY <1>2 DEF Positions
<1>4. r \in Positions /\ r.code = q.code /\ r.pc = q.pc + 1 /\ [q EXCEPT !.pc = q.pc + 1] = r
  BY <1>3 DEF Positions
<1>5. NextStatement(a) = [a.at EXCEPT ![last] = r]
  BY <1>4 DEF NextStatement
<1>6. \A k \in 1..last : a.at[k].code \in 1..type /\ HasMethod(p, a.at[k].code, a.n) /\ a.at[k].pc >= 1
  BY DEF PlacedAt
<1> DEFINE next == [a.at EXCEPT ![last] = r]
<1> HIDE DEF r, q
<1>7. next \in Seq(Positions) /\ Len(next) = last
  BY <1>1, <1>4
<1>8. \A k \in 1..last : next[k] = IF k = last THEN r ELSE a.at[k]
  BY <1>1
<1>9. q.code \in 1..type /\ HasMethod(p, q.code, a.n) /\ q.pc >= 1
  BY <1>1, <1>6 DEF q
<1>10. r.code \in 1..type /\ HasMethod(p, r.code, a.n) /\ r.pc >= 1
  BY <1>3, <1>4, <1>9
<1> HIDE DEF next
<1>11. \A k \in 1..last : next[k].code \in 1..type /\ HasMethod(p, next[k].code, a.n) /\ next[k].pc >= 1
  BY <1>6, <1>8, <1>10
<1>12. next[1].code = a.at[1].code
  BY <1>1, <1>4, <1>8 DEF q
<1> QED
  BY <1>1, <1>5, <1>7, <1>11, <1>12 DEF PlacedAt, next

\* Entering the method above through super.
LEMMA SuperIsPlaced ==
  ASSUME NEW p, IsChain(p), NEW type \in DOMAIN p, NEW a, PlacedAt(p, type, a.n, a.at),
         ~ BodyEnds(p, a), Statement(p, a).op = "super"
  PROVE  /\ PlacedAt(p, type, a.n, EnteredSuper(p, a))
         /\ Len(EnteredSuper(p, a)) = Len(a.at) + 1
         /\ EnteredSuper(p, a)[1].code = a.at[1].code
<1> DEFINE c == Last(a.at).code
           d == DefiningClass(p, c - 1, a.n)
           next == NextStatement(a)
<1>1. c > 1 /\ HasOrInherits(p, c - 1, a.n)
  BY StatementsAreLegal DEF IsStatement
<1>2. c \in 1..type /\ type \in Nat
  BY LastPosition DEF IsChain
<1>3. d \in 1..(c - 1) /\ HasMethod(p, d, a.n)
  BY <1>1, <1>2, DefiningClassDefines
<1>4. StartOf(d) \in Positions /\ StartOf(d).code = d /\ StartOf(d).pc = 1 /\ d \in 1..type
  BY <1>2, <1>3 DEF StartOf, Positions
<1>5. PlacedAt(p, type, a.n, next) /\ Len(next) = Len(a.at) /\ next[1].code = a.at[1].code
  BY NextIsPlaced
<1>6. EnteredSuper(p, a) = Append(next, StartOf(d))
  BY DEF EnteredSuper
<1> HIDE DEF next, d
<1>7. /\ Append(next, StartOf(d)) \in Seq(Positions)
      /\ Len(Append(next, StartOf(d))) = Len(next) + 1
      /\ Append(next, StartOf(d))[Len(next) + 1] = StartOf(d)
      /\ \A k \in 1..Len(next) : Append(next, StartOf(d))[k] = next[k]
      /\ Len(next) \in Nat /\ Len(next) >= 1
  BY <1>4, <1>5 DEF PlacedAt
<1> QED
  BY <1>3, <1>4, <1>5, <1>6, <1>7 DEF PlacedAt

\* Leaving a method entered through super.
LEMMA FrontIsPlaced ==
  ASSUME NEW p, NEW type, NEW n, NEW at, PlacedAt(p, type, n, at), Len(at) # 1
  PROVE  /\ PlacedAt(p, type, n, Front(at))
         /\ Front(at)[1].code = at[1].code
<1>1. at \in Seq(Positions) /\ Len(at) \in Nat /\ Len(at) > 1
  <2>1. at \in Seq(Positions) /\ Len(at) >= 1
    BY DEF PlacedAt
  <2>2. Len(at) \in Nat
    BY <2>1
  <2>3. \A k \in Nat : k # 1 /\ k >= 1 => k > 1
    OBVIOUS
  <2> QED BY <2>1, <2>2, <2>3
<1>2. /\ Front(at) \in Seq(Positions) /\ Len(Front(at)) = Len(at) - 1
      /\ \A k \in 1..(Len(at) - 1) : Front(at)[k] = at[k]
  BY <1>1 DEF Front
<1> QED
  BY <1>1, <1>2 DEF PlacedAt

-----------------------------------------------------------------------------
(* What the states that verification goes through have in common with      *)
(* Python's                                                                *)

\* All bodies verify, in all states of S, and nothing leads out of S.
Closed(p, S) ==
  /\ VerifiedBodies(p) \subseteq S
  /\ \A a \in S : Verifies(p, a) /\ Successors(p, a) \subseteq S

\* There is one permission for x; who has the field knows a value, who has P a
\* value that P allows.
HonestState(p, type, s) ==
  /\ s = [ok |-> s.ok, x |-> s.x, res |-> s.res, hold |-> s.hold]
  /\ s.ok
  /\ s.hold \subseteq {"may", "field", "pred", "rest"}
  /\ ~ ("may" \in s.hold /\ "field" \in s.hold)
  /\ ~ ("may" \in s.hold /\ "pred" \in s.hold)
  /\ ~ ("field" \in s.hold /\ "pred" \in s.hold)
  /\ s.x \in FieldValues \cup {None}
  /\ "field" \in s.hold => s.x \in FieldValues
  /\ "pred" \in s.hold => s.x \in BodyFor(p, type)

\* A method that needs no permission never gets one.
Poor(p, a) == a.n # "init" /\ MethodOf(p, a).needs = "none"

\* An activation of the verification that Python can be in, for a receiver of a type.
Honest(p, type, a) ==
  /\ a = [type |-> a.type, n |-> a.n, arg |-> a.arg, at |-> a.at, s |-> a.s]
  /\ BodyFor(p, a.type) = BodyFor(p, type)
  /\ a.arg \in FieldValues
  /\ PlacedAt(p, type, a.n, a.at)
  /\ HonestState(p, type, a.s)
  /\ Poor(p, a) => a.s.hold = {}

\* What a statement leaves of x and the result.
ValueAfter(a, st) == IF st.op = "set" THEN st.v ELSE IF st.op = "setarg" THEN a.arg ELSE a.s.x
ResultAfter(a, st) == IF st.op = "ret" THEN st.v ELSE IF st.op = "get" THEN a.s.x ELSE a.s.res

\* A state whose fields are changed, written as a record.
LEMMA OneFieldChanged ==
  ASSUME NEW s, s = [ok |-> s.ok, x |-> s.x, res |-> s.res, hold |-> s.hold], NEW w
  PROVE  /\ [s EXCEPT !.res = w] = [ok |-> s.ok, x |-> s.x, res |-> w, hold |-> s.hold]
         /\ [s EXCEPT !.hold = w] = [ok |-> s.ok, x |-> s.x, res |-> s.res, hold |-> w]
<1> DEFINE o == s.ok x == s.x r == s.res h == s.hold
<1>1. s = [ok |-> o, x |-> x, res |-> r, hold |-> h]
  OBVIOUS
<1> HIDE DEF o, x, r, h
<1>2. [s EXCEPT !.res = w] = [ok |-> o, x |-> x, res |-> w, hold |-> h]
  BY <1>1
<1>3. [s EXCEPT !.hold = w] = [ok |-> o, x |-> x, res |-> r, hold |-> w]
  BY <1>1
<1> QED BY <1>2, <1>3 DEF o, x, r, h

\* Updates of two fields of a verification state.
LEMMA TwoFieldsChanged ==
  ASSUME NEW s, s = [ok |-> s.ok, x |-> s.x, res |-> s.res, hold |-> s.hold], NEW v, NEW u
  PROVE  [s EXCEPT !.x = v, !.hold = u] = [ok |-> s.ok, x |-> v, res |-> s.res, hold |-> u]
<1> DEFINE o == s.ok x == s.x r == s.res h == s.hold t == [s EXCEPT !.x = v]
<1>1. s = [ok |-> o, x |-> x, res |-> r, hold |-> h]
  OBVIOUS
<1> HIDE DEF o, x, r, h
<1>2. t = [ok |-> o, x |-> v, res |-> r, hold |-> h]
  BY <1>1
<1> HIDE DEF t
<1>3. [t EXCEPT !.hold = u] = [ok |-> o, x |-> v, res |-> r, hold |-> u]
  BY <1>2
<1> QED BY <1>3 DEF o, x, r, h, t

\* The body of the predicate speaks of values of the field.
LEMMA BodiesHaveValues == ASSUME NEW p, NEW type PROVE BodyFor(p, type) \subseteq FieldValues
BY DEF BodyFor

\* A closed set has every state a translated statement leads to.
LEMMA TranslatedSuccessors ==
  ASSUME NEW p, NEW S, Closed(p, S), NEW a \in S, a.s.ok, ~ BodyEnds(p, a),
         Statement(p, a).op # "super", NEW t \in TranslateStatement(p, a)
  PROVE  [a EXCEPT !.at = NextStatement(a), !.s = t] \in S
<1>1. ~ Finished(p, a)
  BY DEF Finished
<1>2. [a EXCEPT !.at = NextStatement(a), !.s = t] \in Successors(p, a)
  BY <1>1 DEF Successors
<1> QED
  BY <1>2 DEF Closed

\* No statement of an activation in a closed set fails.
LEMMA TranslatedWell ==
  ASSUME NEW p, NEW S, Closed(p, S), NEW a \in S, a.s.ok, ~ BodyEnds(p, a),
         a = [type |-> a.type, n |-> a.n, arg |-> a.arg, at |-> a.at, s |-> a.s],
         Statement(p, a).op # "super"
  PROVE  Failure \notin TranslateStatement(p, a)
<1> SUFFICES ASSUME Failure \in TranslateStatement(p, a) PROVE FALSE
  OBVIOUS
<1> DEFINE b == [a EXCEPT !.at = NextStatement(a), !.s = Failure]
<1>1. b \in S
  BY TranslatedSuccessors
<1>2. b.s = Failure
  OBVIOUS
<1>3. b.s.ok
  BY <1>1 DEF Closed, Verifies
<1>4. ~ Failure.ok
  BY DEF Failure, Start
<1> QED
  BY <1>2, <1>3, <1>4

\* A statement that calls nothing takes some state of the verification along.
LEMMA StatementsMatch ==
  ASSUME ClassesAssumption, NEW p, IsChain(p), NEW type \in DOMAIN p, NEW S, Closed(p, S), NEW a \in S,
         Honest(p, type, a), ~ BodyEnds(p, a),
         NEW st, st = Statement(p, a), st.op \notin {"call", "super"}
  PROVE  \E t \in TranslateStatement(p, a) :
           /\ HonestState(p, type, t)
           /\ t.x = ValueAfter(a, st) /\ t.res = ResultAfter(a, st)
           /\ st.op = "get" => a.s.x # None
           /\ a.s.hold = {} => t.hold = {} /\ t.x = a.s.x
           /\ a.s.x \in FieldValues => t.x \in FieldValues
<1> DEFINE s == a.s
<1>1. IsStatement(p, Last(a.at).code, a.n, st)
  BY StatementsAreLegal DEF Honest
<1>2. Failure \notin TranslateStatement(p, a)
  BY TranslatedWell DEF Honest, HonestState
<1>3. HonestState(p, type, s) /\ a.arg \in FieldValues /\ BodyFor(p, a.type) = BodyFor(p, type)
  BY DEF Honest
<1>4. None \notin FieldValues
  BY DEF ClassesAssumption
<1>5. CASE st.op \in {"set", "setarg"}
  <2> DEFINE v == IF st.op = "set" THEN st.v ELSE a.arg
             t == [s EXCEPT !.x = v, !.hold = (@ \ {"may"}) \cup {"field"}]
  <2>1. TranslateStatement(p, a) = SetField(s, v) /\ v \in FieldValues
    BY <1>1, <1>3, <1>5 DEF TranslateStatement, IsStatement
  <2>2. s.hold \cap {"may", "field"} # {} /\ t \in TranslateStatement(p, a)
    BY <1>2, <2>1 DEF SetField
  <2> HIDE DEF v
  <2>3. t = [ok |-> s.ok, x |-> v, res |-> s.res, hold |-> (s.hold \ {"may"}) \cup {"field"}]
    <3>1. s = [ok |-> s.ok, x |-> s.x, res |-> s.res, hold |-> s.hold]
      BY <1>3 DEF HonestState
    <3> DEFINE u == (s.hold \ {"may"}) \cup {"field"}
    <3> HIDE DEF s, u
    <3>2. [s EXCEPT !.x = v, !.hold = u] = [ok |-> s.ok, x |-> v, res |-> s.res, hold |-> u]
      BY ONLY <3>1, TwoFieldsChanged
    <3> QED
      BY <3>2 DEF u
  <2> HIDE DEF t
  <2>4. HonestState(p, type, t)
    BY <1>3, <2>1, <2>2, <2>3 DEF HonestState
  <2>5. v = ValueAfter(a, st) /\ s.res = ResultAfter(a, st)
    BY <1>5 DEF v, ValueAfter, ResultAfter
  <2> QED
    BY <1>5, <2>1, <2>2, <2>3, <2>4, <2>5
<1>6. CASE st.op = "get"
  <2> DEFINE t == [s EXCEPT !.res = s.x]
  <2>1. "field" \in s.hold /\ t \in TranslateStatement(p, a)
    BY <1>2, <1>6 DEF TranslateStatement
  <2>2. t = [ok |-> s.ok, x |-> s.x, res |-> s.x, hold |-> s.hold]
    BY <1>3, OneFieldChanged DEF HonestState
  <2> HIDE DEF t
  <2>3. HonestState(p, type, t) /\ s.x \in FieldValues
    BY <1>3, <2>1, <2>2 DEF HonestState
  <2>4. s.x = ValueAfter(a, st) /\ s.x = ResultAfter(a, st)
    BY <1>6 DEF ValueAfter, ResultAfter
  <2> QED
    BY <1>4, <2>1, <2>2, <2>3, <2>4
<1>7. CASE st.op = "ret"
  <2> DEFINE t == [s EXCEPT !.res = st.v]
  <2>1. t \in TranslateStatement(p, a)
    BY <1>7 DEF TranslateStatement
  <2>2. t = [ok |-> s.ok, x |-> s.x, res |-> st.v, hold |-> s.hold]
    BY <1>3, OneFieldChanged DEF HonestState
  <2> HIDE DEF t
  <2>3. HonestState(p, type, t)
    BY <1>3, <2>2 DEF HonestState
  <2>4. s.x = ValueAfter(a, st) /\ st.v = ResultAfter(a, st)
    BY <1>7 DEF ValueAfter, ResultAfter
  <2> QED
    BY <1>7, <2>1, <2>2, <2>3, <2>4
<1>8. ASSUME st.op \in {"fold", "unfold"} PROVE s.x = ValueAfter(a, st) /\ s.res = ResultAfter(a, st)
  BY <1>8 DEF ValueAfter, ResultAfter
<1>9. CASE st.op \in {"fold", "unfold"} /\ IgnoresFamilyFolds(a)
  <2>1. s \in TranslateStatement(p, a)
    BY <1>9 DEF TranslateStatement
  <2> QED
    BY <1>3, <1>8, <1>9, <2>1
<1>10. CASE st.op = "fold" /\ ~ IgnoresFamilyFolds(a)
  <2> DEFINE t == [s EXCEPT !.hold = (@ \ {"field", "rest"}) \cup {"pred"}]
  <2>1. TranslateStatement(p, a) = FoldPredicate(p, s, a.type)
    BY <1>10 DEF TranslateStatement
  <2>2. "field" \in s.hold /\ s.x \in BodyFor(p, type) /\ t \in TranslateStatement(p, a)
    BY <1>2, <1>3, <2>1 DEF FoldPredicate
  <2>3. t = [ok |-> s.ok, x |-> s.x, res |-> s.res, hold |-> (s.hold \ {"field", "rest"}) \cup {"pred"}]
    BY <1>3, OneFieldChanged DEF HonestState
  <2> HIDE DEF t
  <2>4. HonestState(p, type, t)
    BY <1>3, <2>2, <2>3 DEF HonestState
  <2> QED
    BY <1>8, <1>10, <2>2, <2>3, <2>4
<1>11. CASE st.op = "unfold" /\ ~ IgnoresFamilyFolds(a)
  <2> DEFINE hold == (s.hold \ {"pred"}) \cup {"field"}
                       \cup (IF HasAbstractRest(p, a.type) THEN {"rest"} ELSE {})
             t == [s EXCEPT !.x = s.x, !.hold = hold]
  <2>1. TranslateStatement(p, a) = UnfoldPredicate(p, s, a.type)
    BY <1>11 DEF TranslateStatement
  <2>2. "pred" \in s.hold
    BY <1>2, <2>1 DEF UnfoldPredicate
  <2>3. s.x \in BodyFor(p, type) /\ s.x \in FieldValues
    BY <1>3, <2>2, BodiesHaveValues DEF HonestState
  <2>4. t \in TranslateStatement(p, a)
    BY <1>3, <2>1, <2>2, <2>3 DEF UnfoldPredicate
  <2>5. hold \subseteq {"may", "field", "pred", "rest"} /\ "pred" \notin hold
          /\ ("may" \in hold => "may" \in s.hold)
    BY <1>3 DEF HonestState
  <2> HIDE DEF hold
  <2>6. t = [ok |-> s.ok, x |-> s.x, res |-> s.res, hold |-> hold]
    <3>1. s = [ok |-> s.ok, x |-> s.x, res |-> s.res, hold |-> s.hold]
      BY <1>3 DEF HonestState
    <3> DEFINE v == s.x
    <3> HIDE DEF s, v
    <3>2. [s EXCEPT !.x = v, !.hold = hold] = [ok |-> s.ok, x |-> v, res |-> s.res, hold |-> hold]
      BY ONLY <3>1, TwoFieldsChanged
    <3> QED
      BY <3>2 DEF v
  <2> HIDE DEF t
  <2>7. HonestState(p, type, t)
    BY <1>3, <2>2, <2>3, <2>5, <2>6 DEF HonestState
  <2> QED
    BY <1>8, <1>11, <2>2, <2>3, <2>4, <2>6, <2>7
<1> QED
  BY <1>1, <1>5, <1>6, <1>7, <1>9, <1>10, <1>11 DEF IsStatement

-----------------------------------------------------------------------------
(* Activations that Python enters, runs and leaves                         *)

\* A later state of the same activation.
Continues(p, a, c) ==
  /\ c.n = a.n /\ c.arg = a.arg /\ c.type = a.type /\ c.at[1].code = a.at[1].code
  /\ Poor(p, a) => c.s.x = a.s.x
  /\ a.s.x \in FieldValues => c.s.x \in FieldValues

\* The method a class has is verified for a receiver of the class.
LEMMA StartsVerified ==
  ASSUME NEW p, IsChain(p), NoGaps(p), OwnConstructors(p), NEW S, Closed(p, S),
         NEW type \in DOMAIN p, NEW n, HasOrInherits(p, type, n),
         NEW d, d = DefiningClass(p, type, n),
         NEW t, t = IF n = "init" THEN d ELSE type
  PROVE  /\ d \in 1..type /\ HasMethod(p, d, n) /\ IsMethod(p, d, n, p[d].methods[n])
         /\ BodyFor(p, t) = BodyFor(p, type)
         /\ BodyStarts(p, d, t, n) \subseteq S
<1>1. type \in Nat /\ type \in 1..Len(p) /\ DOMAIN p = 1..Len(p) /\ Len(p) \in Nat
  BY DEF IsChain
<1>2. d \in 1..type /\ HasMethod(p, d, n) /\ \A e \in (d + 1)..type : ~ HasMethod(p, e, n)
  BY <1>1, DefiningClassDefines
<1>3. d \in DOMAIN p /\ n \in DOMAIN p[d].methods
  BY <1>1, <1>2 DEF HasMethod
<1>4. IsMethod(p, d, n, p[d].methods[n])
  BY <1>3 DEF IsChain
<1>5. BodyFor(p, t) = BodyFor(p, type)
  BY ConstructorsSuit
<1>6. BodyStarts(p, d, d, n) \subseteq VerifiedBodies(p)
  <2>1. BodyStarts(p, d, d, n) \subseteq OwnBodies(p, d)
    BY <1>3 DEF OwnBodies
  <2>2. OwnBodies(p, d) \subseteq VerifiedBodies(p)
    BY <1>3 DEF VerifiedBodies
  <2> QED
    BY <2>1, <2>2
<1>7. CASE n = "init" \/ d = type
  BY <1>2, <1>4, <1>5, <1>6, <1>7 DEF Closed
<1>8. CASE n # "init" /\ d # type
  <2>1. ~ HasMethod(p, type, n)
    BY <1>1, <1>2, <1>8
  <2>2. n \in AllMethods(p, type)
    BY <1>2, <1>3 DEF AllMethods
  <2>3. n \in InheritChecks(p, type)
    BY <1>8, <2>1, <2>2 DEF InheritChecks
  <2>4. BodyStarts(p, d, type, n) \subseteq VerifiedBodies(p)
    <3>1. BodyStarts(p, d, type, n) \subseteq InheritedBodies(p, type)
      BY <2>3 DEF InheritedBodies
    <3>2. InheritedBodies(p, type) \subseteq VerifiedBodies(p)
      BY DEF VerifiedBodies
    <3> QED
      BY <3>1, <3>2
  <2> QED
    BY <1>2, <1>4, <1>5, <1>8, <2>4 DEF Closed
<1> QED
  BY <1>7, <1>8

\* What a method finds when it is called as its contract demands.
Suits(p, type, n, m, x) ==
  IF n = "init" THEN x = None
  ELSE x \in CASE m.needs = "pred"  -> BodyFor(p, type)
               [] m.needs = "field" -> FieldValues
               [] m.needs = "none"  -> FieldValues \cup {None}

\* The activation that a call enters.
EntersAt(p, type, n, arg, x, b) ==
  /\ Honest(p, type, b)
  /\ b.n = n /\ b.arg = arg
  /\ b.at = <<StartOf(DefiningClass(p, type, n))>>
  /\ b.s.x = x /\ b.s.res = None
  /\ n # "init" => b.type = type

\* Where a call suits the contract of the method found, some verified body starts
\* in its state.
LEMMA CallsEnter ==
  ASSUME NEW p, IsChain(p), NoGaps(p), OwnConstructors(p), NEW S, Closed(p, S),
         NEW type \in DOMAIN p, NEW n, HasOrInherits(p, type, n),
         NEW arg, arg \in FoundMethod(p, type, n).pre,
         NEW x, Suits(p, type, n, FoundMethod(p, type, n), x)
  PROVE  \E b \in S : EntersAt(p, type, n, arg, x, b)
<1> DEFINE d == DefiningClass(p, type, n)
           t == IF n = "init" THEN d ELSE type
           m == FoundMethod(p, type, n)
           hold == IF n = "init" THEN {"may"} ELSE PermissionOf(m.needs)
           s == Start(x, hold)
           b == [type |-> t, n |-> n, arg |-> arg, at |-> <<StartOf(d)>>, s |-> s]
<1>1. /\ d \in 1..type /\ HasMethod(p, d, n) /\ IsMethod(p, d, n, m) /\ m = p[d].methods[n]
      /\ BodyFor(p, t) = BodyFor(p, type)
      /\ BodyStarts(p, d, t, n) \subseteq S
  BY StartsVerified DEF FoundMethod
<1> HIDE DEF d, t, m
<1>2. m.needs \in {"none", "field", "pred"} /\ arg \in FieldValues
  BY <1>1 DEF IsMethod, m
<1>3. s \in StartsOf(p, t, n, m)
  <2>1. CASE n = "init"
    BY <2>1 DEF StartsOf, Suits, m
  <2>2. CASE n # "init"
    <3>1. x \in CASE m.needs = "pred"  -> BodyFor(p, t)
                  [] m.needs = "field" -> FieldValues
                  [] m.needs = "none"  -> FieldValues \cup {None}
      BY <1>1, <1>2, <2>2 DEF Suits, m
    <3> QED
      BY <2>2, <3>1 DEF StartsOf
  <2> QED BY <2>1, <2>2
<1> HIDE DEF s
<1>4. b \in BodyStarts(p, d, t, n)
  BY <1>1, <1>3 DEF BodyStarts, m
<1>5. HonestState(p, type, s)
  <2>1. s = [ok |-> TRUE, x |-> x, res |-> None, hold |-> hold]
    BY DEF s, Start
  <2>2. hold \in {{}, {"may"}, {"field"}, {"pred"}} /\ ("field" \in hold => x \in FieldValues)
          /\ ("pred" \in hold => x \in BodyFor(p, type)) /\ x \in FieldValues \cup {None}
    BY <1>2, BodiesHaveValues DEF Suits, PermissionOf, m
  <2> HIDE DEF hold
  <2> QED
    BY <2>1, <2>2 DEF HonestState
<1>6. s.x = x /\ s.res = None /\ s.hold = hold
  BY DEF s, Start
<1>7. PlacedAt(p, type, n, <<StartOf(d)>>)
  <2>1. type \in Nat /\ d \in Nat
    BY <1>1 DEF IsChain
  <2>2. StartOf(d) \in Positions /\ StartOf(d).code = d /\ StartOf(d).pc = 1
    BY <2>1 DEF StartOf, Positions
  <2> QED
    BY <1>1, <2>2 DEF PlacedAt
<1>8. Poor(p, b) => s.hold = {}
  <2>1. MethodOf(p, b) = m
    BY <1>1 DEF MethodOf, StartOf
  <2> QED
    BY <1>6, <2>1 DEF Poor, PermissionOf
<1> HIDE DEF hold
<1>9. Honest(p, type, b)
  BY <1>1, <1>2, <1>5, <1>7, <1>8 DEF Honest
<1>10. n # "init" => b.type = type
  BY DEF t
<1> QED
  BY <1>1, <1>4, <1>6, <1>9, <1>10 DEF d, EntersAt

\* A call that verifies suits the method of the static class, which that of the
\* receiver refines.
LEMMA CallsSuit ==
  ASSUME ClassesAssumption, NEW p, IsChain(p), NoGaps(p), OverridesVerify(p), NEW S, Closed(p, S),
         NEW type \in DOMAIN p, NEW a \in S, Honest(p, type, a), ~ BodyEnds(p, a),
         NEW st, st = Statement(p, a), st.op = "call",
         NEW m, m = FoundMethod(p, Last(a.at).code, st.n)
  PROVE  /\ st.n # "init" /\ HasOrInherits(p, type, st.n)
         /\ Refines(FoundMethod(p, type, st.n), m, st.n)
         /\ IsMethod(p, DefiningClass(p, Last(a.at).code, st.n), st.n, m)
         /\ a.arg \in m.pre /\ PermissionOf(m.needs) \subseteq a.s.hold
         /\ TranslateStatement(p, a) = Returned(m, a.s)
<1> DEFINE c == Last(a.at).code
<1>1. IsStatement(p, c, a.n, st)
  BY StatementsAreLegal DEF Honest
<1>2. st.n # "init" /\ HasOrInherits(p, c, st.n)
  BY <1>1 DEF IsStatement
<1>3. c \in 1..type /\ type \in Nat /\ DOMAIN p = 1..Len(p) /\ Len(p) \in Nat
  BY LastPosition DEF Honest, IsChain
<1>4. HasOrInherits(p, type, st.n)
  BY <1>2, <1>3, InheritedFurther
<1>5. Refines(FoundMethod(p, type, st.n), m, st.n)
  <2>1. Calls(p, c, type, st.n)
    BY <1>2, <1>3 DEF Calls
  <2> QED BY <2>1, MethodsRefine
<1>6. IsMethod(p, DefiningClass(p, c, st.n), st.n, m)
  <2>1. c \in Nat
    BY <1>3
  <2>2. DefiningClass(p, c, st.n) \in 1..c /\ HasMethod(p, DefiningClass(p, c, st.n), st.n)
    BY <1>2, <2>1, DefiningClassDefines
  <2>3. DefiningClass(p, c, st.n) \in DOMAIN p
    BY <1>3, <2>2
  <2> QED BY <2>2, <2>3 DEF IsChain, HasMethod, FoundMethod
<1>7. TranslateStatement(p, a) = CallContract(m, a.s, a.arg)
  BY DEF TranslateStatement
<1>8. Failure \notin TranslateStatement(p, a)
  BY TranslatedWell DEF Honest, HonestState
<1>9. a.arg \in m.pre /\ PermissionOf(m.needs) \subseteq a.s.hold
  BY <1>7, <1>8 DEF CallContract
<1> QED
  BY <1>2, <1>4, <1>5, <1>6, <1>7, <1>9 DEF CallContract

\* The activation that Python enters at a call.
CalledFrom(p, type, a, b) ==
  /\ ~ BodyEnds(p, a) /\ Statement(p, a).op = "call" /\ Statement(p, a).n = b.n
  /\ b.type = type /\ b.at[1].code = DefiningClass(p, type, b.n)
  /\ Poor(p, b) => b.s.x = a.s.x
  /\ a.s.x \in FieldValues => b.s.x \in FieldValues

\* Each call in a verified body suits the method Python picks, whose body is
\* verified too.
LEMMA CallsEnterMethods ==
  ASSUME ClassesAssumption, NEW p, IsChain(p), NoGaps(p), OwnConstructors(p), OverridesVerify(p),
         NEW S, Closed(p, S), NEW type \in DOMAIN p, NEW a \in S, Honest(p, type, a),
         ~ BodyEnds(p, a), Statement(p, a).op = "call"
  PROVE  \E b \in S : /\ Honest(p, type, b) /\ CalledFrom(p, type, a, b)
                      /\ b.at = <<StartOf(DefiningClass(p, type, Statement(p, a).n))>>
                      /\ b.arg = a.arg /\ b.s.x = a.s.x /\ b.s.res = None
<1> DEFINE n == Statement(p, a).n
           m == FoundMethod(p, Last(a.at).code, n)
           l == FoundMethod(p, type, n)
<1>1. /\ n # "init" /\ HasOrInherits(p, type, n) /\ Refines(l, m, n)
      /\ IsMethod(p, DefiningClass(p, Last(a.at).code, n), n, m)
      /\ a.arg \in m.pre /\ PermissionOf(m.needs) \subseteq a.s.hold
  <2> DEFINE st == Statement(p, a)
             k == FoundMethod(p, Last(a.at).code, st.n)
  <2>1. st = Statement(p, a) /\ st.op = "call" /\ k = FoundMethod(p, Last(a.at).code, st.n)
    OBVIOUS
  <2> HIDE DEF st, k
  <2>2. /\ st.n # "init" /\ HasOrInherits(p, type, st.n)
        /\ Refines(FoundMethod(p, type, st.n), k, st.n)
        /\ IsMethod(p, DefiningClass(p, Last(a.at).code, st.n), st.n, k)
        /\ a.arg \in k.pre /\ PermissionOf(k.needs) \subseteq a.s.hold
    BY <2>1, CallsSuit
  <2> QED
    BY <2>2 DEF st, k
<1>2. IsMethod(p, DefiningClass(p, type, n), n, l)
  BY <1>1, StartsVerified DEF FoundMethod
<1>3. HonestState(p, type, a.s)
  BY DEF Honest
<1> HIDE DEF m, l, n
<1>4. l.needs \in {"none", "field", "pred"} /\ m.needs \in {"none", "field", "pred"}
  BY <1>1, <1>2 DEF IsMethod
<1>5. a.arg \in l.pre /\ PermissionOf(l.needs) \subseteq a.s.hold
  BY <1>1 DEF Refines
<1>6. Suits(p, type, n, l, a.s.x)
  BY <1>1, <1>3, <1>4, <1>5 DEF Suits, HonestState, PermissionOf
<1>7. PICK b \in S : EntersAt(p, type, n, a.arg, a.s.x, b)
  BY <1>1, <1>5, <1>6, CallsEnter DEF l
<1>8. b.at[1].code = DefiningClass(p, type, n)
  BY <1>7 DEF EntersAt, StartOf
<1>9. CalledFrom(p, type, a, b)
  BY <1>1, <1>7, <1>8 DEF CalledFrom, EntersAt, n
<1> QED
  BY <1>7, <1>9 DEF EntersAt, n

\* Updates of an activation, field by field.
LEMMA ActivationChanged ==
  ASSUME NEW a, a = [type |-> a.type, n |-> a.n, arg |-> a.arg, at |-> a.at, s |-> a.s],
         NEW u, NEW t
  PROVE  /\ [a EXCEPT !.at = u] = [type |-> a.type, n |-> a.n, arg |-> a.arg, at |-> u, s |-> a.s]
         /\ [a EXCEPT !.at = u, !.s = t] = [type |-> a.type, n |-> a.n, arg |-> a.arg, at |-> u, s |-> t]
<1> DEFINE y == a.type n == a.n g == a.arg w == a.at s == a.s b == [a EXCEPT !.at = u]
<1>1. a = [type |-> y, n |-> n, arg |-> g, at |-> w, s |-> s]
  OBVIOUS
<1> HIDE DEF y, n, g, w, s
<1>2. b = [type |-> y, n |-> n, arg |-> g, at |-> u, s |-> s]
  BY <1>1
<1>3. [b EXCEPT !.s = t] = [type |-> y, n |-> n, arg |-> g, at |-> u, s |-> t]
  <2> HIDE DEF b
  <2> QED BY <1>2
<1> QED BY <1>2, <1>3 DEF y, n, g, w, s, b

\* An activation goes on at a position, in a state.
LEMMA HonestlyContinued ==
  ASSUME NEW p, NEW type, NEW a, Honest(p, type, a),
         NEW u, PlacedAt(p, type, a.n, u), u[1].code = a.at[1].code,
         NEW t, HonestState(p, type, t),
         a.s.hold = {} => t.hold = {} /\ t.x = a.s.x,
         a.s.x \in FieldValues => t.x \in FieldValues,
         NEW c, c = [type |-> a.type, n |-> a.n, arg |-> a.arg, at |-> u, s |-> t]
  PROVE  Honest(p, type, c) /\ Continues(p, a, c)
<1>1. c.type = a.type /\ c.n = a.n /\ c.arg = a.arg /\ c.at = u /\ c.s = t
  OBVIOUS
<1>2. c = [type |-> c.type, n |-> c.n, arg |-> c.arg, at |-> c.at, s |-> c.s]
  BY <1>1
<1>3. Poor(p, a) <=> Poor(p, c)
  BY <1>1 DEF Poor, MethodOf
<1>4. Poor(p, a) => a.s.hold = {}
  BY DEF Honest
<1>5. Honest(p, type, c)
  BY <1>1, <1>2, <1>3, <1>4 DEF Honest
<1> QED
  BY <1>1, <1>3, <1>4, <1>5 DEF Continues

\* Behind a call, verification has a state in which Python returns from it.
LEMMA CallsGoOn ==
  ASSUME ClassesAssumption, NEW p, IsChain(p), NoGaps(p), OwnConstructors(p), OverridesVerify(p),
         NEW S, Closed(p, S), NEW type \in DOMAIN p,
         NEW a \in S, Honest(p, type, a), NEW b \in S, Honest(p, type, b),
         CalledFrom(p, type, a, b), Finished(p, b)
  PROVE  \E c \in S : /\ Honest(p, type, c) /\ Continues(p, a, c) /\ c.at = NextStatement(a)
                      /\ c.s.x = b.s.x /\ c.s.res = b.s.res
<1> DEFINE st == Statement(p, a)
           m == FoundMethod(p, Last(a.at).code, st.n)
           l == FoundMethod(p, type, st.n)
           s == a.s
           x == b.s.x
           res == b.s.res
           hold == (s.hold \ PermissionOf(m.needs)) \cup PermissionOf(m.gives)
           t == [ok |-> s.ok, x |-> x, res |-> res, hold |-> hold]
           c == [a EXCEPT !.at = NextStatement(a), !.s = t]
<1>1. ~ BodyEnds(p, a) /\ st.op = "call" /\ b.n = st.n /\ b.type = type
  BY DEF CalledFrom
<1>2. st = Statement(p, a) /\ m = FoundMethod(p, Last(a.at).code, st.n) /\ l = FoundMethod(p, type, st.n)
  OBVIOUS
<1> HIDE DEF st, m, l
<1>3. /\ st.n # "init" /\ HasOrInherits(p, type, st.n) /\ Refines(l, m, st.n)
      /\ IsMethod(p, DefiningClass(p, Last(a.at).code, st.n), st.n, m)
      /\ a.arg \in m.pre /\ PermissionOf(m.needs) \subseteq s.hold
      /\ TranslateStatement(p, a) = Returned(m, s)
  BY <1>1, <1>2, CallsSuit
<1>4. MethodOf(p, b) = l
  BY <1>1, <1>2 DEF CalledFrom, MethodOf, FoundMethod
<1>5. PermissionOf(l.gives) \subseteq b.s.hold /\ res \in l.post
  <2>1. KeepsItsContract(p, b)
    BY DEF Closed, Verifies
  <2> QED
    BY <1>1, <1>3, <1>4, <2>1 DEF KeepsItsContract
<1>6. HonestState(p, type, s) /\ HonestState(p, type, b.s)
  BY DEF Honest
<1>7. IsMethod(p, DefiningClass(p, type, st.n), st.n, l)
  BY <1>2, <1>3, StartsVerified DEF FoundMethod
<1>8. /\ m.needs \in {"none", "field", "pred"} /\ m.gives \in {"none", "field", "pred"}
      /\ l.needs \in {"none", "field", "pred"} /\ l.gives \in {"none", "field", "pred"}
      /\ m.needs = "none" => m.gives = "none"
  BY <1>3, <1>7 DEF IsMethod
<1>9. /\ PermissionOf(l.needs) \subseteq PermissionOf(m.needs)
      /\ PermissionOf(m.gives) \subseteq (PermissionOf(m.needs) \ PermissionOf(l.needs)) \cup PermissionOf(l.gives)
      /\ l.post \subseteq m.post
  BY <1>3 DEF Refines
<1>10. l.needs = "none" => x = s.x
  BY <1>1, <1>3, <1>4 DEF CalledFrom, Poor
<1>11. s.x \in FieldValues => x \in FieldValues
  BY DEF CalledFrom
<1>12. m.needs = "none" => l.needs = "none"
  BY <1>8, <1>9 DEF PermissionOf
<1>13. m.needs # "none" => s.x \in FieldValues
  BY <1>3, <1>6, <1>8, BodiesHaveValues DEF PermissionOf, HonestState
<1>14. res \in m.post /\ x \in IF m.needs = "none" THEN {s.x} ELSE FieldValues
  BY <1>5, <1>9, <1>10, <1>11, <1>12, <1>13
<1> HIDE DEF s, x, res
<1>15. t \in TranslateStatement(p, a)
  <2> DEFINE xs == IF m.needs = "none" THEN {s.x} ELSE FieldValues
  <2>1. Returned(m, s) = {[ok |-> s.ok, x |-> y, res |-> r, hold |-> hold] : r \in m.post, y \in xs}
    BY DEF Returned
  <2>2. res \in m.post /\ x \in xs
    BY <1>14
  <2> HIDE DEF xs, hold
  <2>3. t \in {[ok |-> s.ok, x |-> y, res |-> r, hold |-> hold] : r \in m.post, y \in xs}
    BY <2>2
  <2> QED
    BY <1>3, <2>1, <2>3
<1>16. t = [ok |-> s.ok, x |-> x, res |-> res, hold |-> hold]
  OBVIOUS
<1> HIDE DEF t
<1>17. x \in FieldValues \cup {None} /\ (s.x \in FieldValues => x \in FieldValues)
  <2>1. s.x \in FieldValues \cup {None}
    BY <1>6 DEF HonestState
  <2> QED
    BY <1>11, <1>14, <2>1
<1>18. "pred" \in hold => x \in BodyFor(p, type)
  <2> SUFFICES ASSUME "pred" \in hold PROVE x \in BodyFor(p, type)
    OBVIOUS
  <2>1. CASE l.gives = "pred"
    BY <1>5, <1>6, <2>1 DEF PermissionOf, HonestState, x
  <2>2. CASE l.gives # "pred"
    <3>1. "pred" \in s.hold /\ l.needs = "none"
      <4>1. CASE m.gives = "pred"
        <5>1. "pred" \in PermissionOf(m.needs) \ PermissionOf(l.needs)
          BY <1>8, <1>9, <2>2, <4>1 DEF PermissionOf
        <5> QED
          BY <1>3, <1>8, <1>9, <5>1 DEF PermissionOf
      <4>2. CASE m.gives # "pred"
        <5>1. "pred" \in s.hold /\ m.needs # "pred"
          BY <1>8, <4>2 DEF PermissionOf
        <5>2. m.needs # "field"
          BY <1>3, <1>6, <5>1 DEF PermissionOf, HonestState
        <5> QED
          BY <1>8, <1>12, <5>1, <5>2
      <4> QED BY <4>1, <4>2
    <3> QED
      BY <1>6, <1>10, <3>1 DEF HonestState
  <2> QED BY <2>1, <2>2
<1>19. /\ hold \subseteq {"may", "field", "pred", "rest"}
       /\ ~ ("may" \in hold /\ "field" \in hold)
       /\ ~ ("may" \in hold /\ "pred" \in hold)
       /\ ~ ("field" \in hold /\ "pred" \in hold)
  BY <1>3, <1>6, <1>8 DEF HonestState, PermissionOf
<1>20. "field" \in hold => x \in FieldValues
  <2> SUFFICES ASSUME "field" \in hold PROVE x \in FieldValues
    OBVIOUS
  <2>1. CASE m.needs = "none"
    BY <1>6, <1>8, <1>14, <2>1 DEF HonestState, PermissionOf
  <2>2. CASE m.needs # "none"
    BY <1>14, <2>2
  <2> QED BY <2>1, <2>2
<1>21. s.hold = {} => hold = {} /\ x = s.x
  BY <1>3, <1>8, <1>14 DEF PermissionOf
<1> HIDE DEF hold
<1>22. t.ok = s.ok /\ t.x = x /\ t.res = res /\ t.hold = hold
  BY <1>16
<1>23. HonestState(p, type, t)
  BY <1>6, <1>16, <1>17, <1>18, <1>19, <1>20, <1>22 DEF HonestState
<1>24. c \in S
  BY <1>1, <1>2, <1>6, <1>15, TranslatedSuccessors DEF HonestState, s
<1>25. c = [type |-> a.type, n |-> a.n, arg |-> a.arg, at |-> NextStatement(a), s |-> t]
  BY ActivationChanged DEF Honest
<1> HIDE DEF c
<1>26. PlacedAt(p, type, a.n, NextStatement(a)) /\ NextStatement(a)[1].code = a.at[1].code
  BY NextIsPlaced DEF Honest
<1>27. Honest(p, type, c) /\ Continues(p, a, c)
  BY <1>17, <1>21, <1>22, <1>23, <1>25, <1>26, HonestlyContinued DEF s
<1>28. c.at = NextStatement(a) /\ c.s.x = x /\ c.s.res = res
  BY <1>22, <1>25
<1> QED
  BY <1>24, <1>27, <1>28 DEF x, res

\* Every other step of an activation is one of the verification too: what Python
\* does to x and the result, and that it finds x where it reads it.
LEMMA StepsContinue ==
  ASSUME ClassesAssumption, NEW p, IsChain(p), NEW S, Closed(p, S), NEW type \in DOMAIN p,
         NEW a \in S, Honest(p, type, a), ~ BodyEnds(p, a),
         NEW st, st = Statement(p, a), st.op \notin {"call", "super"}
  PROVE  /\ st.op = "get" => a.s.x # None
         /\ \E c \in S : /\ Honest(p, type, c) /\ Continues(p, a, c) /\ c.at = NextStatement(a)
                         /\ c.s.x = ValueAfter(a, st) /\ c.s.res = ResultAfter(a, st)
<1>1. PICK t \in TranslateStatement(p, a) :
        /\ HonestState(p, type, t)
        /\ t.x = ValueAfter(a, st) /\ t.res = ResultAfter(a, st)
        /\ st.op = "get" => a.s.x # None
        /\ a.s.hold = {} => t.hold = {} /\ t.x = a.s.x
        /\ a.s.x \in FieldValues => t.x \in FieldValues
  BY StatementsMatch
<1> DEFINE c == [a EXCEPT !.at = NextStatement(a), !.s = t]
<1>2. c \in S
  BY TranslatedSuccessors DEF Honest, HonestState
<1>3. c = [type |-> a.type, n |-> a.n, arg |-> a.arg, at |-> NextStatement(a), s |-> t]
  BY ActivationChanged DEF Honest
<1> HIDE DEF c
<1>4. PlacedAt(p, type, a.n, NextStatement(a)) /\ NextStatement(a)[1].code = a.at[1].code
  BY NextIsPlaced DEF Honest
<1>5. Honest(p, type, c) /\ Continues(p, a, c)
  BY <1>1, <1>3, <1>4, HonestlyContinued
<1> QED
  BY <1>1, <1>2, <1>3, <1>5

\* Entering super stays among the verified activations.
LEMMA SuperContinues ==
  ASSUME NEW p, IsChain(p), NEW S, Closed(p, S), NEW type \in DOMAIN p,
         NEW a \in S, Honest(p, type, a), ~ BodyEnds(p, a), Statement(p, a).op = "super"
  PROVE  \E c \in S : /\ Honest(p, type, c) /\ Continues(p, a, c) /\ c.at = EnteredSuper(p, a)
                      /\ c.s.x = a.s.x /\ c.s.res = None
<1> DEFINE u == EnteredSuper(p, a)
           t == [a.s EXCEPT !.res = None]
           c == [type |-> a.type, n |-> a.n, arg |-> a.arg, at |-> u, s |-> t]
<1>1. HonestState(p, type, a.s)
  BY DEF Honest
<1>2. t = [ok |-> a.s.ok, x |-> a.s.x, res |-> None, hold |-> a.s.hold]
  BY <1>1, OneFieldChanged DEF HonestState
<1>3. [a EXCEPT !.at = u, !.s.res = None] = c
  <2>1. [a EXCEPT !.at = u, !.s = t] = c
    BY ActivationChanged DEF Honest
  <2> QED
    BY <2>1
<1>4. c \in S
  <2>1. [a EXCEPT !.at = EnteredSuper(p, a), !.s.res = None] \in Successors(p, a)
    BY <1>1 DEF Successors, Finished, HonestState
  <2> QED
    BY <1>3, <2>1 DEF Closed
<1>5. PlacedAt(p, type, a.n, u) /\ u[1].code = a.at[1].code
  BY SuperIsPlaced DEF Honest
<1> HIDE DEF t
<1>6. HonestState(p, type, t)
  BY <1>1, <1>2 DEF HonestState
<1>7. t.hold = a.s.hold /\ t.x = a.s.x /\ t.res = None
  BY <1>2
<1> HIDE DEF c, u
<1>8. c = [type |-> a.type, n |-> a.n, arg |-> a.arg, at |-> u, s |-> t]
  BY DEF c
<1>9. Honest(p, type, c) /\ Continues(p, a, c)
  BY <1>5, <1>6, <1>7, <1>8, HonestlyContinued
<1> QED
  BY <1>4, <1>7, <1>8, <1>9 DEF u

\* Returning from super stays among the verified activations.
LEMMA ReturnsContinue ==
  ASSUME NEW p, IsChain(p), NEW S, Closed(p, S), NEW type \in DOMAIN p,
         NEW a \in S, Honest(p, type, a), BodyEnds(p, a), Len(a.at) # 1
  PROVE  \E c \in S : /\ Honest(p, type, c) /\ Continues(p, a, c) /\ c.at = Front(a.at)
                      /\ c.s.x = a.s.x /\ c.s.res = a.s.res
<1> DEFINE u == Front(a.at)
           c == [a EXCEPT !.at = u]
<1>1. HonestState(p, type, a.s)
  BY DEF Honest
<1>2. c = [type |-> a.type, n |-> a.n, arg |-> a.arg, at |-> u, s |-> a.s]
  BY ActivationChanged DEF Honest
<1>3. c \in S
  <2>1. c \in Successors(p, a)
    BY <1>1 DEF Successors, Finished, HonestState
  <2> QED
    BY <2>1 DEF Closed
<1>4. PlacedAt(p, type, a.n, u) /\ u[1].code = a.at[1].code
  BY FrontIsPlaced DEF Honest
<1> HIDE DEF c, u
<1>5. Honest(p, type, c) /\ Continues(p, a, c)
  BY <1>1, <1>2, <1>4, HonestlyContinued
<1> QED
  BY <1>2, <1>3, <1>5 DEF u

-----------------------------------------------------------------------------
(* The stack, followed by activations of the verification                  *)

FrameOf(a) == [n |-> a.n, at |-> a.at, arg |-> a.arg]
Frames(v) == [j \in 1..Len(v) |-> FrameOf(v[j])]

\* The bottom activation is that of the method called, with the caller's x.
Entered(p, type, n, call, a) ==
  /\ a.n = n /\ a.at[1].code = DefiningClass(p, type, n)
  /\ Poor(p, a) => a.s.x = call.x

Follows(p, S, type, n, call, v) ==
  /\ v \in Seq(S) /\ v # <<>>
  /\ \A j \in 1..Len(v) : Honest(p, type, v[j])
  /\ \A j \in 1..Len(v) : j > 1 => CalledFrom(p, type, v[j - 1], v[j])
  /\ Entered(p, type, n, call, v[1])

\* What the method called owes to its caller.
Kept(p, type, n, call, x, res) ==
  LET m == FoundMethod(p, type, n)
  IN  /\ m.gives = "pred" => x \in BodyFor(p, type)
      /\ n # "init" => res \in m.post
      /\ n # "init" /\ m.needs = "none" => x = call.x

\* The activation on top of a stack.
LEMMA TopOf ==
  ASSUME NEW S, NEW v \in Seq(S), v # <<>>
  PROVE  /\ Len(v) \in Nat /\ Len(v) >= 1 /\ Len(v) \in 1..Len(v) /\ 1 \in 1..Len(v)
         /\ Last(v) = v[Len(v)] /\ Last(v) \in S
<1>1. Len(v) \in Nat /\ Len(v) # 0
  BY EmptySeq
<1>2. Len(v) >= 1
  BY <1>1
<1>3. Last(v) = v[Len(v)]
  BY DEF Last
<1> QED
  BY <1>1, <1>2, <1>3

\* The frame on top of Python's stack is that of the top activation.
LEMMA FramesOfTop ==
  ASSUME NEW S, NEW v \in Seq(S), v # <<>>
  PROVE  /\ Frames(v) # <<>> /\ Len(Frames(v)) = Len(v)
         /\ Last(Frames(v)) = FrameOf(Last(v))
<1>1. Len(v) \in Nat /\ Len(v) >= 1 /\ Len(v) \in 1..Len(v) /\ Last(v) = v[Len(v)]
  BY TopOf
<1>2. Len(Frames(v)) = Len(v)
  BY <1>1 DEF Frames
<1>3. Frames(v)[Len(v)] = FrameOf(v[Len(v)])
  BY <1>1 DEF Frames
<1>4. Last(Frames(v)) = Frames(v)[Len(v)]
  BY <1>2 DEF Last
<1> QED
  BY <1>1, <1>2, <1>3, <1>4

\* Moving a frame moves its activation.
LEMMA FrameMoves ==
  ASSUME NEW a, NEW c, c.n = a.n, c.arg = a.arg
  PROVE  [FrameOf(a) EXCEPT !.at = c.at] = FrameOf(c)
BY DEF FrameOf

\* The last activation is replaced.
Replaced(v, c) == [v EXCEPT ![Len(v)] = c]

\* A stack whose top was replaced.
LEMMA ReplacedIs ==
  ASSUME NEW S, NEW v \in Seq(S), v # <<>>, NEW c \in S
  PROVE  /\ Replaced(v, c) \in Seq(S) /\ Len(Replaced(v, c)) = Len(v)
         /\ \A j \in 1..Len(v) : Replaced(v, c)[j] = IF j = Len(v) THEN c ELSE v[j]
BY TopOf DEF Replaced

\* Moving the top frame is replacing the top activation.
LEMMA FramesMoved ==
  ASSUME NEW S, NEW v \in Seq(S), v # <<>>, NEW c \in S, c.n = Last(v).n, c.arg = Last(v).arg
  PROVE  MovedTo(Frames(v), c.at) = Frames(Replaced(v, c))
<1> DEFINE w == Replaced(v, c)
           F == Frames(v)
           k == Len(v)
<1>1. k \in Nat /\ k \in 1..k /\ Last(v) = v[k]
  BY TopOf
<1>2. w \in Seq(S) /\ Len(w) = k /\ \A j \in 1..k : w[j] = IF j = k THEN c ELSE v[j]
  BY ReplacedIs
<1> HIDE DEF w
<1>3. Len(F) = k /\ F = [j \in 1..k |-> F[j]] /\ \A j \in 1..k : F[j] = FrameOf(v[j])
  BY <1>1 DEF Frames
<1> HIDE DEF F, k
<1>4. [F[k] EXCEPT !.at = c.at] = FrameOf(c)
  <2>1. F[k] = FrameOf(Last(v))
    BY <1>1, <1>3
  <2> QED
    BY <2>1, FrameMoves
<1>5. MovedTo(F, c.at) = [F EXCEPT ![k] = FrameOf(c)]
  BY <1>3, <1>4 DEF MovedTo
<1>6. [F EXCEPT ![k] = FrameOf(c)] = [j \in 1..k |-> IF j = k THEN FrameOf(c) ELSE FrameOf(v[j])]
  BY <1>1, <1>3
<1>7. Frames(w) = [j \in 1..k |-> IF j = k THEN FrameOf(c) ELSE FrameOf(v[j])]
  <2>1. \A j \in 1..k : FrameOf(w[j]) = IF j = k THEN FrameOf(c) ELSE FrameOf(v[j])
    BY <1>2
  <2>2. Frames(w) = [j \in 1..k |-> FrameOf(w[j])]
    BY <1>2 DEF Frames
  <2> QED
    BY <2>1, <2>2
<1> QED
  BY <1>5, <1>6, <1>7 DEF F, w

\* Pushing a frame is pushing an activation.
LEMMA FramesAppended ==
  ASSUME NEW S, NEW v \in Seq(S), NEW b \in S
  PROVE  Append(Frames(v), FrameOf(b)) = Frames(Append(v, b))
<1> DEFINE T == {FrameOf(a) : a \in S}
           f == FrameOf(b)
           F == Frames(v)
           w == Append(v, b)
<1>1. Len(v) \in Nat /\ f \in T /\ \A j \in 1..Len(v) : v[j] \in S
  OBVIOUS
<1>2. /\ w \in Seq(S) /\ Len(w) = Len(v) + 1 /\ w[Len(v) + 1] = b
      /\ \A j \in 1..Len(v) : w[j] = v[j]
  BY AppendProperties
<1> HIDE DEF w
<1>3. F \in Seq(T) /\ Len(F) = Len(v) /\ \A j \in 1..Len(v) : F[j] = FrameOf(v[j])
  BY <1>1 DEF Frames
<1>4. /\ Frames(w) \in Seq(T) /\ Len(Frames(w)) = Len(w)
      /\ \A j \in 1..Len(w) : Frames(w)[j] = FrameOf(w[j])
  <2>1. Len(w) \in Nat /\ \A j \in 1..Len(w) : w[j] \in S
    BY <1>2
  <2> QED
    BY <2>1 DEF Frames
<1> HIDE DEF f, F, T
<1>5. /\ Append(F, f) \in Seq(T) /\ Len(Append(F, f)) = Len(F) + 1 /\ Append(F, f)[Len(F) + 1] = f
      /\ \A j \in 1..Len(F) : Append(F, f)[j] = F[j]
  BY <1>1, <1>3, AppendProperties
<1>6. \A j \in 1..(Len(v) + 1) : j = Len(v) + 1 \/ j \in 1..Len(v)
  BY <1>1
<1>7. \A j \in 1..(Len(v) + 1) : Append(F, f)[j] = Frames(w)[j]
  <2> TAKE j \in 1..(Len(v) + 1)
  <2>1. Frames(w)[j] = FrameOf(w[j])
    BY <1>2, <1>4
  <2>2. CASE j = Len(v) + 1
    BY <1>2, <1>3, <1>5, <2>1, <2>2 DEF f
  <2>3. CASE j \in 1..Len(v)
    BY <1>2, <1>3, <1>5, <2>1, <2>3
  <2> QED BY <1>6, <2>2, <2>3
<1>8. Append(F, f) = Frames(w)
  BY <1>2, <1>3, <1>4, <1>5, <1>7, SeqEqual
<1> QED
  BY <1>8 DEF f, F, w

\* Popping a frame is popping an activation.
LEMMA FramesFront ==
  ASSUME NEW S, NEW v \in Seq(S), v # <<>>
  PROVE  Front(Frames(v)) = Frames(Front(v)) /\ Front(v) \in Seq(S) /\ Len(Front(v)) = Len(v) - 1
         /\ \A j \in 1..(Len(v) - 1) : Front(v)[j] = v[j]
<1>1. Len(v) \in Nat /\ Len(v) >= 1
  BY TopOf
<1>2. Front(v) \in Seq(S) /\ Len(Front(v)) = Len(v) - 1 /\ \A j \in 1..(Len(v) - 1) : Front(v)[j] = v[j]
  <2>1. \A i \in 1..(Len(v) - 1) : v[i] \in S
    BY <1>1
  <2> DEFINE k == Len(v) - 1
  <2>2. k \in Nat
    BY <1>1
  <2>3. Front(v) = SubSeq(v, 1, k)
    BY DEF Front
  <2> HIDE DEF k, Front
  <2>4. /\ SubSeq(v, 1, k) \in Seq(S)
        /\ Len(SubSeq(v, 1, k)) = IF 1 <= k THEN k - 1 + 1 ELSE 0
        /\ \A i \in 1..(k - 1 + 1) : SubSeq(v, 1, k)[i] = v[1 + i - 1]
    BY <2>1, <2>2, SubSeqProperties DEF k
  <2>5. Len(SubSeq(v, 1, k)) = k
    BY <2>2, <2>4
  <2>6. \A i \in 1..k : i \in 1..(k - 1 + 1) /\ 1 + i - 1 = i
    BY <2>2
  <2>7. \A i \in 1..k : SubSeq(v, 1, k)[i] = v[i]
    BY <2>4, <2>6
  <2> QED
    BY <2>3, <2>4, <2>5, <2>7 DEF k
<1>3. Len(Frames(v)) = Len(v) /\ \A j \in 1..Len(v) : Frames(v)[j] = FrameOf(v[j])
  BY <1>1 DEF Frames
<1>4. Front(Frames(v)) = [j \in 1..(Len(v) - 1) |-> Frames(v)[j]]
  BY <1>1, <1>3 DEF Front
<1>5. Frames(Front(v)) = [j \in 1..(Len(v) - 1) |-> FrameOf(Front(v)[j])]
  BY <1>2 DEF Frames
<1> QED
  BY <1>1, <1>2, <1>3, <1>4, <1>5

\* The stack is still followed when its top activation goes on.
LEMMA TopContinues ==
  ASSUME NEW p, NEW S, NEW type, NEW n, NEW call, NEW v, Follows(p, S, type, n, call, v),
         NEW c \in S, Honest(p, type, c), Continues(p, Last(v), c)
  PROVE  Follows(p, S, type, n, call, Replaced(v, c)) /\ Last(Replaced(v, c)) = c
<1> DEFINE w == Replaced(v, c)
<1>1. v \in Seq(S) /\ v # <<>>
  BY DEF Follows
<1>2. /\ Len(v) \in Nat /\ Len(v) >= 1 /\ Len(v) \in 1..Len(v) /\ 1 \in 1..Len(v)
      /\ Last(v) = v[Len(v)]
  BY <1>1, TopOf
<1>3. w \in Seq(S) /\ Len(w) = Len(v) /\ \A j \in 1..Len(v) : w[j] = IF j = Len(v) THEN c ELSE v[j]
  BY <1>1, ReplacedIs
<1> HIDE DEF w
<1>4. w # <<>> /\ Last(w) = c
  BY <1>2, <1>3, EmptySeq DEF Last
<1>5. \A j \in 1..Len(w) : Honest(p, type, w[j])
  BY <1>3 DEF Follows
<1>6. Poor(p, Last(v)) <=> Poor(p, c)
  BY DEF Continues, Poor, MethodOf
<1>7. ASSUME NEW j \in 1..Len(w), j > 1 PROVE CalledFrom(p, type, w[j - 1], w[j])
  <2>1. j - 1 \in 1..Len(v) /\ j \in 1..Len(v) /\ j - 1 # Len(v) /\ w[j - 1] = v[j - 1]
    BY <1>2, <1>3, <1>7
  <2>2. CalledFrom(p, type, v[j - 1], v[j])
    BY <1>7, <2>1 DEF Follows
  <2>3. CASE j = Len(v)
    <3>1. w[j] = c /\ v[j] = Last(v)
      BY <1>2, <1>3, <2>1, <2>3
    <3>2. CalledFrom(p, type, v[j - 1], c)
      BY <1>6, <2>2, <3>1 DEF CalledFrom, Continues
    <3> QED
      BY <2>1, <3>1, <3>2
  <2>4. CASE j # Len(v)
    BY <1>3, <2>1, <2>2, <2>4
  <2> QED BY <2>3, <2>4
<1>8. Entered(p, type, n, call, w[1])
  <2>1. Entered(p, type, n, call, v[1])
    BY DEF Follows
  <2>2. CASE Len(v) = 1
    <3>1. w[1] = c /\ v[1] = Last(v)
      BY <1>2, <1>3, <2>2
    <3> QED
      BY <1>6, <2>1, <3>1 DEF Entered, Continues
  <2>3. CASE Len(v) # 1
    BY <1>2, <1>3, <2>1, <2>3
  <2> QED BY <2>2, <2>3
<1> QED
  BY <1>3, <1>4, <1>5, <1>7, <1>8 DEF Follows, w

\* The stack is still followed when a call puts an activation on it.
LEMMA MethodEntered ==
  ASSUME NEW p, NEW S, NEW type, NEW n, NEW call, NEW v, Follows(p, S, type, n, call, v),
         NEW b \in S, Honest(p, type, b), CalledFrom(p, type, Last(v), b)
  PROVE  Follows(p, S, type, n, call, Append(v, b)) /\ Last(Append(v, b)) = b
<1> DEFINE w == Append(v, b)
<1>1. v \in Seq(S) /\ v # <<>>
  BY DEF Follows
<1>2. /\ Len(v) \in Nat /\ Len(v) >= 1 /\ Len(v) \in 1..Len(v) /\ 1 \in 1..Len(v)
      /\ Last(v) = v[Len(v)]
  BY <1>1, TopOf
<1>3. /\ w \in Seq(S) /\ Len(w) = Len(v) + 1 /\ w # <<>> /\ w[Len(v) + 1] = b
      /\ \A j \in 1..Len(v) : w[j] = v[j]
  BY <1>1, AppendProperties
<1> HIDE DEF w
<1>4. Last(w) = b
  BY <1>3 DEF Last
<1>5. \A j \in 1..Len(w) : j = Len(v) + 1 \/ j \in 1..Len(v)
  BY <1>2, <1>3
<1>6. \A j \in 1..Len(w) : Honest(p, type, w[j])
  BY <1>3, <1>5 DEF Follows
<1>7. ASSUME NEW j \in 1..Len(w), j > 1 PROVE CalledFrom(p, type, w[j - 1], w[j])
  <2>1. CASE j = Len(v) + 1
    <3>1. j - 1 = Len(v)
      BY <1>2, <2>1
    <3> QED
      BY <1>2, <1>3, <2>1, <3>1
  <2>2. CASE j \in 1..Len(v)
    <3>1. j - 1 \in 1..Len(v)
      BY <1>2, <1>7, <2>2
    <3> QED
      BY <1>3, <1>7, <2>2, <3>1 DEF Follows
  <2> QED BY <1>5, <2>1, <2>2
<1>8. Entered(p, type, n, call, w[1])
  BY <1>2, <1>3 DEF Follows
<1> QED
  BY <1>3, <1>4, <1>6, <1>7, <1>8 DEF Follows, w

\* The stack is still followed when its top activation ends; the last one keeps its
\* contract.
LEMMA MethodLeft ==
  ASSUME NEW p, NEW S, NEW type, NEW n, NEW call, NEW v, Follows(p, S, type, n, call, v),
         Closed(p, S), Finished(p, Last(v))
  PROVE  IF Len(v) = 1 THEN Kept(p, type, n, call, Last(v).s.x, Last(v).s.res)
         ELSE /\ Front(v) # <<>> /\ Follows(p, S, type, n, call, Front(v))
              /\ CalledFrom(p, type, Last(Front(v)), Last(v))
<1>1. v \in Seq(S) /\ v # <<>>
  BY DEF Follows
<1>2. /\ Len(v) \in Nat /\ Len(v) >= 1 /\ Len(v) \in 1..Len(v) /\ 1 \in 1..Len(v)
      /\ Last(v) = v[Len(v)] /\ Last(v) \in S
  BY <1>1, TopOf
<1>3. CASE Len(v) = 1
  <2> DEFINE a == v[1]
             m == FoundMethod(p, type, n)
  <2>1. a = Last(v) /\ Honest(p, type, a) /\ Entered(p, type, n, call, a) /\ a \in S
    BY <1>2, <1>3 DEF Follows
  <2> HIDE DEF a
  <2>2. KeepsItsContract(p, a)
    BY <2>1 DEF Closed, Verifies
  <2>3. MethodOf(p, a) = m /\ a.n = n
    BY <2>1 DEF Entered, MethodOf, FoundMethod
  <2>4. PermissionOf(m.gives) \subseteq a.s.hold /\ (n # "init" => a.s.res \in m.post)
    BY <2>2, <2>3 DEF KeepsItsContract
  <2>5. m.gives = "pred" => a.s.x \in BodyFor(p, type)
    BY <2>1, <2>4 DEF Honest, HonestState, PermissionOf
  <2>6. n # "init" /\ m.needs = "none" => a.s.x = call.x
    BY <2>1, <2>3 DEF Entered, Poor
  <2> QED
    BY <1>3, <2>1, <2>4, <2>5, <2>6 DEF Kept
<1>4. CASE Len(v) # 1
  <2> DEFINE w == Front(v)
             k == Len(v) - 1
  <2>1. /\ w \in Seq(S) /\ Len(w) = k
        /\ \A j \in 1..k : w[j] = v[j]
    BY <1>1, FramesFront
  <2> HIDE DEF w
  <2>2. k \in Nat /\ k >= 1 /\ 1 \in 1..k /\ k \in 1..k /\ Len(v) > 1 /\ \A j \in 1..k : j \in 1..Len(v)
    <3>1. \A i \in Nat : i >= 1 /\ i # 1 =>
            /\ i - 1 \in Nat /\ i - 1 >= 1 /\ 1 \in 1..(i - 1) /\ i - 1 \in 1..(i - 1) /\ i > 1
            /\ \A j \in 1..(i - 1) : j \in 1..i
      OBVIOUS
    <3> QED BY <1>2, <1>4, <3>1
  <2>3. w # <<>> /\ Last(w) = v[k]
    BY <2>1, <2>2, EmptySeq DEF Last
  <2>4. CalledFrom(p, type, v[k], v[Len(v)])
    BY <1>2, <2>2 DEF Follows
  <2>5. \A j \in 1..k : Honest(p, type, w[j])
    BY <2>1, <2>2 DEF Follows
  <2>6. ASSUME NEW j \in 1..k, j > 1 PROVE CalledFrom(p, type, w[j - 1], w[j])
    <3>1. j - 1 \in 1..k /\ j \in 1..Len(v)
      BY <2>2, <2>6
    <3> QED
      BY <2>1, <2>6, <3>1 DEF Follows
  <2>7. Entered(p, type, n, call, w[1])
    BY <2>1, <2>2 DEF Follows
  <2>8. Follows(p, S, type, n, call, w)
    BY <2>1, <2>3, <2>5, <2>6, <2>7 DEF Follows
  <2> QED
    BY <1>2, <1>4, <2>3, <2>4, <2>8 DEF w
<1> QED
  BY <1>3, <1>4

-----------------------------------------------------------------------------
(* A run                                                                   *)

RunState(type, n, call, stack, x, res) ==
  [at |-> "run", type |-> type, n |-> n, call |-> call, stack |-> stack,
   x |-> x, res |-> res, ok |-> TRUE]

\* A run goes well: verification follows its stack, up to x and the result.
Runs(p, S, run, type, n, call, v, x, res) ==
  /\ type \in DOMAIN p
  /\ run = RunState(type, n, call, Frames(v), x, res)
  /\ IF v = <<>> THEN Kept(p, type, n, call, x, res)
     ELSE Follows(p, S, type, n, call, v) /\ Last(v).s.x = x /\ Last(v).s.res = res

\* A step of a run changes stack, field and result only.
LEMMA RunGoes ==
  ASSUME NEW type, NEW n, NEW call, NEW stack, NEW x, NEW res,
         state = RunState(type, n, call, stack, x, res),
         NEW stack2, NEW x2, NEW res2
  PROVE  Goes(stack2, x2, res2) = RunState(type, n, call, stack2, x2, res2)
<1> DEFINE yes == TRUE
           R(f, y, r) == [at |-> "run", type |-> type, n |-> n, call |-> call, stack |-> f,
                          x |-> y, res |-> r, ok |-> yes]
           r1 == [state EXCEPT !.stack = stack2]
           r2 == [r1 EXCEPT !.x = x2]
<1>1. state = R(stack, x, res) /\ RunState(type, n, call, stack2, x2, res2) = R(stack2, x2, res2)
  BY DEF RunState
<1> HIDE DEF yes
<1>2. r1 = R(stack2, x, res)
  BY <1>1
<1>3. r2 = R(stack2, x2, res)
  <2> HIDE DEF r1
  <2> QED BY <1>2
<1>4. [r2 EXCEPT !.res = res2] = R(stack2, x2, res2)
  <2> HIDE DEF r2
  <2> QED BY <1>3
<1> QED
  BY <1>1, <1>4 DEF Goes

\* A frame has what the positions of its activation depend on.
LEMMA FramesDecide ==
  ASSUME NEW p, NEW a
  PROVE  /\ FrameOf(a).n = a.n /\ FrameOf(a).at = a.at /\ FrameOf(a).arg = a.arg
         /\ BodyEnds(p, FrameOf(a)) <=> BodyEnds(p, a)
         /\ Finished(p, FrameOf(a)) <=> Finished(p, a)
         /\ Statement(p, FrameOf(a)) = Statement(p, a)
         /\ NextStatement(FrameOf(a)) = NextStatement(a)
         /\ EnteredSuper(p, FrameOf(a)) = EnteredSuper(p, a)
<1>1. FrameOf(a).n = a.n /\ FrameOf(a).at = a.at /\ FrameOf(a).arg = a.arg
  BY DEF FrameOf
<1>2. BodyOf(p, FrameOf(a)) = BodyOf(p, a)
  BY <1>1 DEF BodyOf
<1>3. NextStatement(FrameOf(a)) = NextStatement(a)
  BY <1>1 DEF NextStatement
<1>4. BodyEnds(p, FrameOf(a)) <=> BodyEnds(p, a)
  BY <1>1, <1>2 DEF BodyEnds
<1>5. Finished(p, FrameOf(a)) <=> Finished(p, a)
  BY <1>1, <1>4 DEF Finished
<1>6. Statement(p, FrameOf(a)) = Statement(p, a)
  BY <1>1, <1>2 DEF Statement
<1>7. EnteredSuper(p, FrameOf(a)) = EnteredSuper(p, a)
  BY <1>1, <1>3 DEF EnteredSuper
<1> QED
  BY <1>1, <1>3, <1>4, <1>5, <1>6, <1>7

\* The activation on top goes on.
LEMMA TopMoves ==
  ASSUME NEW p, NEW S, NEW type, NEW n, NEW call, NEW v, NEW x, NEW res,
         Runs(p, S, state, type, n, call, v, x, res), v # <<>>,
         NEW c \in S, Honest(p, type, c), Continues(p, Last(v), c)
  PROVE  \E w : Runs(p, S, Goes(MovedTo(state.stack, c.at), c.s.x, c.s.res),
                     type, n, call, w, c.s.x, c.s.res)
<1> DEFINE w == Replaced(v, c)
           run == Goes(Frames(w), c.s.x, c.s.res)
<1>1. state = RunState(type, n, call, Frames(v), x, res) /\ type \in DOMAIN p
  BY DEF Runs
<1>2. state.stack = Frames(v)
  BY <1>1 DEF RunState
<1>3. Follows(p, S, type, n, call, v)
  BY DEF Runs
<1>4. v \in Seq(S)
  BY <1>3 DEF Follows
<1>5. Follows(p, S, type, n, call, w) /\ Last(w) = c
  BY <1>3, TopContinues
<1>6. MovedTo(Frames(v), c.at) = Frames(w)
  BY <1>4, FramesMoved DEF Continues
<1>7. w # <<>>
  BY <1>5 DEF Follows
<1> HIDE DEF w
<1>8. run = RunState(type, n, call, Frames(w), c.s.x, c.s.res)
  BY <1>1, RunGoes
<1> HIDE DEF run
<1>9. Runs(p, S, run, type, n, call, w, c.s.x, c.s.res)
  BY <1>1, <1>5, <1>7, <1>8 DEF Runs
<1> QED
  BY <1>2, <1>6, <1>9 DEF run

\* A program whose hierarchy is translated as Python expects, and all its checks.
Sound(p) == IsChain(p) /\ NoGaps(p) /\ OwnConstructors(p) /\ OverridesVerify(p)

\* Python's execution of a statement is followed by the verification.
LEMMA StatementsRun ==
  ASSUME ClassesAssumption, NEW p, Sound(p), NEW S, Closed(p, S),
         NEW type, NEW n, NEW call, NEW v, NEW x, NEW res,
         Runs(p, S, state, type, n, call, v, x, res), v # <<>>,
         ~ BodyEnds(p, Last(v))
  PROVE  \E w, y, r : Runs(p, S, Executed(p, FrameOf(Last(v))), type, n, call, w, y, r)
<1> DEFINE a == Last(v)
           f == FrameOf(a)
           st == Statement(p, a)
           next == MovedTo(state.stack, NextStatement(a))
<1>1. type \in DOMAIN p /\ state = RunState(type, n, call, Frames(v), x, res)
  BY DEF Runs
<1>2. state.type = type /\ state.x = x /\ state.res = res /\ state.stack = Frames(v)
  BY <1>1 DEF RunState
<1>3. Follows(p, S, type, n, call, v) /\ a.s.x = x /\ a.s.res = res
  BY DEF Runs
<1>4. v \in Seq(S) /\ a \in S /\ Honest(p, type, a)
  <2>1. v \in Seq(S)
    BY <1>3 DEF Follows
  <2> QED
    BY <1>3, <2>1, TopOf DEF Follows
<1>5. f.arg = a.arg /\ Statement(p, f) = st /\ NextStatement(f) = NextStatement(a)
        /\ EnteredSuper(p, f) = EnteredSuper(p, a)
  BY FramesDecide
<1>6. IsStatement(p, Last(a.at).code, a.n, st)
  BY <1>1, <1>4, StatementsAreLegal DEF Honest, Sound
<1>7. st = Statement(p, a) /\ ~ BodyEnds(p, a)
  OBVIOUS
<1>8. IsChain(p) /\ NoGaps(p) /\ OwnConstructors(p) /\ OverridesVerify(p)
  BY DEF Sound
<1> HIDE DEF a, f, st
<1>9. CASE st.op \notin {"call", "super"}
  <2>1. st.op = "get" => x # None
    BY <1>1, <1>3, <1>4, <1>7, <1>8, <1>9, StepsContinue
  <2>2. PICK c \in S : /\ Honest(p, type, c) /\ Continues(p, a, c) /\ c.at = NextStatement(a)
                       /\ c.s.x = ValueAfter(a, st) /\ c.s.res = ResultAfter(a, st)
    BY <1>1, <1>4, <1>7, <1>8, <1>9, StepsContinue
  <2>3. Executed(p, f) = Goes(next, c.s.x, c.s.res)
    <3> HIDE DEF next
    <3>1. CASE st.op = "set"
      <4>1. c.s.x = st.v /\ c.s.res = res
        BY <1>3, <2>2, <3>1 DEF ValueAfter, ResultAfter
      <4> QED
        BY <1>2, <1>5, <3>1, <4>1 DEF Executed, next
    <3>2. CASE st.op = "setarg"
      <4>1. c.s.x = a.arg /\ c.s.res = res
        BY <1>3, <2>2, <3>2 DEF ValueAfter, ResultAfter
      <4> QED
        BY <1>2, <1>5, <3>2, <4>1 DEF Executed, next
    <3>3. CASE st.op = "get"
      <4>1. c.s.x = x /\ c.s.res = x
        BY <1>3, <2>2, <3>3 DEF ValueAfter, ResultAfter
      <4> QED
        BY <1>2, <1>5, <2>1, <3>3, <4>1 DEF Executed, next
    <3>4. CASE st.op = "ret"
      <4>1. c.s.x = x /\ c.s.res = st.v
        BY <1>3, <2>2, <3>4 DEF ValueAfter, ResultAfter
      <4> QED
        BY <1>2, <1>5, <3>4, <4>1 DEF Executed, next
    <3>5. CASE st.op \in {"fold", "unfold"}
      <4>1. c.s.x = x /\ c.s.res = res
        BY <1>3, <2>2, <3>5 DEF ValueAfter, ResultAfter
      <4> QED
        BY <1>2, <1>5, <3>5, <4>1 DEF Executed, next
    <3> QED
      BY <1>6, <1>9, <3>1, <3>2, <3>3, <3>4, <3>5 DEF IsStatement
  <2>4. Executed(p, f) = Goes(MovedTo(state.stack, c.at), c.s.x, c.s.res)
    BY <2>2, <2>3
  <2> QED
    BY <1>1, <2>2, <2>4, TopMoves DEF a, f
<1>10. CASE st.op = "super"
  <2>1. PICK c \in S : /\ Honest(p, type, c) /\ Continues(p, a, c) /\ c.at = EnteredSuper(p, a)
                       /\ c.s.x = a.s.x /\ c.s.res = None
    BY <1>1, <1>4, <1>7, <1>8, <1>10, SuperContinues
  <2>2. Executed(p, f) = Goes(MovedTo(state.stack, EnteredSuper(p, a)), x, None)
    BY <1>2, <1>5, <1>10 DEF Executed
  <2>3. Executed(p, f) = Goes(MovedTo(state.stack, c.at), c.s.x, c.s.res)
    BY <1>3, <2>1, <2>2
  <2> QED
    BY <2>1, <2>3, TopMoves DEF a, f
<1>11. CASE st.op = "call"
  <2>1. PICK b \in S : /\ Honest(p, type, b) /\ CalledFrom(p, type, a, b)
                       /\ b.at = <<StartOf(DefiningClass(p, type, Statement(p, a).n))>>
                       /\ b.arg = a.arg /\ b.s.x = a.s.x /\ b.s.res = None
    <3>1. Statement(p, a).op = "call"
      BY <1>7, <1>11
    <3> QED
      BY <1>1, <1>4, <1>7, <1>8, <3>1, CallsEnterMethods
  <2> DEFINE w == Append(v, b)
  <2>2. Activation(p, type, st.n, a.arg) = FrameOf(b)
    <3>1. a.arg # None
      BY <1>4 DEF Honest, ClassesAssumption
    <3>2. b.n = st.n
      BY <1>7, <2>1 DEF CalledFrom
    <3> QED
      BY <1>7, <2>1, <3>1, <3>2 DEF Activation, FrameOf
  <2>3. Follows(p, S, type, n, call, w) /\ Last(w) = b
    <3>1. CalledFrom(p, type, Last(v), b)
      BY <2>1 DEF a
    <3> QED
      BY <1>3, <2>1, <3>1, MethodEntered
  <2>4. Append(Frames(v), FrameOf(b)) = Frames(w)
    BY <1>4, FramesAppended
  <2>5. Executed(p, f) = Goes(Append(Frames(v), FrameOf(b)), x, None)
    <3>1. Executed(p, f) = Goes(Append(state.stack, Activation(p, state.type, st.n, f.arg)), state.x, None)
      BY <1>5, <1>11 DEF Executed
    <3> QED
      BY <1>2, <1>5, <2>2, <3>1
  <2> HIDE DEF w
  <2>6. Executed(p, f) = RunState(type, n, call, Frames(w), x, None)
    <3>1. Goes(Frames(w), x, None) = RunState(type, n, call, Frames(w), x, None)
      BY <1>1, RunGoes
    <3> QED
      BY <2>4, <2>5, <3>1
  <2>7. w # <<>>
    BY <2>3 DEF Follows
  <2>8. Runs(p, S, Executed(p, f), type, n, call, w, x, None)
    BY <1>1, <1>3, <2>1, <2>3, <2>6, <2>7 DEF Runs
  <2> QED
    BY <2>8 DEF a, f
<1> QED
  BY <1>9, <1>10, <1>11

\* Python's return from super is followed by the verification.
LEMMA SupersReturn ==
  ASSUME NEW p, Sound(p), NEW S, Closed(p, S),
         NEW type, NEW n, NEW call, NEW v, NEW x, NEW res,
         Runs(p, S, state, type, n, call, v, x, res), v # <<>>,
         BodyEnds(p, Last(v)), Len(Last(v).at) # 1
  PROVE  \E w, y, r : Runs(p, S, Goes(MovedTo(state.stack, Front(Last(v).at)), state.x, state.res),
                           type, n, call, w, y, r)
<1>1. type \in DOMAIN p /\ state = RunState(type, n, call, Frames(v), x, res)
  BY DEF Runs
<1>2. state.x = x /\ state.res = res
  BY <1>1 DEF RunState
<1>3. Follows(p, S, type, n, call, v) /\ Last(v).s.x = x /\ Last(v).s.res = res
  BY DEF Runs
<1>4. Last(v) \in S /\ Honest(p, type, Last(v))
  <2>1. v \in Seq(S)
    BY <1>3 DEF Follows
  <2> QED
    BY <1>3, <2>1, TopOf DEF Follows
<1>5. PICK c \in S : /\ Honest(p, type, c) /\ Continues(p, Last(v), c) /\ c.at = Front(Last(v).at)
                     /\ c.s.x = Last(v).s.x /\ c.s.res = Last(v).s.res
  BY <1>1, <1>4, ReturnsContinue DEF Sound
<1> QED
  BY <1>2, <1>3, <1>5, TopMoves

\* Python's return to a caller is followed: the caller assumed no more than it
\* gets.
LEMMA MethodsReturn ==
  ASSUME ClassesAssumption, NEW p, Sound(p), NEW S, Closed(p, S),
         NEW type, NEW n, NEW call, NEW v, NEW x, NEW res,
         Runs(p, S, state, type, n, call, v, x, res), v # <<>>,
         Finished(p, Last(v))
  PROVE  \E w, y, r : Runs(p, S, Goes(Resumed(Front(state.stack)), state.x, state.res),
                           type, n, call, w, y, r)
<1> DEFINE b == Last(v)
<1>1. type \in DOMAIN p /\ state = RunState(type, n, call, Frames(v), x, res)
  BY DEF Runs
<1>2. state.x = x /\ state.res = res /\ state.stack = Frames(v)
  BY <1>1 DEF RunState
<1>3. Follows(p, S, type, n, call, v) /\ b.s.x = x /\ b.s.res = res
  BY DEF Runs
<1>4. v \in Seq(S)
  BY <1>3 DEF Follows
<1>5. b \in S /\ Honest(p, type, b)
  BY <1>3, <1>4, TopOf DEF Follows
<1>6. /\ Front(Frames(v)) = Frames(Front(v)) /\ Front(v) \in Seq(S)
      /\ Len(Front(v)) = Len(v) - 1
  BY <1>4, FramesFront
<1>7. IF Len(v) = 1 THEN Kept(p, type, n, call, b.s.x, b.s.res)
      ELSE /\ Front(v) # <<>> /\ Follows(p, S, type, n, call, Front(v))
           /\ CalledFrom(p, type, Last(Front(v)), b)
  BY <1>3, MethodLeft
<1> HIDE DEF b
<1>8. CASE Len(v) = 1
  <2>1. Front(v) = <<>>
    BY <1>6, <1>8, EmptySeq
  <2>2. Frames(<<>>) = <<>>
    BY DEF Frames
  <2>3. Resumed(Front(state.stack)) = Frames(<<>>)
    BY <1>2, <1>6, <2>1, <2>2 DEF Resumed
  <2>4. Goes(Frames(<<>>), x, res) = RunState(type, n, call, Frames(<<>>), x, res)
    BY <1>1, RunGoes
  <2>5. Runs(p, S, Goes(Resumed(Front(state.stack)), state.x, state.res), type, n, call, <<>>, x, res)
    BY <1>1, <1>2, <1>3, <1>7, <1>8, <2>3, <2>4 DEF Runs
  <2> QED
    BY <2>5
<1>9. CASE Len(v) # 1
  <2> DEFINE u == Front(v)
             a == Last(u)
  <2>1. u \in Seq(S) /\ u # <<>> /\ Follows(p, S, type, n, call, u) /\ CalledFrom(p, type, a, b)
    BY <1>6, <1>7, <1>9
  <2> HIDE DEF u
  <2>2. a \in S /\ Honest(p, type, a)
    BY <2>1, TopOf DEF Follows
  <2> HIDE DEF a
  <2>3. PICK c \in S : /\ Honest(p, type, c) /\ Continues(p, a, c) /\ c.at = NextStatement(a)
                       /\ c.s.x = b.s.x /\ c.s.res = b.s.res
    BY <1>1, <1>5, <2>1, <2>2, CallsGoOn DEF Sound, b
  <2> DEFINE w == Replaced(u, c)
  <2>4. Follows(p, S, type, n, call, w) /\ Last(w) = c
    BY <2>1, <2>3, TopContinues DEF a
  <2>5. Resumed(Front(state.stack)) = Frames(w)
    <3>1. Frames(u) # <<>> /\ Last(Frames(u)) = FrameOf(a)
      BY <2>1, FramesOfTop DEF a
    <3>2. Resumed(Frames(u)) = MovedTo(Frames(u), NextStatement(FrameOf(a)))
      BY <3>1 DEF Resumed
    <3>3. NextStatement(FrameOf(a)) = c.at
      BY <2>3, FramesDecide
    <3>4. MovedTo(Frames(u), c.at) = Frames(w)
      BY <2>1, <2>3, FramesMoved DEF Continues, a
    <3> QED
      BY <1>2, <1>6, <3>2, <3>3, <3>4 DEF u
  <2>6. w # <<>>
    BY <2>4 DEF Follows
  <2> HIDE DEF w
  <2>7. Goes(Frames(w), x, res) = RunState(type, n, call, Frames(w), x, res)
    BY <1>1, RunGoes
  <2>8. Runs(p, S, Goes(Resumed(Front(state.stack)), state.x, state.res), type, n, call, w, x, res)
    BY <1>1, <1>2, <1>3, <2>3, <2>4, <2>5, <2>6, <2>7 DEF Runs
  <2> QED
    BY <2>8
<1> QED
  BY <1>8, <1>9

\* A caller that knows a method of a class above, and its contract.
LEMMA MethodsStart ==
  ASSUME ClassesAssumption, NEW p, Sound(p), NEW S, Closed(p, S),
         NEW type \in DOMAIN p, NEW n, NEW c \in Callers(p, type, n),
         NEW call \in AllowedCalls(p, type, n, FoundMethod(p, c, n))
  PROVE  \E v : Runs(p, S, RunState(type, n, call, <<Activation(p, type, n, call.arg)>>, call.x, None),
                     type, n, call, v, call.x, None)
<1> DEFINE l == FoundMethod(p, type, n)
           m == FoundMethod(p, c, n)
           arg == IF call.arg = None THEN l.default ELSE call.arg
           x == call.x
<1>1. IsChain(p) /\ NoGaps(p) /\ OwnConstructors(p) /\ OverridesVerify(p)
  BY DEF Sound
<1>2. type \in Nat /\ c \in 1..type /\ c \in DOMAIN p /\ HasOrInherits(p, c, n)
  BY <1>1 DEF IsChain, Callers
<1>3. Calls(p, c, type, n)
  BY <1>2 DEF Calls, Callers, HasClassMethod
<1>4. HasOrInherits(p, type, n) /\ Refines(l, m, n)
  BY <1>1, <1>2, <1>3, InheritedFurther, MethodsRefine
<1>5. IsMethod(p, DefiningClass(p, type, n), n, l)
  BY <1>1, <1>4, StartsVerified DEF FoundMethod
<1>6. IsMethod(p, DefiningClass(p, c, n), n, m)
  BY <1>1, <1>2, StartsVerified DEF FoundMethod
<1>7. /\ call.arg \in m.pre \cup (IF m.default \in m.pre THEN {None} ELSE {})
      /\ x \in IF n = "init" THEN {None} ELSE IF m.needs = "pred" THEN Promised(p, type) ELSE FieldValues
  BY DEF AllowedCalls
<1>8. BodyFor(p, type) = Promised(p, type)
  BY <1>1, BodyIsPromised
<1>9. l = FoundMethod(p, type, n)
  OBVIOUS
<1> HIDE DEF l, m
<1>10. arg \in l.pre
  <2>1. m.pre \subseteq FieldValues /\ None \notin FieldValues
    BY <1>6 DEF IsMethod, ClassesAssumption
  <2>2. m.pre \subseteq l.pre /\ l.default = m.default
    BY <1>4 DEF Refines, DefaultsMatch
  <2> QED
    BY <1>7, <2>1, <2>2
<1>11. Suits(p, type, n, l, x)
  <2>1. /\ l.needs \in {"none", "field", "pred"} /\ m.needs \in {"none", "field", "pred"}
        /\ PermissionOf(l.needs) \subseteq PermissionOf(m.needs)
    BY <1>4, <1>5, <1>6 DEF IsMethod, Refines
  <2>2. Promised(p, type) \subseteq FieldValues
    BY DEF Promised
  <2> HIDE DEF x
  <2> QED
    BY <1>7, <1>8, <2>1, <2>2 DEF Suits, PermissionOf
<1> HIDE DEF arg, x
<1>12. PICK b \in S : EntersAt(p, type, n, arg, x, b)
  BY <1>1, <1>4, <1>9, <1>10, <1>11, CallsEnter
<1> DEFINE v == <<b>>
<1>13. v \in Seq(S) /\ v # <<>> /\ Len(v) = 1 /\ v[1] = b /\ Last(v) = b
  BY DEF Last
<1>14. Frames(v) = <<Activation(p, type, n, call.arg)>>
  <2>1. Activation(p, type, n, call.arg) = FrameOf(b)
    BY <1>9, <1>12 DEF Activation, FrameOf, EntersAt, arg
  <2>2. Frames(v) = [j \in 1..1 |-> FrameOf(b)]
    BY <1>13 DEF Frames
  <2> QED
    BY <2>1, <2>2
<1>15. Entered(p, type, n, call, b)
  BY <1>12 DEF Entered, EntersAt, StartOf, x
<1> HIDE DEF v
<1>16. Follows(p, S, type, n, call, v)
  BY <1>12, <1>13, <1>15 DEF Follows, EntersAt
<1>17. Runs(p, S, RunState(type, n, call, Frames(v), x, None), type, n, call, v, x, None)
  BY <1>12, <1>13, <1>16 DEF Runs, EntersAt
<1> QED
  BY <1>14, <1>17 DEF x

\* Whatever contract the caller knows, the method that Python found keeps it.
LEMMA RunsKeepContracts ==
  ASSUME NEW p, Sound(p), NEW S, NEW run, NEW type, NEW n, NEW call, NEW v, NEW x, NEW res,
         Runs(p, S, run, type, n, call, v, x, res),
         NEW c \in Callers(p, type, n),
         NEW m, m = FoundMethod(p, c, n), call \in AllowedCalls(p, type, n, m)
  PROVE  /\ run.type = type /\ run.n = n /\ run.call = call
         /\ run.ok
         /\ run.stack = <<>> => /\ m.gives = "pred" => run.x \in Promised(p, type)
                                /\ n # "init" => run.res \in m.post
<1> DEFINE l == FoundMethod(p, type, n)
<1>1. IsChain(p) /\ NoGaps(p) /\ OwnConstructors(p) /\ OverridesVerify(p)
  BY DEF Sound
<1>2. type \in DOMAIN p /\ run = RunState(type, n, call, Frames(v), x, res)
  BY DEF Runs
<1>3. run.type = type /\ run.n = n /\ run.call = call /\ run.ok /\ run.stack = Frames(v)
        /\ run.x = x /\ run.res = res
  BY <1>2 DEF RunState
<1>4. type \in Nat /\ c \in 1..type /\ c \in DOMAIN p /\ HasOrInherits(p, c, n)
  BY <1>1, <1>2 DEF IsChain, Callers
<1>5. Calls(p, c, type, n)
  BY <1>2, <1>4 DEF Calls, Callers, HasClassMethod
<1>6. HasOrInherits(p, type, n) /\ Refines(l, m, n)
  BY <1>1, <1>4, <1>5, InheritedFurther, MethodsRefine
<1>7. ASSUME NEW d \in DOMAIN p, HasOrInherits(p, d, n)
      PROVE  IsMethod(p, DefiningClass(p, d, n), n, FoundMethod(p, d, n))
  <2>1. d \in Nat /\ d \in 1..Len(p) /\ DOMAIN p = 1..Len(p) /\ Len(p) \in Nat
    BY <1>1 DEF IsChain
  <2>2. DefiningClass(p, d, n) \in 1..d /\ HasMethod(p, DefiningClass(p, d, n), n)
    BY <1>7, <2>1, DefiningClassDefines
  <2>3. DefiningClass(p, d, n) \in DOMAIN p
    BY <2>1, <2>2
  <2> QED
    BY <1>1, <2>2, <2>3 DEF IsChain, HasMethod, FoundMethod
<1>8. IsMethod(p, DefiningClass(p, type, n), n, l) /\ IsMethod(p, DefiningClass(p, c, n), n, m)
  BY <1>2, <1>4, <1>6, <1>7
<1>9. BodyFor(p, type) = Promised(p, type)
  BY <1>1, <1>2, BodyIsPromised
<1>10. ASSUME run.stack = <<>>
       PROVE  (m.gives = "pred" => x \in Promised(p, type)) /\ (n # "init" => res \in m.post)
  <2>1. v = <<>>
    <3>1. ASSUME v # <<>> PROVE FALSE
      <4>1. v \in Seq(S)
        BY <3>1 DEF Runs, Follows
      <4> QED
        BY <1>3, <1>10, <3>1, <4>1, FramesOfTop
    <3> QED BY <3>1
  <2>2. Kept(p, type, n, call, x, res)
    BY <2>1 DEF Runs
  <2>3. /\ l.gives = "pred" => x \in BodyFor(p, type)
        /\ n # "init" => res \in l.post
        /\ n # "init" /\ l.needs = "none" => x = call.x
    BY <2>2 DEF Kept
  <2> HIDE DEF l
  <2>4. n # "init" => res \in m.post
    BY <1>6, <2>3 DEF Refines
  <2>5. /\ l.needs \in {"none", "field", "pred"} /\ l.gives \in {"none", "field", "pred"}
        /\ m.needs \in {"none", "field", "pred"} /\ (n = "init" => m.needs = "none")
        /\ PermissionOf(m.gives) \subseteq (PermissionOf(m.needs) \ PermissionOf(l.needs)) \cup PermissionOf(l.gives)
        /\ PermissionOf(l.needs) \subseteq PermissionOf(m.needs)
    BY <1>6, <1>8 DEF Refines, IsMethod
  <2>6. CASE m.gives = "pred" /\ l.gives # "pred"
    <3>1. m.needs = "pred" /\ l.needs = "none" /\ n # "init"
      BY <2>5, <2>6 DEF PermissionOf
    <3>2. call.x \in Promised(p, type)
      BY <3>1 DEF AllowedCalls
    <3> QED
      BY <2>3, <2>4, <3>1, <3>2
  <2> QED
    BY <1>9, <2>3, <2>4, <2>6
<1> QED
  BY <1>3, <1>10

\* Verification has been through the states of S, and has those of open to do.
Explored(p, S, open) ==
  /\ VerifiedBodies(p) \subseteq S \cup open
  /\ \A a \in S : Verifies(p, a) /\ Successors(p, a) \subseteq S \cup open

ClassesInv ==
  /\ IsChain(Chain) /\ NoGaps(Chain) /\ OwnConstructors(Chain)
  /\ state.at = "verify" => /\ state = [at |-> "verify", open |-> state.open]
                            /\ OverridesVerify(Chain)
                            /\ \E S : Explored(Chain, S, state.open)
  /\ state.at = "run" => /\ OverridesVerify(Chain)
                         /\ \E S : /\ Closed(Chain, S)
                                   /\ \E type, n, call, v, x, res :
                                        Runs(Chain, S, state, type, n, call, v, x, res)

\* Every step of a run keeps the invariant.
LEMMA RunsStepOn ==
  ASSUME ClassesAssumption, ClassesInv, At("run"), RunStep \/ ReturnFromSuper \/ ReturnFromMethod
  PROVE  ClassesInv'
<1> DEFINE p == Chain
<1>1. Sound(p) /\ task' = task
  BY DEF ClassesInv, At, Sound, RunStep, ReturnFromSuper, ReturnFromMethod
<1>2. PICK S : Closed(p, S) /\ \E type, n, call, v, x, res : Runs(p, S, state, type, n, call, v, x, res)
  BY DEF ClassesInv, At
<1>3. PICK type, n, call, v, x, res : Runs(p, S, state, type, n, call, v, x, res)
  BY <1>2
<1>4. state.stack = Frames(v)
  BY <1>3 DEF Runs, RunState
<1>5. v # <<>>
  <2>1. Frames(<<>>) = <<>>
    BY DEF Frames
  <2> QED
    BY <1>4, <2>1 DEF RunStep, ReturnFromSuper, ReturnFromMethod, Running
<1>6. TopActivation = FrameOf(Last(v))
  <2>1. v \in Seq(S)
    BY <1>3, <1>5 DEF Runs, Follows
  <2> QED
    BY <1>4, <1>5, <2>1, FramesOfTop DEF TopActivation
<1>7. \E w, y, r : Runs(p, S, state', type, n, call, w, y, r)
  <2>1. CASE RunStep
    <3>1. ~ BodyEnds(p, Last(v)) /\ state' = Executed(p, FrameOf(Last(v)))
      BY <1>6, <2>1, FramesDecide DEF RunStep
    <3>2. \E w, y, r : Runs(p, S, Executed(p, FrameOf(Last(v))), type, n, call, w, y, r)
      BY <1>1, <1>2, <1>3, <1>5, <3>1, StatementsRun
    <3> QED
      BY <3>1, <3>2
  <2>2. CASE ReturnFromSuper
    <3>1. FrameOf(Last(v)).at = Last(v).at
      BY FramesDecide
    <3>2. BodyEnds(p, Last(v)) /\ Len(Last(v).at) # 1
      <4>1. BodyEnds(p, FrameOf(Last(v))) /\ Len(Last(v).at) > 1
        BY <1>6, <2>2, <3>1 DEF ReturnFromSuper
      <4>2. BodyEnds(p, Last(v))
        BY <4>1, FramesDecide
      <4>3. ASSUME Len(Last(v).at) = 1 PROVE FALSE
        BY <4>1, <4>3
      <4> QED
        BY <4>2, <4>3
    <3>3. state' = Goes(MovedTo(state.stack, Front(Last(v).at)), state.x, state.res)
      BY <1>6, <2>2, <3>1 DEF ReturnFromSuper
    <3>4. \E w, y, r : Runs(p, S, Goes(MovedTo(state.stack, Front(Last(v).at)), state.x, state.res),
                            type, n, call, w, y, r)
      BY <1>1, <1>2, <1>3, <1>5, <3>2, SupersReturn
    <3> QED
      BY <3>3, <3>4
  <2>3. CASE ReturnFromMethod
    <3>1. Finished(p, Last(v))
      BY <1>6, <2>3, FramesDecide DEF ReturnFromMethod
    <3>2. state' = Goes(Resumed(Front(state.stack)), state.x, state.res)
      BY <2>3 DEF ReturnFromMethod
    <3>3. \E w, y, r : Runs(p, S, Goes(Resumed(Front(state.stack)), state.x, state.res),
                            type, n, call, w, y, r)
      BY <1>1, <1>2, <1>3, <1>5, <3>1, MethodsReturn
    <3> QED
      BY <3>2, <3>3
  <2> QED BY <2>1, <2>2, <2>3
<1>8. PICK w, y, r : Runs(p, S, state', type, n, call, w, y, r)
  BY <1>7
<1>9. state'.at = "run"
  BY <1>8 DEF Runs, RunState
<1>10. Chain' = Chain
  BY <1>1 DEF Chain
<1> QED
  BY <1>1, <1>2, <1>8, <1>9, <1>10 DEF ClassesInv, Sound

\* A step of the verification keeps the invariant: explored states stay explored.
LEMMA VerificationExplores ==
  ASSUME ClassesInv, VerifyStep
  PROVE  ClassesInv'
<1> DEFINE p == Chain
           next == UNION {Successors(p, a) : a \in state.open}
<1>1. task' = task /\ Chain' = Chain /\ At("verify") /\ state.at = "verify"
  BY DEF VerifyStep, Chain, At
<1>2. state = [at |-> "verify", open |-> state.open] /\ OverridesVerify(p)
  BY <1>1 DEF ClassesInv
<1>3. PICK S : Explored(p, S, state.open)
  BY <1>1 DEF ClassesInv
<1>4. CASE \A a \in state.open : Verifies(p, a)
  <2>1. state' = [state EXCEPT !.open = next]
    BY <1>4 DEF VerifyStep
  <2> HIDE DEF next
  <2>2. state' = [at |-> "verify", open |-> next]
    BY <1>2, <2>1
  <2>3. \A a \in S \cup state.open : Verifies(p, a) /\ Successors(p, a) \subseteq (S \cup state.open) \cup next
    BY <1>3, <1>4 DEF Explored, next
  <2>4. Explored(p, S \cup state.open, next)
    BY <1>3, <2>3 DEF Explored
  <2>5. state'.at = "verify" /\ state'.open = next
    BY <2>2
  <2> QED
    BY <1>1, <1>2, <2>2, <2>4, <2>5 DEF ClassesInv
<1>5. CASE ~ \A a \in state.open : Verifies(p, a)
  <2>1. state' = [at |-> "rejected"]
    BY <1>5 DEF VerifyStep
  <2>2. state'.at = "rejected"
    BY <2>1
  <2> QED
    BY <1>1, <2>2 DEF ClassesInv
<1> QED
  BY <1>4, <1>5

\* A call from outside starts in a state that some verified body starts in.
LEMMA MethodsCalled ==
  ASSUME ClassesAssumption, ClassesInv, CallMethod
  PROVE  ClassesInv'
<1> DEFINE p == Chain
<1>1. task' = task /\ Chain' = Chain /\ At("verify") /\ state.at = "verify" /\ state.open = {}
  BY DEF CallMethod, Chain, At
<1>2. Sound(p)
  BY <1>1 DEF ClassesInv, Sound
<1>3. PICK S : Explored(p, S, {})
  BY <1>1 DEF ClassesInv
<1>4. Closed(p, S)
  BY <1>3 DEF Explored, Closed
<1>5. PICK type \in DOMAIN p : \E n \in AllMethods(p, type) : \E c \in Callers(p, type, n) :
        \E call \in AllowedCalls(p, type, n, FoundMethod(p, c, n)) :
          state' = RunState(type, n, call, <<Activation(p, type, n, call.arg)>>, call.x, None)
  BY DEF CallMethod, RunState
<1>6. PICK n, c, call : /\ c \in Callers(p, type, n) /\ call \in AllowedCalls(p, type, n, FoundMethod(p, c, n))
                       /\ state' = RunState(type, n, call, <<Activation(p, type, n, call.arg)>>, call.x, None)
  BY <1>5
<1>7. PICK v : Runs(p, S, RunState(type, n, call, <<Activation(p, type, n, call.arg)>>, call.x, None),
                    type, n, call, v, call.x, None)
  BY <1>2, <1>4, <1>6, MethodsStart
<1>8. Runs(p, S, state', type, n, call, v, call.x, None)
  BY <1>6, <1>7
<1>9. state'.at = "run"
  BY <1>6 DEF RunState
<1> QED
  BY <1>1, <1>2, <1>4, <1>8, <1>9 DEF ClassesInv, Sound

\* No hierarchy overrides across a gap, or inherits a constructor that does not know
\* a part of the predicate.
RegularHierarchies ==
  \A i \in DOMAIN ClassHierarchies : \A p \in ClassHierarchies[i] : NoGaps(p) /\ OwnConstructors(p)

\* The invariant holds in every state.
LEMMA ClassesInvHolds ==
  ASSUME ClassesAssumption, RegularHierarchies
  PROVE  ClassesSpec => []ClassesInv
<1>1. ClassesInit => ClassesInv
  <2> SUFFICES ASSUME ClassesInit PROVE ClassesInv
    OBVIOUS
  <2>1. PICK i \in DOMAIN ClassHierarchies : \E p \in ClassHierarchies[i] :
          task = [of |-> "classes", program |-> p] /\ state = [at |-> "compare"]
    BY DEF ClassesInit
  <2>2. Chain \in ClassHierarchies[i] /\ state.at = "compare"
    BY <2>1 DEF Chain
  <2> QED
    BY <2>2 DEF ClassesInv, ClassesAssumption, RegularHierarchies
<1>2. ClassesInv /\ [ClassesNext]_vars => ClassesInv'
  <2> SUFFICES ASSUME ClassesInv, [ClassesNext]_vars PROVE ClassesInv'
    OBVIOUS
  <2>1. CASE CompareContracts
    <3>1. task' = task /\ Chain' = Chain
      BY <2>1 DEF CompareContracts, Chain
    <3>2. CASE OverridesVerify(Chain)
      <4>1. state' = [at |-> "verify", open |-> VerifiedBodies(Chain)]
        BY <2>1, <3>2 DEF CompareContracts
      <4>2. state'.at = "verify" /\ state'.open = VerifiedBodies(Chain)
        BY <4>1
      <4>3. Explored(Chain, {}, VerifiedBodies(Chain))
        BY DEF Explored
      <4> QED
        BY <3>1, <3>2, <4>1, <4>2, <4>3 DEF ClassesInv
    <3>3. CASE ~ OverridesVerify(Chain)
      <4>1. state'.at = "rejected"
        BY <2>1, <3>3 DEF CompareContracts
      <4> QED
        BY <3>1, <4>1 DEF ClassesInv
    <3> QED BY <3>2, <3>3
  <2>2. CASE VerifyStep
    BY <2>2, VerificationExplores
  <2>3. CASE CallMethod
    BY <2>3, MethodsCalled
  <2>4. CASE RunStep
    BY <2>4, RunsStepOn DEF RunStep, Running
  <2>5. CASE ReturnFromSuper
    BY <2>5, RunsStepOn DEF ReturnFromSuper, Running
  <2>6. CASE ReturnFromMethod
    BY <2>6, RunsStepOn DEF ReturnFromMethod, Running
  <2>7. CASE UNCHANGED vars
    BY <2>7 DEF vars, ClassesInv, Chain
  <2> QED
    BY <2>1, <2>2, <2>3, <2>4, <2>5, <2>6, <2>7 DEF ClassesNext
<1> QED
  BY <1>1, <1>2, PTL DEF ClassesSpec

\* Behavioural subtyping, for every hierarchy of classes: when the override checks
\* and all verified bodies pass, Python, which picks the method in the class of the
\* receiver, keeps the contract of every class above (program.py
\* create_override_check, create_inherit_check; method.py translate_method).
THEOREM SubtypesAreBehavioural ==
  ASSUME ClassesAssumption, RegularHierarchies
  PROVE  ClassesSpec => []SubclassesKeepContracts
<1>1. ClassesInv => SubclassesKeepContracts
  <2> SUFFICES ASSUME ClassesInv, At("run"), NEW c \in Callers(Chain, state.type, state.n),
                      NEW m, m = FoundMethod(Chain, c, state.n),
                      state.call \in AllowedCalls(Chain, state.type, state.n, m)
               PROVE  /\ state.ok
                      /\ state.stack = <<>> =>
                           /\ m.gives = "pred" => state.x \in Promised(Chain, state.type)
                           /\ state.n # "init" => state.res \in m.post
    BY DEF SubclassesKeepContracts
  <2>1. Sound(Chain)
    BY DEF ClassesInv, At, Sound
  <2>2. PICK S, type, n, call, v, x, res : Runs(Chain, S, state, type, n, call, v, x, res)
    BY DEF ClassesInv, At
  <2>3. state.type = type /\ state.n = n /\ state.call = call
    BY <2>2 DEF Runs, RunState
  <2> QED
    BY <2>1, <2>2, <2>3, RunsKeepContracts
<1>2. ClassesSpec => []ClassesInv
  BY ClassesInvHolds
<1> QED
  BY <1>1, <1>2, PTL
=============================================================================
