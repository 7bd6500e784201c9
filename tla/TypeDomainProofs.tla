--------------------------- MODULE TypeDomainProofs ---------------------------
(***************************************************************************)
(* The domain of declared types decides type checks as Python does, for    *)
(* every hierarchy of classes, finite or not, and every declared type.     *)
(*                                                                         *)
(* First trees: what is above an element is a recursive function, which    *)
(* equals the least closed set, so that the laws of inheritance follow     *)
(* without an induction.  Then the meaning of the terms, `Below`: every    *)
(* axiom derives what is true only (AxiomsAreTrue), and a derivation that  *)
(* has ended holds every ancestor (AncestorsAreDerived) and refutes every  *)
(* known type that is none (OthersAreRefuted).                             *)
(***************************************************************************)
EXTENDS TypeDomain, TLAPS

(* Trees, given by what is next on the way up *)

\* No way up goes on for ever: a set that is closed under it is empty.
IsTree(S, next) ==
  /\ DOMAIN next \subseteq S
  /\ next \in [DOMAIN next -> S]
  /\ \A C \in SUBSET DOMAIN next : (\A x \in C : next[x] \in C) => C = {}

\* The closure of x, as the least set.
IsClosed(S, next, C) == \A y \in C \cap DOMAIN next : next[y] \in C
Closure(S, next, x) == {y \in S : \A C \in SUBSET S : (x \in C /\ IsClosed(S, next, C)) => y \in C}

LEMMA ClosureUnfolds ==
  ASSUME NEW S, NEW next, IsTree(S, next), NEW x \in S
  PROVE  Closure(S, next, x) = {x} \cup (IF x \in DOMAIN next THEN Closure(S, next, next[x]) ELSE {})
<1>1. CASE x \notin DOMAIN next
  <2>1. {x} \in SUBSET S /\ IsClosed(S, next, {x})
    BY <1>1 DEF IsClosed
  <2> QED
    BY <2>1, <1>1 DEF Closure
<1>2. CASE x \in DOMAIN next
  <2>1. next[x] \in S
    BY <1>2 DEF IsTree
  <2> DEFINE above == Closure(S, next, next[x])
  <2>2. IsClosed(S, next, {x} \cup above) /\ {x} \cup above \in SUBSET S
    BY <2>1, <1>2 DEF IsClosed, Closure, IsTree
  <2>3. Closure(S, next, x) \subseteq {x} \cup above
    BY <2>2 DEF Closure
  <2>4. ASSUME NEW C \in SUBSET S, x \in C, IsClosed(S, next, C) PROVE next[x] \in C
    BY <2>4, <1>2 DEF IsClosed
  <2>5. {x} \cup above \subseteq Closure(S, next, x)
    BY <2>4 DEF Closure
  <2> QED
    BY <2>3, <2>5, <1>2
<1> QED
  BY <1>1, <1>2

LEMMA AboveUnfolds ==
  ASSUME NEW S, NEW next, IsTree(S, next), NEW x \in S
  PROVE  Above(S, next, x) = {x} \cup (IF x \in DOMAIN next THEN Above(S, next, next[x]) ELSE {})
<1> DEFINE above == CHOOSE f : f = [y \in S |-> {y} \cup (IF y \in DOMAIN next THEN f[next[y]] ELSE {})]
<1>1. \A y \in S : Above(S, next, y) = above[y]
  BY DEF Above
<1> DEFINE g == [y \in S |-> Closure(S, next, y)]
<1>2. g = [y \in S |-> {y} \cup (IF y \in DOMAIN next THEN g[next[y]] ELSE {})]
  <2>1. ASSUME NEW y \in S PROVE g[y] = {y} \cup (IF y \in DOMAIN next THEN g[next[y]] ELSE {})
    <3>1. y \in DOMAIN next => next[y] \in S
      BY DEF IsTree
    <3> QED
      BY <3>1, ClosureUnfolds
  <2> HIDE DEF g
  <2>2. g = [y \in S |-> g[y]]
    BY DEF g
  <2> QED
    BY <2>1, <2>2
<1> HIDE DEF g
<1>3. above = [y \in S |-> {y} \cup (IF y \in DOMAIN next THEN above[next[y]] ELSE {})]
  BY <1>2
<1> HIDE DEF above
<1>4. x \in DOMAIN next => next[x] \in S
  BY DEF IsTree
<1> QED
  BY <1>1, <1>3, <1>4

LEMMA AboveIsInside ==
  ASSUME NEW S, NEW next, IsTree(S, next)
  PROVE  \A x \in S : x \in Above(S, next, x) /\ Above(S, next, x) \subseteq S
<1> DEFINE C == {x \in DOMAIN next : ~ Above(S, next, x) \subseteq S}
<1>1. \A x \in C : next[x] \in C
  <2> TAKE x \in C
  <2>1. x \in S /\ next[x] \in S
    BY DEF IsTree
  <2>2. Above(S, next, x) = {x} \cup Above(S, next, next[x])
    BY <2>1, AboveUnfolds
  <2>3. next[x] \in DOMAIN next \/ Above(S, next, next[x]) = {next[x]}
    BY <2>1, AboveUnfolds
  <2> QED
    BY <2>1, <2>2, <2>3
<1>2. C = {}
  BY <1>1 DEF IsTree
<1>3. \A x \in S : x \notin DOMAIN next => Above(S, next, x) = {x}
  BY AboveUnfolds
<1> QED
  BY <1>2, <1>3, AboveUnfolds

\* Nothing less than what is above x holds x and is closed.
LEMMA AboveIsLeast ==
  ASSUME NEW S, NEW next, IsTree(S, next), NEW x \in S,
         NEW C, x \in C, \A y \in C \cap DOMAIN next : next[y] \in C
  PROVE  Above(S, next, x) \subseteq C
<1> DEFINE D == {y \in C \cap DOMAIN next : ~ Above(S, next, y) \subseteq C}
<1>1. \A y \in D : next[y] \in D
  <2> TAKE y \in D
  <2>1. y \in S /\ next[y] \in S /\ next[y] \in C
    BY DEF IsTree
  <2>2. Above(S, next, y) = {y} \cup Above(S, next, next[y])
    BY <2>1, AboveUnfolds
  <2>3. next[y] \in DOMAIN next \/ Above(S, next, next[y]) = {next[y]}
    BY <2>1, AboveUnfolds
  <2> QED
    BY <2>1, <2>2, <2>3
<1>2. D = {}
  BY <1>1 DEF IsTree
<1>3. x \notin DOMAIN next => Above(S, next, x) = {x}
  BY AboveUnfolds
<1> QED
  BY <1>2, <1>3

LEMMA AboveIsClosed ==
  ASSUME NEW S, NEW next, IsTree(S, next)
  PROVE  \A x \in S : \A y \in Above(S, next, x) \cap DOMAIN next : next[y] \in Above(S, next, x)
<1> DEFINE C == {x \in DOMAIN next :
                  \E y \in Above(S, next, x) \cap DOMAIN next : next[y] \notin Above(S, next, x)}
<1>1. \A x \in C : next[x] \in C
  <2> TAKE x \in C
  <2>1. x \in S /\ next[x] \in S
    BY DEF IsTree
  <2>2. Above(S, next, x) = {x} \cup Above(S, next, next[x])
    BY <2>1, AboveUnfolds
  <2>3. next[x] \in Above(S, next, next[x])
    BY <2>1, AboveIsInside
  <2>4. next[x] \in DOMAIN next \/ Above(S, next, next[x]) = {next[x]}
    BY <2>1, AboveUnfolds
  <2> QED
    BY <2>1, <2>2, <2>3, <2>4
<1>2. C = {}
  BY <1>1 DEF IsTree
<1>3. \A x \in S : x \notin DOMAIN next => Above(S, next, x) = {x}
  BY AboveUnfolds
<1> QED
  BY <1>2, <1>3

LEMMA AboveIsTransitive ==
  ASSUME NEW S, NEW next, IsTree(S, next), NEW x \in S, NEW y \in Above(S, next, x)
  PROVE  Above(S, next, y) \subseteq Above(S, next, x)
<1>1. y \in S
  BY AboveIsInside
<1>2. \A z \in Above(S, next, x) \cap DOMAIN next : next[z] \in Above(S, next, x)
  BY AboveIsClosed
<1> QED
  BY <1>1, <1>2, AboveIsLeast

\* What is above x and is not x is above its successor.
LEMMA AboveSuccessor ==
  ASSUME NEW S, NEW next, IsTree(S, next), NEW x \in S, NEW y \in Above(S, next, x), y # x
  PROVE  x \in DOMAIN next /\ next[x] \in S /\ y \in Above(S, next, next[x])
<1>1. x \in DOMAIN next
  BY AboveUnfolds
<1> QED
  BY <1>1, AboveUnfolds DEF IsTree

LEMMA AboveIsAntisymmetric ==
  ASSUME NEW S, NEW next, IsTree(S, next), NEW x \in S,
         NEW y \in Above(S, next, x), x \in Above(S, next, y)
  PROVE  x = y
<1> SUFFICES ASSUME x # y PROVE FALSE
  OBVIOUS
<1> DEFINE C == {z \in Above(S, next, x) : x \in Above(S, next, z)}
<1>1. y \in S /\ x \in C
  BY AboveIsInside
<1>2. ASSUME NEW z \in C PROVE z \in DOMAIN next /\ next[z] \in C
  <2>1. z \in S
    BY AboveIsInside
  <2>2. CASE z # x
    BY <2>1, <2>2, AboveSuccessor, AboveIsClosed
  <2>3. CASE z = x
    <3>1. x \in DOMAIN next /\ next[x] \in S /\ y \in Above(S, next, next[x])
      BY AboveSuccessor
    <3>2. x \in Above(S, next, next[x])
      BY <3>1, AboveIsTransitive
    <3> QED
      BY <3>1, <3>2, <2>3, AboveIsClosed
  <2> QED
    BY <2>2, <2>3
<1>3. C = {}
  BY <1>2 DEF IsTree
<1> QED
  BY <1>1, <1>3

\* Of two that are above a third, one is above the other.
LEMMA AboveIsLinear ==
  ASSUME NEW S, NEW next, IsTree(S, next), NEW x \in S,
         NEW y \in Above(S, next, x), NEW z \in Above(S, next, x)
  PROVE  y \in Above(S, next, z) \/ z \in Above(S, next, y)
<1> DEFINE C == {v \in DOMAIN next : \E a, b \in Above(S, next, v) :
                    a \notin Above(S, next, b) /\ b \notin Above(S, next, a)}
<1>1. ASSUME NEW v \in S, NEW a \in Above(S, next, v), NEW b \in Above(S, next, v),
             a \notin Above(S, next, b), b \notin Above(S, next, a)
      PROVE  v \in DOMAIN next /\ next[v] \in C
  <2>1. a # v /\ b # v
    BY <1>1
  <2>2. v \in DOMAIN next /\ next[v] \in S /\ a \in Above(S, next, next[v]) /\ b \in Above(S, next, next[v])
    BY <2>1, AboveSuccessor
  <2>3. next[v] \in DOMAIN next \/ Above(S, next, next[v]) = {next[v]}
    BY <2>2, AboveUnfolds
  <2> QED
    BY <2>2, <2>3, <1>1
<1>2. \A v \in C : next[v] \in C
  BY <1>1 DEF IsTree
<1>3. C = {}
  BY <1>2 DEF IsTree
<1> QED
  BY <1>1, <1>3

LEMMA SuccessorIsNotBelow ==
  ASSUME NEW S, NEW next, IsTree(S, next), NEW x \in DOMAIN next
  PROVE  x \notin Above(S, next, next[x])
<1>1. x \in S /\ next[x] \in S
  BY DEF IsTree
<1>2. next[x] # x
  <2>1. next[x] = x => \A y \in {x} : next[y] \in {x}
    OBVIOUS
  <2> QED
    BY <2>1 DEF IsTree
<1>3. next[x] \in Above(S, next, x)
  BY <1>1, AboveIsInside, AboveIsClosed
<1> QED
  BY <1>1, <1>2, <1>3, AboveIsAntisymmetric

\* What is above x and is not x is the successor of something above x.
LEMMA AboveHasPredecessor ==
  ASSUME NEW S, NEW next, IsTree(S, next), NEW x \in S, NEW y \in Above(S, next, x), y # x
  PROVE  \E z \in Above(S, next, x) \cap DOMAIN next : next[z] = y
<1> SUFFICES ASSUME \A z \in Above(S, next, x) \cap DOMAIN next : next[z] # y PROVE FALSE
  OBVIOUS
<1> DEFINE C == Above(S, next, x) \ {y}
<1>1. x \in C /\ \A z \in C \cap DOMAIN next : next[z] \in C
  BY AboveIsInside, AboveIsClosed
<1> HIDE DEF C
<1>2. Above(S, next, x) \subseteq C
  BY <1>1, AboveIsLeast
<1> QED
  BY <1>2 DEF C

\* On the way up from outside a set to the inside, there is a step that enters it.
LEMMA AboveEnters ==
  ASSUME NEW S, NEW next, IsTree(S, next), NEW x \in S, NEW C, x \notin C,
         \A y \in Above(S, next, x) : y \notin DOMAIN next => y \in C
  PROVE  \E z \in Above(S, next, x) \cap DOMAIN next : z \notin C /\ next[z] \in C
<1> SUFFICES ASSUME \A z \in Above(S, next, x) \cap DOMAIN next : z \notin C => next[z] \notin C PROVE FALSE
  OBVIOUS
<1> DEFINE D == Above(S, next, x) \ C
<1>1. \A z \in D : z \in DOMAIN next /\ next[z] \in D
  BY AboveIsClosed
<1>2. D = {}
  BY <1>1 DEF IsTree
<1> QED
  BY <1>2, AboveIsInside

\* Every way up ends.
LEMMA AboveEnds ==
  ASSUME NEW S, NEW next, IsTree(S, next), NEW x \in S
  PROVE  \E y \in Above(S, next, x) : y \notin DOMAIN next
<1> SUFFICES ASSUME \A y \in Above(S, next, x) : y \in DOMAIN next PROVE FALSE
  OBVIOUS
<1>1. Above(S, next, x) = {}
  BY AboveIsClosed DEF IsTree
<1> QED
  BY <1>1, AboveIsInside

\* Several elements have a lowest one above them all.
LEMMA LowestAboveAll ==
  ASSUME NEW S, NEW next, IsTree(S, next), NEW root \in S, \A x \in S : root \in Above(S, next, x),
         NEW xs \in SUBSET S, xs # {}
  PROVE  \E c \in S : /\ \A x \in xs : c \in Above(S, next, x)
                     /\ \A e \in S : (\A x \in xs : e \in Above(S, next, x)) => e \in Above(S, next, c)
<1> PICK x \in xs : TRUE
  OBVIOUS
<1> DEFINE Common == {e \in S : \A y \in xs : e \in Above(S, next, y)}
<1>1. Common \subseteq Above(S, next, x)
  OBVIOUS
<1> SUFFICES ASSUME \A c \in Common : ~ Common \subseteq Above(S, next, c) PROVE FALSE
  OBVIOUS
<1> HIDE DEF Common
<1> DEFINE C == {y \in S : Common \subseteq Above(S, next, y)}
<1>2. ASSUME NEW y \in C PROVE y \in DOMAIN next /\ next[y] \in C
  <2>1. y \notin Common
    OBVIOUS
  <2>2. root \in Common
    BY DEF Common
  <2>3. y \in DOMAIN next /\ next[y] \in S
    BY <2>1, <2>2, AboveSuccessor
  <2>4. Common \subseteq Above(S, next, next[y])
    BY <2>1, AboveSuccessor
  <2> QED
    BY <2>3, <2>4
<1>3. C = {}
  BY <1>2 DEF IsTree
<1> QED
  BY <1>1, <1>3

-----------------------------------------------------------------------------
(* Classes and their instances are trees *)

Classes(p) == p.classes \cup {Object}

LEMMA ClassesAreATree ==
  ASSUME NEW p, IsHierarchy(p)
  PROVE  IsTree(Classes(p), Superclass(p)) /\ DOMAIN Superclass(p) = p.classes
<1>1. DOMAIN Superclass(p) = p.classes
  BY DEF Superclass
<1>2. \A c \in p.classes : Superclass(p)[c] = p.super[c].c /\ p.super[c].c \in Classes(p)
  BY DEF Superclass, IsHierarchy, Classes
<1>3. Superclass(p) \in [p.classes -> Classes(p)]
  BY <1>2 DEF Superclass
<1>4. \A C \in SUBSET p.classes : (\A c \in C : p.super[c].c \in C) => C = {}
  BY DEF IsHierarchy
<1>5. \A C \in SUBSET p.classes : (\A c \in C : Superclass(p)[c] \in C) => C = {}
  BY <1>2, <1>4
<1> QED
  BY <1>1, <1>3, <1>5 DEF IsTree, Classes

LEMMA ObjectIsAbove ==
  ASSUME NEW p, IsHierarchy(p), NEW c \in Classes(p)
  PROVE  Object \in ClassesAbove(p, c) /\ ClassesAbove(p, c) \subseteq Classes(p)
<1>1. IsTree(Classes(p), Superclass(p)) /\ DOMAIN Superclass(p) = p.classes
  BY ClassesAreATree
<1>2. Above(Classes(p), Superclass(p), c) \subseteq Classes(p)
  BY <1>1, AboveIsInside
<1>3. PICK y \in Above(Classes(p), Superclass(p), c) : y \notin p.classes
  BY <1>1, AboveEnds
<1> QED
  BY <1>2, <1>3 DEF ClassesAbove, Classes

\* What the class axioms say of the instances with some arguments.
Extending(p, args) == [u \in {u \in Instances(p, args) : ExtendsSomething(p, u)} |-> Extends(p, u)]

LEMMA InstancesAre ==
  ASSUME NEW p, NEW args, NEW u
  PROVE  u \in Instances(p, args) <=>
           \/ \E c \in PlainClasses(p) : u = Term(c, <<>>)
           \/ \E c \in p.generic, a \in args : u = Term(c, <<a>>)
BY DEF Instances, PlainTypes

LEMMA InstanceShape ==
  ASSUME NEW p, IsHierarchy(p), NEW args, NEW u \in Instances(p, args)
  PROVE  /\ u = Term(u.f, u.args)
         /\ u.f \in Classes(p)
         /\ u.f \notin p.generic => u.args = <<>>
         /\ u.f \in p.generic => u.args[1] \in args /\ u.args = <<u.args[1]>> /\ DOMAIN u.args = {1}
         /\ ~ IsUnion(u) /\ u.f # "arg"
<1>1. CASE \E c \in PlainClasses(p) : u = Term(c, <<>>)
  BY <1>1 DEF PlainClasses, Term, Classes, IsHierarchy, IsUnion, Object
<1>2. CASE \E c \in p.generic, a \in args : u = Term(c, <<a>>)
  <2> PICK c \in p.generic, a \in args : u = Term(c, <<a>>)
    BY <1>2
  <2>1. u.f = c /\ u.args = <<a>>
    BY DEF Term
  <2>2. u.args[1] = a /\ DOMAIN u.args = {1}
    BY <2>1
  <2> QED
    BY <2>1, <2>2 DEF Term, Classes, IsHierarchy, IsUnion, Object
<1> QED
  BY <1>1, <1>2, InstancesAre

LEMMA ExtendsIsAnInstance ==
  ASSUME NEW p, IsHierarchy(p), NEW args, PlainTypes(p) \subseteq args,
         NEW u \in Instances(p, args), u.f \in p.classes
  PROVE  Extends(p, u) \in Instances(p, args) /\ Extends(p, u).f = p.super[u.f].c
<1> DEFINE s == p.super[u.f]
<1>1. /\ s.c \in Classes(p)
      /\ IF s.c \in p.generic
         THEN \E a \in PlainClasses(p) \cup {"var"} : s.args = <<a>> /\ (a = "var" => u.f \in p.generic)
         ELSE s.args = <<>>
  BY DEF IsHierarchy, Classes
<1>2. CASE s.c \notin p.generic
  <2>1. Extends(p, u) = Term(s.c, <<>>)
    BY <1>1, <1>2 DEF Extends
  <2> QED
    BY <1>1, <1>2, <2>1, InstancesAre DEF Term, PlainClasses, Classes
<1>3. CASE s.c \in p.generic
  <2> PICK a \in PlainClasses(p) \cup {"var"} : s.args = <<a>> /\ (a = "var" => u.f \in p.generic)
    BY <1>1, <1>3
  <2>0. s.args # <<>> /\ s.args[1] = a
    OBVIOUS
  <2>1. CASE a = "var"
    <3>1. Extends(p, u) = Term(s.c, u.args)
      BY <2>0, <2>1 DEF Extends
    <3>2. u.args[1] \in args /\ u.args = <<u.args[1]>>
      BY <2>1, InstanceShape
    <3> QED
      BY <1>3, <3>1, <3>2, InstancesAre DEF Term
  <2>2. CASE a # "var"
    <3>1. Extends(p, u) = Term(s.c, <<Term(a, <<>>)>>)
      BY <2>0, <2>2 DEF Extends
    <3>2. Term(a, <<>>) \in args
      BY <2>2 DEF PlainTypes
    <3> QED
      BY <1>3, <3>1, <3>2, InstancesAre DEF Term
  <2> QED
    BY <2>1, <2>2
<1> QED
  BY <1>2, <1>3

LEMMA InstancesAreATree ==
  ASSUME NEW p, IsHierarchy(p), NEW args, PlainTypes(p) \subseteq args
  PROVE  /\ IsTree(Instances(p, args), Extending(p, args))
         /\ DOMAIN Extending(p, args) = {u \in Instances(p, args) : u.f \in p.classes}
         /\ \A u \in DOMAIN Extending(p, args) : Extending(p, args)[u] = Extends(p, u)
<1> DEFINE D == {u \in Instances(p, args) : u.f \in p.classes}
<1>1. DOMAIN Extending(p, args) = D /\ Extending(p, args) = [u \in D |-> Extends(p, u)]
  BY DEF Extending, ExtendsSomething
<1>2. \A u \in D : Extends(p, u) \in Instances(p, args) /\ Extends(p, u).f = p.super[u.f].c
  BY ExtendsIsAnInstance
<1>3. ASSUME NEW C \in SUBSET D, \A u \in C : Extends(p, u) \in C PROVE C = {}
  <2> DEFINE K == {u.f : u \in C}
  <2>1. K \in SUBSET p.classes /\ \A c \in K : p.super[c].c \in K
    BY <1>2, <1>3
  <2>2. K = {}
    BY <2>1 DEF IsHierarchy
  <2> QED
    BY <2>2
<1> HIDE DEF D
<1>4. \A u \in D : Extending(p, args)[u] = Extends(p, u)
  BY <1>1
<1>5. Extending(p, args) \in [D -> Instances(p, args)]
  BY <1>1, <1>2
<1>6. D \subseteq Instances(p, args)
  BY DEF D
<1>7. IsTree(Instances(p, args), Extending(p, args))
  BY <1>1, <1>3, <1>4, <1>5, <1>6 DEF IsTree
<1> QED
  BY <1>1, <1>4, <1>7 DEF D

\* The ancestors of a term are the same whatever other terms there are.
LEMMA AncestorsAre ==
  ASSUME NEW p, IsHierarchy(p), NEW args, PlainTypes(p) \subseteq args, NEW t \in Instances(p, args)
  PROVE  Ancestors(p, t) = Above(Instances(p, args), Extending(p, args), t)
<1> DEFINE S == Instances(p, args)
           E == Extending(p, args)
           own == PlainTypes(p) \cup {t.args[i] : i \in DOMAIN t.args}
           S1 == Instances(p, own)
           E1 == Extending(p, own)
<1>1. CASE t.f \notin p.classes
  <2>1. Ancestors(p, t) = {t}
    BY <1>1 DEF Ancestors, ExtendsSomething
  <2>2. IsTree(S, E) /\ t \notin DOMAIN E
    BY <1>1, InstancesAreATree
  <2> HIDE DEF S, E
  <2>3. t \in S
    BY DEF S
  <2>4. Above(S, E, t) = {t}
    BY <2>2, <2>3, AboveUnfolds
  <2> QED
    BY <2>1, <2>4 DEF S, E
<1>2. CASE t.f \in p.classes
  <2>1. Ancestors(p, t) = Above(S1, E1, t)
    BY <1>2 DEF Ancestors, ExtendsSomething, Extending
  <2>2. own \subseteq args
    BY InstanceShape
  <2>3. t \in S1
    <3>1. CASE t.f \in p.generic
      <4>1. t.args[1] \in own /\ t = Term(t.f, <<t.args[1]>>)
        BY <3>1, InstanceShape
      <4> HIDE DEF own
      <4> QED
        BY <3>1, <4>1, InstancesAre
    <3>2. CASE t.f \notin p.generic
      <4>1. t.f \in PlainClasses(p) /\ t = Term(t.f, <<>>)
        BY <3>2, InstanceShape DEF PlainClasses, Classes
      <4> HIDE DEF own
      <4> QED
        BY <4>1, InstancesAre
    <3> QED
      BY <3>1, <3>2
  <2>4. S1 \subseteq S
    <3> SUFFICES ASSUME NEW u \in S1 PROVE u \in S
      OBVIOUS
    <3> HIDE DEF own
    <3> QED
      BY <2>2, InstancesAre
  <2> HIDE DEF own, S, E, S1, E1
  <2>5. /\ IsTree(S, E) /\ DOMAIN E = {u \in S : u.f \in p.classes}
        /\ \A u \in DOMAIN E : E[u] = Extends(p, u)
    BY InstancesAreATree DEF S, E
  <2>6. /\ IsTree(S1, E1) /\ DOMAIN E1 = {u \in S1 : u.f \in p.classes}
        /\ \A u \in DOMAIN E1 : E1[u] = Extends(p, u)
    BY InstancesAreATree DEF own, S1, E1
  <2> DEFINE C == {u \in DOMAIN E1 : Above(S1, E1, u) # Above(S, E, u)}
  <2>7. ASSUME NEW u \in C PROVE E1[u] \in C
    <3>1. u \in S1 /\ u \in S /\ E1[u] \in S1 /\ E1[u] = E[u] /\ u \in DOMAIN E /\ E[u] \in S
      BY <2>4, <2>5, <2>6 DEF IsTree
    <3>2. Above(S1, E1, E1[u]) # Above(S, E, E[u])
      <4>1. Above(S1, E1, u) = {u} \cup Above(S1, E1, E1[u])
        BY <3>1, <2>6, AboveUnfolds
      <4>2. Above(S, E, u) = {u} \cup Above(S, E, E[u])
        BY <3>1, <2>5, AboveUnfolds
      <4> QED
        BY <4>1, <4>2
    <3>3. E1[u] \in DOMAIN E1
      <4> SUFFICES ASSUME E1[u] \notin DOMAIN E1 PROVE FALSE
        OBVIOUS
      <4>1. E[u] \notin DOMAIN E
        BY <2>4, <2>5, <2>6, <3>1
      <4>2. Above(S1, E1, E1[u]) = {E1[u]} /\ Above(S, E, E[u]) = {E[u]}
        BY <4>1, <3>1, <2>5, <2>6, AboveUnfolds
      <4> QED
        BY <4>2, <3>1, <3>2
    <3> QED
      BY <3>1, <3>2, <3>3
  <2>8. C = {}
    BY <2>6, <2>7 DEF IsTree
  <2> QED
    BY <1>2, <2>1, <2>3, <2>6, <2>8 DEF S, E
<1> QED
  BY <1>1, <1>2

-----------------------------------------------------------------------------
(* The laws of inheritance *)

ObjectTerm == Term(Object, <<>>)

\* Instances, with arguments that are known or not.
Arguments(p) ==
  PlainTypes(p) \cup UNION {{Term("arg", <<t, Term(c, <<>>)>>) : t \in ObjectTypes(p)} : c \in p.generic}
Types(p) == Instances(p, Arguments(p))

LEMMA AncestorsAreAbove ==
  ASSUME NEW p, IsHierarchy(p)
  PROVE  \E next : /\ IsTree(Types(p), next)
                   /\ DOMAIN next = {u \in Types(p) : u.f \in p.classes}
                   /\ \A u \in DOMAIN next : next[u] = Extends(p, u)
                   /\ \A t \in Types(p) : Ancestors(p, t) = Above(Types(p), next, t)
<1>1. PlainTypes(p) \subseteq Arguments(p)
  BY DEF Arguments
<1> QED
  BY <1>1, InstancesAreATree, AncestorsAre DEF Types

LEMMA TypeShape ==
  ASSUME NEW p, IsHierarchy(p), NEW t \in Types(p)
  PROVE  /\ t.f \in Classes(p) /\ ~ IsUnion(t)
         /\ t.f \notin p.generic => t = Term(t.f, <<>>)
         /\ t.f \in p.generic => t.args[1] \in Arguments(p) /\ t = Term(t.f, <<t.args[1]>>)
BY InstanceShape DEF Types

LEMMA ExtendsLaws ==
  ASSUME NEW p, IsHierarchy(p), NEW t \in Types(p)
  PROVE  /\ t.f \in p.classes =>
              /\ Extends(p, t) \in Types(p)
              /\ Extends(p, t).f = p.super[t.f].c
              /\ Ancestors(p, t) = {t} \cup Ancestors(p, Extends(p, t))
              /\ t \notin Ancestors(p, Extends(p, t))
         /\ t.f \notin p.classes => t = ObjectTerm /\ Ancestors(p, t) = {t}
<1> PICK next : /\ IsTree(Types(p), next)
                /\ DOMAIN next = {u \in Types(p) : u.f \in p.classes}
                /\ \A u \in DOMAIN next : next[u] = Extends(p, u)
                /\ \A u \in Types(p) : Ancestors(p, u) = Above(Types(p), next, u)
  BY AncestorsAreAbove
<1>1. CASE t.f \in p.classes
  <2>1. Extends(p, t) \in Types(p) /\ Extends(p, t).f = p.super[t.f].c
    <3>1. PlainTypes(p) \subseteq Arguments(p)
      BY DEF Arguments
    <3> QED
      BY <1>1, <3>1, ExtendsIsAnInstance DEF Types
  <2>2. t \in DOMAIN next /\ next[t] = Extends(p, t)
    BY <1>1
  <2>3. Ancestors(p, t) = {t} \cup Ancestors(p, Extends(p, t))
    BY <2>1, <2>2, AboveUnfolds
  <2>4. t \notin Ancestors(p, Extends(p, t))
    BY <2>1, <2>2, SuccessorIsNotBelow
  <2> QED
    BY <1>1, <2>1, <2>3, <2>4
<1>2. CASE t.f \notin p.classes
  <2>1. t.f = Object /\ t.f \notin p.generic
    BY <1>2, TypeShape DEF Classes, IsHierarchy
  <2>2. t = ObjectTerm
    BY <2>1, TypeShape DEF ObjectTerm
  <2>3. Ancestors(p, t) = {t}
    BY <1>2, AboveUnfolds
  <2> QED
    BY <1>2, <2>2, <2>3
<1> QED
  BY <1>1, <1>2

LEMMA AncestorLaws ==
  ASSUME NEW p, IsHierarchy(p), NEW t \in Types(p)
  PROVE  /\ t \in Ancestors(p, t) /\ Ancestors(p, t) \subseteq Types(p)
         /\ ObjectTerm \in Ancestors(p, t)
         /\ \A u \in Ancestors(p, t) : Ancestors(p, u) \subseteq Ancestors(p, t)
         /\ \A u \in Ancestors(p, t) : t \in Ancestors(p, u) => t = u
         /\ \A u, v \in Ancestors(p, t) : u \in Ancestors(p, v) \/ v \in Ancestors(p, u)
<1> PICK next : /\ IsTree(Types(p), next)
                /\ DOMAIN next = {u \in Types(p) : u.f \in p.classes}
                /\ \A u \in DOMAIN next : next[u] = Extends(p, u)
                /\ \A u \in Types(p) : Ancestors(p, u) = Above(Types(p), next, u)
  BY AncestorsAreAbove
<1>1. t \in Ancestors(p, t) /\ Ancestors(p, t) \subseteq Types(p)
  BY AboveIsInside
<1>2. PICK y \in Ancestors(p, t) : y \notin DOMAIN next
  BY AboveEnds
<1>3. y = ObjectTerm
  BY <1>1, <1>2, ExtendsLaws
<1>4. \A u \in Ancestors(p, t) : Ancestors(p, u) \subseteq Ancestors(p, t)
  BY <1>1, AboveIsTransitive
<1>5. \A u \in Ancestors(p, t) : t \in Ancestors(p, u) => t = u
  BY <1>1, AboveIsAntisymmetric
<1>6. \A u, v \in Ancestors(p, t) : u \in Ancestors(p, v) \/ v \in Ancestors(p, u)
  BY <1>1, AboveIsLinear
<1> QED
  BY <1>1, <1>2, <1>3, <1>4, <1>5, <1>6

\* Ancestors are instances of the classes above.
LEMMA AncestorClasses ==
  ASSUME NEW p, IsHierarchy(p), NEW t \in Types(p)
  PROVE  \A u \in Ancestors(p, t) : u.f \in ClassesAbove(p, t.f)
<1> PICK next : /\ IsTree(Types(p), next)
                /\ DOMAIN next = {u \in Types(p) : u.f \in p.classes}
                /\ \A u \in DOMAIN next : next[u] = Extends(p, u)
                /\ \A u \in Types(p) : Ancestors(p, u) = Above(Types(p), next, u)
  BY AncestorsAreAbove
<1>1. IsTree(Classes(p), Superclass(p)) /\ DOMAIN Superclass(p) = p.classes
  BY ClassesAreATree
<1>2. t.f \in Classes(p)
  BY TypeShape
<1> DEFINE C == {u \in Types(p) : u.f \in ClassesAbove(p, t.f)}
<1>3. t \in C
  BY <1>1, <1>2, AboveIsInside DEF ClassesAbove, Classes
<1>4. ASSUME NEW u \in C \cap DOMAIN next PROVE next[u] \in C
  <2>1. next[u] \in Types(p) /\ next[u].f = p.super[u.f].c
    BY ExtendsLaws
  <2>2. u.f \in p.classes /\ Superclass(p)[u.f] = p.super[u.f].c
    BY DEF Superclass
  <2> QED
    BY <1>1, <1>2, <2>1, <2>2, AboveIsClosed DEF ClassesAbove, Classes
<1> HIDE DEF C
<1>5. Above(Types(p), next, t) \subseteq C
  BY <1>3, <1>4, AboveIsLeast
<1> QED
  BY <1>5 DEF C

\* No type has two ancestors of one class.
LEMMA OneAncestorPerClass ==
  ASSUME NEW p, IsHierarchy(p), NEW t \in Types(p), NEW u \in Ancestors(p, t), NEW v \in Ancestors(p, t),
         u.f = v.f
  PROVE  u = v
<1>1. ASSUME NEW x \in Types(p), NEW y \in Ancestors(p, x), x.f = y.f PROVE x = y
  <2> SUFFICES ASSUME x # y PROVE FALSE
    OBVIOUS
  <2>1. x.f \in p.classes
    BY ExtendsLaws
  <2>2. Extends(p, x) \in Types(p) /\ Extends(p, x).f = p.super[x.f].c /\ y \in Ancestors(p, Extends(p, x))
    BY <2>1, ExtendsLaws
  <2>3. x.f \in ClassesAbove(p, p.super[x.f].c)
    BY <1>1, <2>2, AncestorClasses
  <2>4. x.f \notin ClassesAbove(p, p.super[x.f].c)
    BY <2>1, ClassesAreATree, SuccessorIsNotBelow DEF ClassesAbove, Classes, Superclass
  <2> QED
    BY <2>3, <2>4
<1>2. u \in Types(p) /\ v \in Types(p) /\ (u \in Ancestors(p, v) \/ v \in Ancestors(p, u))
  BY AncestorLaws
<1> QED
  BY <1>1, <1>2

LEMMA AncestorSteps ==
  ASSUME NEW p, IsHierarchy(p), NEW t \in Types(p)
  PROVE  /\ \A y \in Ancestors(p, t) : y # t =>
              \E z \in Ancestors(p, t) : z.f \in p.classes /\ Extends(p, z) = y
         /\ \A u \in Types(p) : t \notin Ancestors(p, u) =>
              \E z \in Ancestors(p, t) :
                z.f \in p.classes /\ z \notin Ancestors(p, u) /\ Extends(p, z) \in Ancestors(p, u)
<1> PICK next : /\ IsTree(Types(p), next)
                /\ DOMAIN next = {u \in Types(p) : u.f \in p.classes}
                /\ \A u \in DOMAIN next : next[u] = Extends(p, u)
                /\ \A u \in Types(p) : Ancestors(p, u) = Above(Types(p), next, u)
  BY AncestorsAreAbove
<1>1. ASSUME NEW y \in Ancestors(p, t), y # t
      PROVE  \E z \in Ancestors(p, t) : z.f \in p.classes /\ Extends(p, z) = y
  BY <1>1, AboveHasPredecessor
<1>2. ASSUME NEW u \in Types(p), t \notin Ancestors(p, u)
      PROVE  \E z \in Ancestors(p, t) :
                z.f \in p.classes /\ z \notin Ancestors(p, u) /\ Extends(p, z) \in Ancestors(p, u)
  <2> DEFINE C == Ancestors(p, u)
  <2>1. \A y \in Above(Types(p), next, t) : y \notin DOMAIN next => y \in C
    <3> SUFFICES ASSUME NEW y \in Ancestors(p, t), y \notin DOMAIN next PROVE y \in C
      OBVIOUS
    <3>1. y \in Types(p)
      BY AncestorLaws
    <3>2. y = ObjectTerm
      BY <3>1, ExtendsLaws
    <3> QED
      BY <3>2, AncestorLaws
  <2> HIDE DEF C
  <2>2. t \notin C
    BY <1>2 DEF C
  <2>3. \E z \in Above(Types(p), next, t) \cap DOMAIN next : z \notin C /\ next[z] \in C
    BY <2>1, <2>2, AboveEnters
  <2> QED
    BY <2>3 DEF C
<1> QED
  BY <1>1, <1>2

\* Nothing but themselves is below NoneType and the enumerations.
LEMMA FinalClasses ==
  ASSUME NEW p, IsHierarchy(p), NEW t \in Types(p), NEW u \in Ancestors(p, t),
         u.f \in p.enums \cup {NoneType}
  PROVE  t = u
<1> SUFFICES ASSUME u # t PROVE FALSE
  OBVIOUS
<1>1. PICK z \in Ancestors(p, t) : z.f \in p.classes /\ Extends(p, z) = u
  BY AncestorSteps
<1>2. z \in Types(p)
  BY AncestorLaws
<1>3. u.f = p.super[z.f].c
  BY <1>1, <1>2, ExtendsLaws
<1> QED
  BY <1>1, <1>3 DEF IsHierarchy

-----------------------------------------------------------------------------
(* What the terms mean.  The alternatives of a term are the types a value    *)
(* may have, a union within a union included; a term is below another when   *)
(* each alternative has an ancestor among those of the other.                *)

Alternatives(t) ==
  IF IsUnion(t) THEN UNION {IF IsUnion(o) THEN o.options ELSE {o} : o \in t.options} ELSE {t}
Below(p, t, u) == \A a \in Alternatives(t) : \E b \in Alternatives(u) : b \in Ancestors(p, a)

\* Several types, none of which is an ancestor of another, unless it is object.
Separate(p, A) ==
  /\ A \subseteq Types(p)
  /\ \E a, b \in A : a # b
  /\ \A a, b \in A : (a # b /\ b \in Ancestors(p, a)) => b = ObjectTerm

IsFlatTerm(p, t) == t \in Types(p) \/ (IsUnion(t) /\ Separate(p, t.options))
IsTypeTerm(p, t) ==
  \/ IsFlatTerm(p, t)
  \/ IsUnion(t) /\ (\A o \in t.options : IsFlatTerm(p, o)) /\ Separate(p, Alternatives(t))

\* The terms at hand include their options and their ancestors.
IsTermSet(p, terms) ==
  /\ \A t \in terms : IsTypeTerm(p, t)
  /\ \A t \in terms : IsUnion(t) => t.options \subseteq terms
  /\ \A t \in terms : t \in Types(p) => Ancestors(p, t) \subseteq terms
  /\ ObjectTypes(p) \cup {ObjectTerm} \subseteq terms

LEMMA FlatAlternatives ==
  ASSUME NEW p, IsHierarchy(p), NEW t, IsFlatTerm(p, t)
  PROVE  Alternatives(t) = IF IsUnion(t) THEN t.options ELSE {t}
<1>1. CASE IsUnion(t)
  <2>1. t \notin Types(p)
    BY <1>1, TypeShape
  <2>2. t.options \subseteq Types(p)
    BY <1>1, <2>1 DEF IsFlatTerm, Separate
  <2>3. \A o \in t.options : ~ IsUnion(o)
    BY <2>2, TypeShape
  <2> QED
    BY <1>1, <2>3 DEF Alternatives
<1> QED
  BY <1>1 DEF Alternatives

LEMMA AlternativesLaws ==
  ASSUME NEW p, IsHierarchy(p), NEW t, IsTypeTerm(p, t)
  PROVE  /\ ~ IsUnion(t) => t \in Types(p) /\ Alternatives(t) = {t}
         /\ IsUnion(t) => /\ Alternatives(t) = UNION {Alternatives(o) : o \in t.options}
                          /\ Separate(p, Alternatives(t))
         /\ Alternatives(t) \subseteq Types(p) /\ Alternatives(t) # {}
<1>1. CASE ~ IsUnion(t)
  BY <1>1 DEF Alternatives, IsTypeTerm, IsFlatTerm
<1>2. CASE IsUnion(t)
  <2>1. \A o \in t.options : IsFlatTerm(p, o)
    <3>1. t \notin Types(p)
      BY <1>2, TypeShape
    <3> QED
      BY <1>2, <3>1 DEF IsTypeTerm, IsFlatTerm, Separate
  <2>2. \A o \in t.options : Alternatives(o) = IF IsUnion(o) THEN o.options ELSE {o}
    BY <2>1, FlatAlternatives
  <2>3. Alternatives(t) = UNION {Alternatives(o) : o \in t.options}
    BY <1>2, <2>2 DEF Alternatives
  <2>4. Separate(p, Alternatives(t))
    <3>1. CASE IsFlatTerm(p, t)
      <4>1. Alternatives(t) = t.options
        BY <1>2, <3>1, FlatAlternatives
      <4>2. t \notin Types(p)
        BY <1>2, TypeShape
      <4> QED
        BY <3>1, <4>1, <4>2 DEF IsFlatTerm
    <3> QED
      BY <3>1 DEF IsTypeTerm
  <2> QED
    BY <1>2, <2>3, <2>4 DEF Separate
<1> QED
  BY <1>1, <1>2

LEMMA ObjectIsAType ==
  ASSUME NEW p, IsHierarchy(p)
  PROVE  ObjectTerm \in Types(p) /\ ~ IsUnion(ObjectTerm) /\ IsTypeTerm(p, ObjectTerm)
           /\ Alternatives(ObjectTerm) = {ObjectTerm}
<1>1. Object \in PlainClasses(p)
  BY DEF PlainClasses, IsHierarchy
<1>2. ObjectTerm \in Types(p)
  BY <1>1, InstancesAre DEF Types, ObjectTerm
<1> QED
  BY <1>2, TypeShape, AlternativesLaws DEF IsTypeTerm, IsFlatTerm

LEMMA BelowLaws ==
  ASSUME NEW p, IsHierarchy(p), NEW t, IsTypeTerm(p, t), NEW u, IsTypeTerm(p, u)
  PROVE  /\ Below(p, t, t)
         /\ Below(p, t, ObjectTerm)
         /\ \A v : (Below(p, t, u) /\ Below(p, u, v)) => Below(p, t, v)
<1>1. Alternatives(t) \subseteq Types(p) /\ Alternatives(u) \subseteq Types(p)
  BY AlternativesLaws
<1>2. \A a \in Types(p) : a \in Ancestors(p, a) /\ ObjectTerm \in Ancestors(p, a)
  BY AncestorLaws
<1>3. Below(p, t, t)
  BY <1>1, <1>2 DEF Below
<1>4. Below(p, t, ObjectTerm)
  BY <1>1, <1>2, ObjectIsAType DEF Below
<1>5. ASSUME NEW v, Below(p, t, u), Below(p, u, v) PROVE Below(p, t, v)
  <2> SUFFICES ASSUME NEW a \in Alternatives(t) PROVE \E c \in Alternatives(v) : c \in Ancestors(p, a)
    BY DEF Below
  <2>1. PICK b \in Alternatives(u) : b \in Ancestors(p, a)
    BY <1>5 DEF Below
  <2>2. PICK c \in Alternatives(v) : c \in Ancestors(p, b)
    BY <1>5 DEF Below
  <2>3. Ancestors(p, b) \subseteq Ancestors(p, a)
    BY <1>1, <2>1, AncestorLaws
  <2> QED
    BY <2>2, <2>3
<1> QED
  BY <1>3, <1>4, <1>5

\* A union is below what all its options are below; something that is not a union is
\* below a union when it is below one of its options.
LEMMA BelowUnions ==
  ASSUME NEW p, IsHierarchy(p), NEW t, IsTypeTerm(p, t), NEW u, IsTypeTerm(p, u)
  PROVE  /\ IsUnion(t) => (Below(p, t, u) <=> \A o \in t.options : Below(p, o, u))
         /\ (IsUnion(u) /\ ~ IsUnion(t)) => (Below(p, t, u) <=> \E o \in u.options : Below(p, t, o))
<1>1. ASSUME IsUnion(t) PROVE Below(p, t, u) <=> \A o \in t.options : Below(p, o, u)
  <2>1. Alternatives(t) = UNION {Alternatives(o) : o \in t.options}
    BY <1>1, AlternativesLaws
  <2> QED
    BY <2>1 DEF Below
<1>2. ASSUME IsUnion(u), ~ IsUnion(t) PROVE Below(p, t, u) <=> \E o \in u.options : Below(p, t, o)
  <2>1. Alternatives(u) = UNION {Alternatives(o) : o \in u.options} /\ Alternatives(t) = {t}
    BY <1>2, AlternativesLaws
  <2> QED
    BY <2>1 DEF Below
<1> QED
  BY <1>1, <1>2

LEMMA DifferentTerms ==
  ASSUME NEW p, IsHierarchy(p), NEW t, NEW u, Different(p, t, u)
  PROVE  /\ t # u
         /\ ~ (IsUnion(t) /\ IsUnion(u))
         /\ IsUnion(t) => u.f \in p.classes
         /\ IsUnion(u) => t.f \in p.classes
<1>1. "union" \notin p.generic /\ "union" \notin p.classes
  BY DEF IsHierarchy
<1>2. \A x : ~ DifferentFunctions(p, x, x)
  BY DEF DifferentFunctions
<1>3. t # u
  BY <1>2 DEF Different
<1>4. CASE DifferentFunctions(p, t, u)
  BY <1>1, <1>3, <1>4 DEF DifferentFunctions, IsConstant, HasBasic, IsUnion, ExtendsSomething
<1>5. CASE t.f = u.f /\ t.f \in p.generic
  BY <1>1, <1>3, <1>5 DEF IsUnion
<1> QED
  BY <1>4, <1>5 DEF Different

\* Different terms are not below each other.
LEMMA BelowIsAntisymmetric ==
  ASSUME NEW p, IsHierarchy(p), NEW t, IsTypeTerm(p, t), NEW u, IsTypeTerm(p, u), Different(p, t, u)
  PROVE  ~ (Below(p, t, u) /\ Below(p, u, t))
<1>1. ASSUME NEW x, IsTypeTerm(p, x), IsUnion(x), NEW y, IsTypeTerm(p, y), ~ IsUnion(y),
             Below(p, x, y), Below(p, y, x)
      PROVE  y = ObjectTerm
  <2>1. y \in Types(p) /\ Alternatives(y) = {y} /\ Separate(p, Alternatives(x))
    BY <1>1, AlternativesLaws
  <2>2. PICK b \in Alternatives(x) : b \in Ancestors(p, y)
    BY <1>1, <2>1 DEF Below
  <2>3. \A a \in Alternatives(x) : y \in Ancestors(p, a)
    BY <1>1, <2>1 DEF Below
  <2>4. b = y
    BY <2>1, <2>2, <2>3, AncestorLaws DEF Separate
  <2>5. PICK a \in Alternatives(x) : a # b
    BY <2>1 DEF Separate
  <2> QED
    BY <2>1, <2>3, <2>4, <2>5 DEF Separate
<1>2. CASE ~ IsUnion(t) /\ ~ IsUnion(u)
  <2>1. t \in Types(p) /\ u \in Types(p) /\ Alternatives(t) = {t} /\ Alternatives(u) = {u}
    BY <1>2, AlternativesLaws
  <2> QED
    BY <2>1, DifferentTerms, AncestorLaws DEF Below
<1>3. CASE IsUnion(t) \/ IsUnion(u)
  <2>1. ObjectTerm.f \notin p.classes
    BY DEF ObjectTerm, Term, IsHierarchy
  <2> QED
    BY <1>1, <1>3, <2>1, DifferentTerms
<1> QED
  BY <1>2, <1>3

\* Nothing is below two different types that extend the same one.
LEMMA SiblingsExclude ==
  ASSUME NEW p, IsHierarchy(p), NEW t \in Types(p), NEW u \in Types(p), t # u,
         t.f \in p.classes, u.f \in p.classes, Extends(p, t) = Extends(p, u),
         NEW m, IsTypeTerm(p, m), Below(p, m, t)
  PROVE  ~ Below(p, m, u)
<1>1. ASSUME NEW x \in Types(p), NEW y \in Types(p), x # y, x.f \in p.classes, y.f \in p.classes,
             Extends(p, x) = Extends(p, y)
      PROVE  y \notin Ancestors(p, x)
  <2>1. y \notin Ancestors(p, Extends(p, y))
    BY <1>1, ExtendsLaws
  <2> QED
    BY <1>1, <2>1, ExtendsLaws
<1>2. PICK a \in Alternatives(m) : a \in Types(p)
  BY AlternativesLaws
<1>3. Alternatives(t) = {t} /\ Alternatives(u) = {u}
  BY TypeShape DEF Alternatives
<1>4. t \in Ancestors(p, a) /\ (Below(p, m, u) => u \in Ancestors(p, a))
  BY <1>3 DEF Below
<1>5. t \notin Ancestors(p, u) /\ u \notin Ancestors(p, t)
  BY <1>1
<1> QED
  BY <1>2, <1>4, <1>5, AncestorLaws

\* Nothing is below two instances of a class.
LEMMA InstancesExclude ==
  ASSUME NEW p, IsHierarchy(p), NEW t \in Types(p), NEW u \in Types(p), t # u, t.f = u.f,
         NEW m, IsTypeTerm(p, m), Below(p, m, t)
  PROVE  ~ Below(p, m, u)
<1>2. PICK a \in Alternatives(m) : a \in Types(p)
  BY AlternativesLaws
<1>3. Alternatives(t) = {t} /\ Alternatives(u) = {u}
  BY TypeShape DEF Alternatives
<1>4. t \in Ancestors(p, a) /\ (Below(p, m, u) => u \in Ancestors(p, a))
  BY <1>3 DEF Below
<1> QED
  BY <1>2, <1>4, OneAncestorPerClass

-----------------------------------------------------------------------------
(* What is derived is true *)

Differences(p, terms) == [t \in terms |-> {u \in terms : Different(p, t, u)}]
Unions(terms) == {t \in terms : IsUnion(t)}

IsKnowledge(terms, k) ==
  /\ k.sub \in [terms -> SUBSET terms]
  /\ k.nots \in [terms -> SUBSET terms]
  /\ k.nsub \in [terms -> SUBSET terms]

IsTrue(p, terms, k) ==
  /\ \A t \in terms : \A u \in k.sub[t] : Below(p, t, u)
  /\ \A t \in terms : \A u \in k.nsub[t] : ~ Below(p, t, u)
  /\ \A t \in terms : \A u \in k.nots[t] : \A m \in terms : Below(p, m, t) => ~ Below(p, m, u)

\* What is given at the start stays.
KeepsGiven(p, terms, k) ==
  \A t \in terms : Given(p, terms, Differences(p, terms)).sub[t] \subseteq k.sub[t]
                   /\ SubtypeExclusion(p, Differences(p, terms), t) \subseteq k.nots[t]

LEMMA TermSetTypes ==
  ASSUME NEW p, IsHierarchy(p), NEW terms, IsTermSet(p, terms), NEW t \in terms
  PROVE  /\ IsTypeTerm(p, t)
         /\ t.f \in p.classes => /\ t \in Types(p) /\ ~ IsUnion(t)
                                 /\ Extends(p, t) \in terms /\ Extends(p, t) \in Types(p)
         /\ IsUnion(t) => t.options \subseteq terms
<1>1. ASSUME t.f \in p.classes
      PROVE  t \in Types(p) /\ ~ IsUnion(t) /\ Extends(p, t) \in terms /\ Extends(p, t) \in Types(p)
  <2>1. ~ IsUnion(t)
    BY <1>1 DEF IsUnion, IsHierarchy
  <2>2. t \in Types(p)
    BY <2>1, AlternativesLaws DEF IsTermSet
  <2>3. Extends(p, t) \in Types(p) /\ Ancestors(p, t) = {t} \cup Ancestors(p, Extends(p, t))
    BY <1>1, <2>2, ExtendsLaws
  <2>4. Extends(p, t) \in Ancestors(p, t)
    BY <2>3, AncestorLaws
  <2> QED
    BY <2>1, <2>2, <2>3, <2>4 DEF IsTermSet
<1> QED
  BY <1>1 DEF IsTermSet

LEMMA GivenIsTrue ==
  ASSUME NEW p, IsHierarchy(p), NEW terms, IsTermSet(p, terms)
  PROVE  LET k == Given(p, terms, Differences(p, terms))
         IN  IsKnowledge(terms, k) /\ IsTrue(p, terms, k) /\ KeepsGiven(p, terms, k)
<1> DEFINE diff == Differences(p, terms)
           k == Given(p, terms, diff)
<1>1. \A t \in terms : diff[t] = {u \in terms : Different(p, t, u)}
  BY DEF Differences
<1>2. /\ k.sub = [t \in terms |-> Reflexivity(t) \cup ObjectSubtype \cup ExtendsImpliesSubtype(p, t)]
      /\ k.nots = [t \in terms |-> SubtypeExclusion(p, diff, t)]
      /\ k.nsub = [t \in terms |-> {}]
  BY DEF Given
<1> HIDE DEF k, diff
<1>3. ASSUME NEW t \in terms, NEW u \in k.sub[t] PROVE u \in terms /\ Below(p, t, u)
  <2>1. CASE u = t
    BY <2>1, TermSetTypes, BelowLaws
  <2>2. CASE u = ObjectTerm
    BY <2>2, TermSetTypes, BelowLaws, ObjectIsAType DEF IsTermSet
  <2>3. CASE t.f \in p.classes /\ u = Extends(p, t)
    <3>1. t \in Types(p) /\ u \in terms /\ u \in Types(p)
      BY <2>3, TermSetTypes
    <3>2. u \in Ancestors(p, t)
      BY <2>3, <3>1, ExtendsLaws, AncestorLaws
    <3>3. Alternatives(t) = {t} /\ Alternatives(u) = {u}
      BY <3>1, TypeShape DEF Alternatives
    <3> QED
      BY <3>1, <3>2, <3>3 DEF Below
  <2> QED
    BY <1>2, <2>1, <2>2, <2>3
       DEF Reflexivity, ObjectSubtype, ExtendsImpliesSubtype, ExtendsSomething, ObjectTerm
<1>4. ASSUME NEW t \in terms, NEW u \in k.nots[t]
      PROVE  u \in terms /\ \A m \in terms : Below(p, m, t) => ~ Below(p, m, u)
  <2>1. u \in terms /\ Different(p, t, u) /\ t.f \in p.classes /\ u.f \in p.classes
          /\ Extends(p, u) = Extends(p, t)
    BY <1>1, <1>2 DEF SubtypeExclusion, ExtendsSomething
  <2>2. t \in Types(p) /\ u \in Types(p) /\ t # u
    BY <2>1, TermSetTypes, DifferentTerms
  <2> QED
    BY <2>1, <2>2, TermSetTypes, SiblingsExclude
<1>5. \A t \in terms : k.nsub[t] = {}
  BY <1>2
<1>6. IsKnowledge(terms, k)
  <2>1. \A t \in terms : k.sub[t] \in SUBSET terms /\ k.nots[t] \in SUBSET terms /\ k.nsub[t] \in SUBSET terms
    BY <1>3, <1>4, <1>5
  <2>2. /\ DOMAIN k.sub = terms /\ k.sub = [t \in terms |-> k.sub[t]]
        /\ DOMAIN k.nots = terms /\ k.nots = [t \in terms |-> k.nots[t]]
        /\ DOMAIN k.nsub = terms /\ k.nsub = [t \in terms |-> k.nsub[t]]
    BY <1>2
  <2> QED
    BY <2>1, <2>2 DEF IsKnowledge
<1>7. IsTrue(p, terms, k)
  BY <1>3, <1>4, <1>5 DEF IsTrue
<1>8. KeepsGiven(p, terms, k)
  <2>1. \A t \in terms : k.nots[t] = SubtypeExclusion(p, Differences(p, terms), t)
    BY <1>2 DEF diff
  <2>2. \A t \in terms : Given(p, terms, Differences(p, terms)).sub[t] = k.sub[t]
    BY DEF k, diff
  <2> QED
    BY <2>1, <2>2 DEF KeepsGiven
<1> QED
  BY <1>6, <1>7, <1>8 DEF k, diff

LEMMA AxiomsAreTrue ==
  ASSUME NEW p, IsHierarchy(p), NEW terms, IsTermSet(p, terms),
         NEW k, IsKnowledge(terms, k), IsTrue(p, terms, k), KeepsGiven(p, terms, k)
  PROVE  LET k1 == DefaultAxioms(p, Unions(terms), Differences(p, terms), k)
         IN  IsKnowledge(terms, k1) /\ IsTrue(p, terms, k1) /\ KeepsGiven(p, terms, k1)
<1> DEFINE diff == Differences(p, terms)
           unions == Unions(terms)
           k1 == DefaultAxioms(p, unions, diff, k)
<1>1. /\ \A t \in terms : diff[t] = {u \in terms : Different(p, t, u)}
      /\ unions = {t \in terms : IsUnion(t)}
  BY DEF Differences, Unions
<1>2. /\ k1.sub = [t \in terms |->
           k.sub[t] \cup Transitivity(k, t) \cup UnionSubtype(p, unions, k, t) \cup SubtypeUnion(k, t)]
      /\ k1.nots = k.nots
      /\ k1.nsub = [t \in terms |->
           k.nsub[t] \cup TransitivityFails(k, t) \cup UnionSubtypeFails(p, unions, k, t)
             \cup SubtypeUnionFails(k, t) \cup SubtypeExclusion2(diff, k, t)
             \cup SubtypeExclusionPropagation(k, t) \cup ArgAxiom(p, diff, k, t)]
  BY DEF DefaultAxioms, IsKnowledge
<1> HIDE DEF k1, diff, unions
<1>3. /\ DOMAIN k.sub = terms
      /\ \A t \in terms : k.sub[t] \subseteq terms /\ k.nsub[t] \subseteq terms /\ k.nots[t] \subseteq terms
  BY DEF IsKnowledge
<1>4. \A t \in terms : IsTypeTerm(p, t) /\ (IsUnion(t) => t.options \subseteq terms)
  BY TermSetTypes
<1>5. ASSUME NEW t \in terms, NEW u \in k1.sub[t] PROVE u \in terms /\ Below(p, t, u)
  <2>1. CASE u \in k.sub[t]
    BY <1>3, <2>1 DEF IsTrue
  <2>2. CASE u \in Transitivity(k, t)
    <3> PICK m \in k.sub[t] : u \in k.sub[m]
      BY <2>2 DEF Transitivity
    <3> QED
      BY <1>3, <1>4, BelowLaws DEF IsTrue
  <2>3. CASE u \in UnionSubtype(p, unions, k, t)
    <3>1. u \in terms /\ IsUnion(u) /\ ~ IsUnion(t)
      BY <1>1, <2>3 DEF UnionSubtype, NotUnion
    <3> PICK o \in u.options : o \in k.sub[t]
      BY <2>3 DEF UnionSubtype
    <3> QED
      BY <1>4, <3>1, BelowUnions DEF IsTrue
  <2>4. CASE u \in SubtypeUnion(k, t)
    <3>1. u \in terms /\ IsUnion(t) /\ \A o \in t.options : u \in k.sub[o]
      BY <1>3, <2>4 DEF SubtypeUnion
    <3> QED
      BY <1>4, <3>1, BelowUnions DEF IsTrue
  <2> QED
    BY <1>2, <2>1, <2>2, <2>3, <2>4
<1>6. ASSUME NEW t \in terms, NEW u \in k1.nsub[t] PROVE u \in terms /\ ~ Below(p, t, u)
  <2>1. CASE u \in k.nsub[t]
    BY <1>3, <2>1 DEF IsTrue
  <2>2. CASE u \in TransitivityFails(k, t)
    <3>1. ASSUME NEW m \in terms, t \in k.sub[m], u \in k.nsub[m] PROVE u \in terms /\ ~ Below(p, t, u)
      BY <1>3, <1>4, <3>1, BelowLaws DEF IsTrue
    <3>2. ASSUME u \in terms, NEW v \in k.sub[u], v \in k.nsub[t] PROVE ~ Below(p, t, u)
      BY <1>3, <1>4, <3>2, BelowLaws DEF IsTrue
    <3> QED
      BY <1>3, <2>2, <3>1, <3>2 DEF TransitivityFails
  <2>3. CASE u \in UnionSubtypeFails(p, unions, k, t)
    <3>1. u \in terms /\ IsUnion(u) /\ ~ IsUnion(t) /\ u.options \subseteq k.nsub[t]
      BY <1>1, <2>3 DEF UnionSubtypeFails, NotUnion
    <3> QED
      BY <1>4, <3>1, BelowUnions DEF IsTrue
  <2>4. CASE u \in SubtypeUnionFails(k, t)
    <3>1. IsUnion(t)
      BY <2>4 DEF SubtypeUnionFails
    <3> PICK o \in t.options : u \in k.nsub[o]
      BY <2>4 DEF SubtypeUnionFails
    <3>2. o \in terms /\ u \in terms
      BY <1>3, <1>4, <3>1
    <3> QED
      BY <1>4, <3>1, <3>2, BelowUnions DEF IsTrue
  <2>5. CASE u \in SubtypeExclusion2(diff, k, t)
    <3>1. u \in terms /\ Different(p, t, u) /\ t \in k.sub[u]
      BY <1>1, <2>5 DEF SubtypeExclusion2
    <3> QED
      BY <1>4, <3>1, BelowIsAntisymmetric DEF IsTrue
  <2>6. CASE u \in SubtypeExclusionPropagation(k, t)
    <3> PICK m \in k.sub[t] : u \in k.nots[m]
      BY <2>6 DEF SubtypeExclusionPropagation
    <3> QED
      BY <1>3 DEF IsTrue
  <2>7. CASE u \in ArgAxiom(p, diff, k, t)
    <3> PICK v \in k.sub[t] : v.f \in p.generic /\ u \in diff[v] /\ u.f = v.f
      BY <2>7 DEF ArgAxiom
    <3>1. v \in terms /\ u \in terms /\ Different(p, v, u) /\ v.f \in p.classes /\ u.f \in p.classes
      BY <1>1, <1>3 DEF IsHierarchy
    <3>2. v \in Types(p) /\ u \in Types(p) /\ v # u
      BY <3>1, TermSetTypes, DifferentTerms
    <3> QED
      BY <1>4, <3>1, <3>2, InstancesExclude DEF IsTrue
  <2> QED
    BY <1>2, <2>1, <2>2, <2>3, <2>4, <2>5, <2>6, <2>7
<1>7. IsKnowledge(terms, k1)
  <2>1. \A t \in terms : k1.sub[t] \in SUBSET terms /\ k1.nsub[t] \in SUBSET terms
    BY <1>5, <1>6
  <2>2. /\ DOMAIN k1.sub = terms /\ k1.sub = [t \in terms |-> k1.sub[t]]
        /\ DOMAIN k1.nsub = terms /\ k1.nsub = [t \in terms |-> k1.nsub[t]]
    BY <1>2
  <2> QED
    BY <1>2, <2>1, <2>2 DEF IsKnowledge
<1>8. IsTrue(p, terms, k1)
  BY <1>2, <1>5, <1>6 DEF IsTrue
<1>9. KeepsGiven(p, terms, k1)
  BY <1>2 DEF KeepsGiven
<1> QED
  BY <1>7, <1>8, <1>9 DEF k1, diff, unions

-----------------------------------------------------------------------------
(* The types of objects, and the literals of a declared type *)

Ground(p) == Instances(p, PlainTypes(p))

LEMMA GroundTypes ==
  ASSUME NEW p, IsHierarchy(p)
  PROVE  /\ Ground(p) \subseteq Types(p)
         /\ \A t \in Ground(p) : Ancestors(p, t) \subseteq Ground(p)
         /\ \A t \in Ground(p) : t.f \in p.generic => t.args[1] \in PlainTypes(p)
<1>1. PlainTypes(p) \subseteq Arguments(p)
  BY DEF Arguments
<1>2. Ground(p) \subseteq Types(p)
  <2> SUFFICES ASSUME NEW u \in Ground(p) PROVE u \in Types(p)
    OBVIOUS
  <2> QED
    BY <1>1, InstancesAre DEF Ground, Types
<1>3. ASSUME NEW t \in Ground(p) PROVE Ancestors(p, t) \subseteq Ground(p)
  <2>1. IsTree(Ground(p), Extending(p, PlainTypes(p)))
    BY InstancesAreATree DEF Ground
  <2>2. Ancestors(p, t) = Above(Ground(p), Extending(p, PlainTypes(p)), t)
    BY AncestorsAre DEF Ground
  <2> QED
    BY <2>1, <2>2, AboveIsInside
<1>4. \A t \in Ground(p) : t.f \in p.generic => t.args[1] \in PlainTypes(p)
  BY InstanceShape DEF Ground
<1> QED
  BY <1>2, <1>3, <1>4

LEMMA ObjectTypesAre ==
  ASSUME NEW p, IsHierarchy(p)
  PROVE  /\ ObjectTypes(p) \subseteq Ground(p)
         /\ \A t \in ObjectTypes(p) : t.f \in p.classes /\ t \in Types(p)
         /\ Term(NoneType, <<>>) \in ObjectTypes(p)
         /\ \A t \in ObjectTypes(p) : t.f = NoneType <=> t = Term(NoneType, <<>>)
<1>1. ObjectTypes(p) \subseteq Ground(p) /\ ObjectTerm \notin ObjectTypes(p)
  BY DEF ObjectTypes, Ground, ObjectTerm
<1>2. \A t \in ObjectTypes(p) : t.f \in p.classes /\ t \in Types(p)
  BY <1>1, GroundTypes, ExtendsLaws
<1>3. NoneType \in PlainClasses(p) /\ NoneType \notin p.generic
  BY DEF PlainClasses, IsHierarchy
<1>4. Term(NoneType, <<>>) \in ObjectTypes(p)
  <2>1. Term(NoneType, <<>>) # ObjectTerm
    BY DEF Term, ObjectTerm, NoneType, Object
  <2> QED
    BY <1>3, <2>1, InstancesAre DEF ObjectTypes, ObjectTerm
<1>5. ASSUME NEW t \in ObjectTypes(p) PROVE t.f = NoneType <=> t = Term(NoneType, <<>>)
  BY <1>2, <1>3, TypeShape DEF Term
<1> QED
  BY <1>1, <1>2, <1>4, <1>5

\* Types that are known are different unless they are the same, and so are classes.
LEMMA GroundTypesDiffer ==
  ASSUME NEW p, IsHierarchy(p), NEW t \in Types(p), NEW u \in Types(p), t # u,
         t.f \in p.classes, u.f \in p.classes,
         t.f = u.f => t \in Ground(p) /\ u \in Ground(p)
  PROVE  Different(p, t, u)
<1>1. CASE t.f # u.f
  BY <1>1 DEF Different, DifferentFunctions, HasBasic, ExtendsSomething
<1>2. CASE t.f = u.f
  <2>1. t.f \in p.generic /\ t = Term(t.f, <<t.args[1]>>) /\ u = Term(u.f, <<u.args[1]>>)
    BY <1>2, TypeShape
  <2>2. t.args[1] \in PlainTypes(p) /\ u.args[1] \in PlainTypes(p)
    BY <1>2, <2>1, GroundTypes
  <2>3. \A a \in PlainTypes(p) : IsConstant(a)
    BY DEF PlainTypes, PlainClasses, Term, IsConstant, IsHierarchy, Object
  <2>4. t.args[1] # u.args[1]
    BY <1>2, <2>1
  <2> QED
    BY <1>2, <2>1, <2>2, <2>3, <2>4 DEF Different, DifferentFunctions
<1> QED
  BY <1>1, <1>2

\* The PythonTypes a declared type takes its values from.
Values(d) == IF d = NoType THEN {NoType} ELSE {ConvertItem(i) : i \in Items(d) \ {NoType}}

IsValueType(p, v) ==
  \/ v = NoType
  \/ \E c \in (p.classes \cup {Object}) \ {NoneType} :
       v = Cls(c) \/ \E d \in PlainClasses(p) : c \in p.generic /\ v = Gen(c, <<Cls(d)>>)

LEMMA ItemsConvert ==
  ASSUME NEW p, IsHierarchy(p), NEW i, IsItem(p, i)
  PROVE  /\ IsValueType(p, ConvertItem(i))
         /\ i.k # "union"
         /\ i = NoType <=> ConvertItem(i) = NoType
         /\ i # NoType => ConvertItem(i).c = i.c /\ ConvertItem(i).k \in {"cls", "gen"} /\ i.k = "inst"
         /\ i # NoType => \/ i.args = <<>> /\ ConvertItem(i) = Cls(i.c)
                          \/ \E d \in PlainClasses(p) : i.args = <<d>> /\ i.c \in p.generic
                                                        /\ ConvertItem(i) = Gen(i.c, <<Cls(d)>>)
<1>1. CASE i = NoType
  BY <1>1 DEF NoType, ConvertItem, IsValueType
<1>2. CASE i # NoType
  <2> PICK c \in (p.classes \cup {Object}) \ {NoneType} :
           \E args \in {<<>>} \cup {<<d>> : d \in IF c \in p.generic THEN PlainClasses(p) ELSE {}} :
             i = [k |-> "inst", c |-> c, args |-> args]
    BY <1>2 DEF IsItem
  <2> PICK args \in {<<>>} \cup {<<d>> : d \in IF c \in p.generic THEN PlainClasses(p) ELSE {}} :
           i = [k |-> "inst", c |-> c, args |-> args]
    OBVIOUS
  <2>1. i.k = "inst" /\ i.c = c /\ i.args = args
    OBVIOUS
  <2>2. CASE args = <<>>
    <3>1. ConvertItem(i) = Cls(c)
      BY <2>1, <2>2 DEF ConvertItem
    <3> QED
      BY <1>2, <2>1, <2>2, <3>1 DEF Cls, NoType, IsValueType
  <2>3. ASSUME NEW d \in PlainClasses(p), c \in p.generic, args = <<d>>
        PROVE  /\ ConvertItem(i) = Gen(c, <<Cls(d)>>) /\ ConvertItem(i).k = "gen"
               /\ ConvertItem(i).c = c /\ IsValueType(p, ConvertItem(i))
    <3>1. args # <<>> /\ args[1] = d
      BY <2>3
    <3>2. ConvertItem(i) = Gen(c, <<Cls(d)>>)
      BY <2>1, <3>1 DEF ConvertItem
    <3> QED
      BY <2>3, <3>2 DEF Gen, IsValueType
  <2>4. ConvertItem(i).k \in {"cls", "gen"} => ConvertItem(i) # NoType
    BY DEF NoType
  <2> QED
    BY <1>2, <2>1, <2>2, <2>3, <2>4 DEF Cls, IsValueType
<1> QED
  BY <1>1, <1>2

LEMMA DeclaredItems ==
  ASSUME NEW p, NEW d, IsDeclaredType(p, d)
  PROVE  /\ \A i \in Items(d) : IsItem(p, i)
         /\ d # NoType => Items(d) \ {NoType} # {}
         /\ d.k # "union" => Items(d) = {d}
         /\ \A i, j \in Items(d) \ {NoType} : i # j => ~ ClassIsSubtype(p, i.c, j.c)
BY DEF IsDeclaredType, Items

LEMMA ConvertedType ==
  ASSUME NEW p, IsHierarchy(p), NEW d, IsDeclaredType(p, d)
  PROVE  LET type == ConvertType(d)
             v == ValueType(type)
         IN  /\ \A x \in Values(d) : IsValueType(p, x)
             /\ d # NoType => NoType \notin Values(d)
             /\ \/ Values(d) = {v} /\ v.k \in {"none", "cls", "gen"}
                \/ v = [k |-> "union", args |-> Values(d)] /\ d # NoType /\ \E x, y \in Values(d) : x # y
             /\ type = IF d # NoType /\ NoType \in Items(d) THEN [k |-> "opt", t |-> v] ELSE v
<1> DEFINE type == ConvertType(d)
           v == ValueType(type)
           values == Values(d)
<1>1. \A i \in Items(d) : IsItem(p, i)
  BY DeclaredItems
<1>2. \A x \in values : IsValueType(p, x)
  BY <1>1, ItemsConvert DEF Values, IsValueType
<1>3. d # NoType => NoType \notin values /\ \A x \in values : x.k \in {"cls", "gen"}
  BY <1>1, ItemsConvert DEF Values
<1>4. CASE d.k # "union"
  <2>1. Items(d) = {d} /\ IsItem(p, d) /\ type = ConvertItem(d)
    BY <1>1, <1>4, DeclaredItems DEF ConvertType
  <2>2. type.k \in {"none", "cls", "gen"} /\ values = {type}
    BY <2>1, ItemsConvert DEF Values, NoType
  <2>3. v = type
    BY <2>2 DEF ValueType
  <2> QED
    BY <1>2, <1>3, <2>1, <2>2, <2>3
<1>5. CASE d.k = "union"
  <2> DEFINE items == {ConvertItem(i) : i \in d.items}
             some == IF \E t \in values : values = {t} THEN CHOOSE t \in values : TRUE
                     ELSE [k |-> "union", args |-> values]
  <2>1. d # NoType /\ Items(d) = d.items
    BY <1>5 DEF NoType, Items
  <2>2. items \ {NoType} = values
    BY <1>1, <2>1, ItemsConvert DEF Values
  <2>3. NoType \in items <=> NoType \in Items(d)
    BY <1>1, <2>1, ItemsConvert
  <2>4. type = IF NoType \in items THEN [k |-> "opt", t |-> some] ELSE some
    BY <1>5, <2>2 DEF ConvertType, ConvertUnion
  <2>5. values # {}
    BY <2>1, DeclaredItems DEF Values
  <2>6. \/ values = {some} /\ some.k \in {"cls", "gen"}
        \/ some = [k |-> "union", args |-> values] /\ \E x, y \in values : x # y
    BY <1>3, <2>1, <2>5
  <2>7. some.k # "opt"
    BY <2>6
  <2> HIDE DEF some, items, values
  <2>8. v = some
    BY <2>4, <2>7 DEF ValueType
  <2> QED
    BY <1>2, <1>3, <2>1, <2>3, <2>4, <2>6, <2>8 DEF values
<1> QED
  BY <1>4, <1>5
NoneTerm == Term(NoneType, <<>>)

\* The literal of a type is a type, known unless arguments are left out, and an ancestor
\* of an object's type when that has an ancestor of the class with the arguments.
LEMMA Literals ==
  ASSUME NEW p, IsHierarchy(p), NEW v, IsValueType(p, v), NEW t \in ObjectTypes(p)
  PROVE  LET l == ClassLiteral(p, v, t)
         IN  /\ l \in Types(p) /\ l.f = ClassOf(v) /\ ClassOf(v) \in Classes(p)
             /\ v = NoType <=> l.f = NoneType
             /\ v = NoType => l = NoneTerm
             /\ (v.k = "cls" /\ v.c \in p.generic) \/ l \in Ground(p)
             /\ v.k = "cls" => (l \in Ancestors(p, t) <=> \E a \in Ancestors(p, t) : a.f = v.c)
             /\ v.k = "gen" => l = Term(v.c, <<Term(v.args[1].c, <<>>)>>)
<1> DEFINE l == ClassLiteral(p, v, t)
<1>0. /\ t \in Types(p) /\ Ancestors(p, t) \subseteq Ground(p) /\ Ancestors(p, t) \subseteq Types(p)
      /\ Ground(p) \subseteq Types(p)
  BY ObjectTypesAre, GroundTypes, AncestorLaws
<1>1. CASE v = NoType
  <2>1. v.k = "none" /\ l = NoneTerm /\ ClassOf(v) = NoneType
    BY <1>1 DEF NoType, ClassLiteral, NoneTerm, ClassOf
  <2>2. NoneTerm \in Ground(p) /\ NoneTerm.f = NoneType
    BY ObjectTypesAre DEF NoneTerm, Term
  <2>3. NoneType \in Classes(p)
    BY DEF IsHierarchy, Classes
  <2> QED
    BY <1>0, <1>1, <2>1, <2>2, <2>3
<1>2. ASSUME NEW c \in (p.classes \cup {Object}) \ {NoneType}, v = Cls(c), c \notin p.generic
      PROVE  /\ l \in Ground(p) /\ l.f = c /\ v.k = "cls" /\ v.c = c
             /\ l \in Ancestors(p, t) <=> \E a \in Ancestors(p, t) : a.f = c
  <2>1. v.k = "cls" /\ v.c = c /\ l = Term(c, <<>>)
    BY <1>2 DEF Cls, ClassLiteral
  <2>2. l \in Ground(p) /\ l.f = c
    BY <1>2, <2>1, InstancesAre DEF PlainClasses, Ground, Term
  <2>3. ASSUME NEW a \in Ancestors(p, t), a.f = c PROVE a = l
    <3>1. a \in Types(p) /\ a.f \notin p.generic
      BY <1>0, <1>2, <2>3
    <3>2. a = Term(a.f, <<>>)
      BY <3>1, TypeShape
    <3> QED
      BY <2>1, <2>3, <3>2
  <2> QED
    BY <2>1, <2>2, <2>3
<1>3. ASSUME NEW c \in (p.classes \cup {Object}) \ {NoneType}, v = Cls(c), c \in p.generic
      PROVE  /\ l \in Types(p) /\ l.f = c /\ v.k = "cls" /\ v.c = c
             /\ l \in Ancestors(p, t) <=> \E a \in Ancestors(p, t) : a.f = c
  <2> DEFINE known == {a \in Ancestors(p, t) : a.f = c}
  <2>1. v.k = "cls" /\ v.c = c /\ l = Term(c, <<TypeArg(p, t, c)>>) /\ l.f = c
    BY <1>3 DEF Cls, ClassLiteral, Term
  <2>2. CASE known = {}
    <3>1. TypeArg(p, t, c) = Term("arg", <<t, Term(c, <<>>)>>)
      BY <2>2 DEF TypeArg
    <3>2. TypeArg(p, t, c) \in Arguments(p)
      BY <1>3, <3>1 DEF Arguments
    <3>3. l \in Types(p)
      BY <1>3, <2>1, <3>2, InstancesAre DEF Types
    <3>4. l \notin Ancestors(p, t)
      BY <2>1, <2>2
    <3> QED
      BY <2>1, <2>2, <3>3, <3>4
  <2>3. CASE known # {}
    <3> PICK a \in Ancestors(p, t) : a.f = c /\ TypeArg(p, t, c) = a.args[1]
      BY <2>3 DEF TypeArg
    <3>1. a = Term(c, <<a.args[1]>>)
      BY <1>0, <1>3, TypeShape
    <3> QED
      BY <1>0, <2>1, <3>1
  <2> QED
    BY <2>2, <2>3
<1>4. ASSUME NEW c \in (p.classes \cup {Object}) \ {NoneType}, NEW d \in PlainClasses(p),
             c \in p.generic, v = Gen(c, <<Cls(d)>>)
      PROVE  /\ l \in Ground(p) /\ l.f = c /\ v.k = "gen" /\ v.c = c
             /\ l = Term(v.c, <<Term(v.args[1].c, <<>>)>>)
  <2>1. v.k = "gen" /\ v.c = c /\ v.args[1].c = d
    BY <1>4 DEF Gen, Cls
  <2>2. l = Term(c, <<Term(d, <<>>)>>) /\ l.f = c
    BY <2>1 DEF ClassLiteral, Term
  <2>3. Term(d, <<>>) \in PlainTypes(p)
    BY DEF PlainTypes
  <2> QED
    BY <1>4, <2>1, <2>2, <2>3, InstancesAre DEF Ground
<1>5. v # NoType => v.k \in {"cls", "gen"} /\ ClassOf(v) = v.c
  BY DEF IsValueType, Cls, Gen, ClassOf
<1>6. v = NoType => v.k = "none"
  BY DEF NoType
<1> HIDE DEF l
<1>7. ASSUME v # NoType
      PROVE  /\ l \in Types(p) /\ l.f = v.c /\ v.c \in Classes(p) /\ l.f # NoneType
             /\ (v.k = "cls" /\ v.c \in p.generic) \/ l \in Ground(p)
             /\ v.k = "cls" => (l \in Ancestors(p, t) <=> \E a \in Ancestors(p, t) : a.f = v.c)
             /\ v.k = "gen" => l = Term(v.c, <<Term(v.args[1].c, <<>>)>>)
  <2> PICK c \in (p.classes \cup {Object}) \ {NoneType} :
           v = Cls(c) \/ \E d \in PlainClasses(p) : c \in p.generic /\ v = Gen(c, <<Cls(d)>>)
    BY <1>7 DEF IsValueType
  <2>1. CASE v = Cls(c) /\ c \notin p.generic
    BY <1>0, <1>2, <2>1 DEF Classes
  <2>2. CASE v = Cls(c) /\ c \in p.generic
    BY <1>3, <2>2 DEF Classes
  <2>3. CASE v # Cls(c)
    BY <1>0, <1>4, <2>3 DEF Classes
  <2> QED
    BY <2>1, <2>2, <2>3
<1> QED
  BY <1>1, <1>5, <1>6, <1>7 DEF l

LEMMA ItemsAreLiterals ==
  ASSUME NEW p, IsHierarchy(p), NEW i, IsItem(p, i), NEW t \in ObjectTypes(p)
  PROVE  IsInstanceOf(p, t, i) <=> ClassLiteral(p, ConvertItem(i), t) \in Ancestors(p, t)
<1> DEFINE v == ConvertItem(i)
           l == ClassLiteral(p, v, t)
<1>0. IsValueType(p, v) /\ t \in Types(p) /\ Ancestors(p, t) \subseteq Types(p)
  BY ItemsConvert, ObjectTypesAre, AncestorLaws
<1>1. CASE i = NoType
  <2>0. v = NoType /\ i.k = "none"
    BY <1>1, ItemsConvert DEF NoType
  <2>1. l = NoneTerm /\ l.f = NoneType
    BY <1>0, <2>0, Literals
  <2>3. IsInstanceOf(p, t, i) <=> t.f = NoneType
    BY <2>0 DEF IsInstanceOf
  <2>2. l \in Ancestors(p, t) => t = l
    BY <1>0, <2>1, FinalClasses
  <2> QED
    BY <1>0, <2>1, <2>2, <2>3, ObjectTypesAre, AncestorLaws DEF NoneTerm
<1>2. CASE i # NoType /\ i.args = <<>>
  <2>0. ~ \E d \in PlainClasses(p) : i.args = <<d>>
    BY <1>2
  <2>1. v = Cls(i.c) /\ i.k = "inst"
    <3>1. \/ i.args = <<>> /\ v = Cls(i.c)
          \/ \E d \in PlainClasses(p) : i.args = <<d>> /\ i.c \in p.generic /\ v = Gen(i.c, <<Cls(d)>>)
      BY <1>2, ItemsConvert
    <3>2. i.k = "inst"
      BY <1>2, ItemsConvert
    <3> QED
      BY <2>0, <3>1, <3>2
  <2>2. v.k = "cls" /\ v.c = i.c
    BY <2>1 DEF Cls
  <2>3. IsInstanceOf(p, t, i) <=> \E a \in Ancestors(p, t) : a.f = i.c
    BY <1>2, <2>1 DEF IsInstanceOf
  <2> QED
    BY <1>0, <2>2, <2>3, Literals
<1>3. CASE i # NoType /\ i.args # <<>>
  <2> PICK d \in PlainClasses(p) : i.args = <<d>> /\ i.c \in p.generic /\ v = Gen(i.c, <<Cls(d)>>)
    BY <1>3, ItemsConvert
  <2>1. v.k = "gen" /\ v.c = i.c /\ v.args[1].c = d
    BY DEF Gen, Cls
  <2>2. l = Term(i.c, <<Term(d, <<>>)>>)
    BY <1>0, <2>1, Literals
  <2>3. i.k = "inst" /\ i.args[1] = d
    BY <1>3, ItemsConvert
  <2>4. IsInstanceOf(p, t, i) <=> \E a \in Ancestors(p, t) : a.f = i.c /\ a.args = <<Term(d, <<>>)>>
    BY <1>3, <2>3 DEF IsInstanceOf
  <2>5. \A a \in Ancestors(p, t) : a = Term(a.f, a.args)
    BY <1>0, InstanceShape DEF Types
  <2> QED
    BY <2>2, <2>4, <2>5 DEF Term
<1> QED
  BY <1>1, <1>2, <1>3
LEMMA ValuesAreSeparate ==
  ASSUME NEW p, IsHierarchy(p), NEW d, IsDeclaredType(p, d),
         NEW x \in Values(d), NEW y \in Values(d), x # y
  PROVE  ClassOf(y) \notin ClassesAbove(p, ClassOf(x))
<1>1. d # NoType
  BY DEF Values
<1>2. PICK i \in Items(d) \ {NoType}, j \in Items(d) \ {NoType} : x = ConvertItem(i) /\ y = ConvertItem(j)
  BY <1>1 DEF Values
<1>3. IsItem(p, i) /\ IsItem(p, j) /\ i # j
  BY <1>2, DeclaredItems
<1>4. ~ ClassIsSubtype(p, i.c, j.c)
  BY <1>3, DeclaredItems
<1>5. x.c = i.c /\ x.k \in {"cls", "gen"} /\ y.c = j.c /\ y.k \in {"cls", "gen"}
  BY <1>2, <1>3, ItemsConvert
<1> QED
  BY <1>4, <1>5 DEF ClassIsSubtype, ClassOf

\* What a declared type stands for where an object's type is compared with it.
ValueLiterals(p, d, t) == {ClassLiteral(p, v, t) : v \in Values(d)}

LEMMA ValueLiteralsAreSeparate ==
  ASSUME NEW p, IsHierarchy(p), NEW d, IsDeclaredType(p, d), NEW t \in ObjectTypes(p)
  PROVE  /\ ValueLiterals(p, d, t) \subseteq Types(p)
         /\ d # NoType => NoneTerm \notin ValueLiterals(p, d, t)
         /\ \A a, b \in ValueLiterals(p, d, t) : b \in Ancestors(p, a) => a = b
         /\ (\E x, y \in Values(d) : x # y) => \E a, b \in ValueLiterals(p, d, t) : a # b
<1>1. \A v \in Values(d) : IsValueType(p, v) /\ (d # NoType => v # NoType)
  BY ConvertedType
<1>2. \A v \in Values(d) : LET l == ClassLiteral(p, v, t)
                           IN  l \in Types(p) /\ l.f = ClassOf(v) /\ ClassOf(v) \in Classes(p)
                               /\ (d # NoType => l.f # NoneType)
  BY <1>1, Literals
<1>3. NoneTerm.f = NoneType
  BY DEF NoneTerm, Term
<1>4. ASSUME NEW x \in Values(d), NEW y \in Values(d),
             ClassLiteral(p, y, t) \in Ancestors(p, ClassLiteral(p, x, t))
      PROVE  x = y
  <2>1. ClassOf(y) \in ClassesAbove(p, ClassOf(x))
    BY <1>2, <1>4, AncestorClasses
  <2> QED
    BY <2>1, ValuesAreSeparate
<1>5. ASSUME NEW x \in Values(d), NEW y \in Values(d), x # y
      PROVE  ClassLiteral(p, x, t) # ClassLiteral(p, y, t)
  <2>1. ClassLiteral(p, x, t) \in Ancestors(p, ClassLiteral(p, x, t))
    BY <1>2, AncestorLaws
  <2> QED
    BY <2>1, <1>4, <1>5
<1> QED
  BY <1>2, <1>3, <1>4, <1>5 DEF ValueLiterals

LEMMA ValueLiteralIs ==
  ASSUME NEW p, IsHierarchy(p), NEW d, IsDeclaredType(p, d), NEW t \in ObjectTypes(p)
  PROVE  LET l == ValueLiteral(p, ValueType(ConvertType(d)), t)
         IN  /\ IsFlatTerm(p, l)
             /\ Alternatives(l) = ValueLiterals(p, d, t)
             /\ IsUnion(l) => l.options = ValueLiterals(p, d, t)
             /\ ~ IsUnion(l) => l \in Types(p) /\ ValueLiterals(p, d, t) = {l}
<1> DEFINE v == ValueType(ConvertType(d))
           l == ValueLiteral(p, v, t)
           literals == ValueLiterals(p, d, t)
<1>1. CASE Values(d) = {v} /\ v.k \in {"none", "cls", "gen"}
  <2>1. l = ClassLiteral(p, v, t)
    BY <1>1 DEF ValueLiteral
  <2>2. literals = {l}
    BY <1>1, <2>1 DEF ValueLiterals
  <2>3. l \in Types(p)
    BY <2>2, ValueLiteralsAreSeparate
  <2>4. ~ IsUnion(l)
    BY <2>3, TypeShape
  <2> QED
    BY <2>2, <2>3, <2>4 DEF IsFlatTerm, Alternatives
<1>2. CASE v = [k |-> "union", args |-> Values(d)] /\ \E x, y \in Values(d) : x # y
  <2>1. l = UnionTerm(literals)
    BY <1>2 DEF ValueLiteral, ValueLiterals
  <2>2. IsUnion(l) /\ l.options = literals
    BY <2>1 DEF UnionTerm, IsUnion
  <2>3. Separate(p, literals)
    BY <1>2, ValueLiteralsAreSeparate DEF Separate
  <2>4. IsFlatTerm(p, l)
    BY <2>2, <2>3 DEF IsFlatTerm
  <2>5. Alternatives(l) = literals
    BY <2>2, <2>4, FlatAlternatives
  <2> QED
    BY <2>2, <2>4, <2>5
<1> QED
  BY <1>1, <1>2, ConvertedType

LEMMA NoneIsSeparate ==
  ASSUME NEW p, IsHierarchy(p), NEW d, IsDeclaredType(p, d), d # NoType, NEW t \in ObjectTypes(p)
  PROVE  Separate(p, {NoneTerm} \cup ValueLiterals(p, d, t))
<1>1. NoneTerm \in ObjectTypes(p) /\ NoneTerm \in Types(p) /\ NoneTerm.f = NoneType
  BY ObjectTypesAre DEF NoneTerm, Term
<1>2. Ancestors(p, NoneTerm) = {NoneTerm, ObjectTerm}
  <2>1. NoneType \in p.classes /\ p.super[NoneType].c = Object /\ Object \notin p.classes
    BY DEF IsHierarchy
  <2>2. /\ Extends(p, NoneTerm) \in Types(p) /\ Extends(p, NoneTerm).f = Object
        /\ Ancestors(p, NoneTerm) = {NoneTerm} \cup Ancestors(p, Extends(p, NoneTerm))
    BY <1>1, <2>1, ExtendsLaws
  <2> QED
    BY <2>1, <2>2, ExtendsLaws
<1>3. ValueLiterals(p, d, t) \subseteq Types(p) /\ NoneTerm \notin ValueLiterals(p, d, t)
  BY ValueLiteralsAreSeparate
<1>4. \A a \in ValueLiterals(p, d, t) : NoneTerm \notin Ancestors(p, a)
  BY <1>1, <1>3, FinalClasses
<1>5. \E a, b \in {NoneTerm} \cup ValueLiterals(p, d, t) : a # b
  <2>1. Values(d) # {}
    BY DeclaredItems DEF Values
  <2> QED
    BY <1>3, <2>1 DEF ValueLiterals
<1>6. \A a, b \in ValueLiterals(p, d, t) : b \in Ancestors(p, a) => a = b
  BY ValueLiteralsAreSeparate
<1> QED
  BY <1>1, <1>2, <1>3, <1>4, <1>5, <1>6 DEF Separate

\* A literal, its options and their options are terms about which Below speaks.
LEMMA SubtermsAreTypeTerms ==
  ASSUME NEW p, IsHierarchy(p), NEW d, IsDeclaredType(p, d), NEW t \in ObjectTypes(p)
  PROVE  LET type == ConvertType(d)
             S == Subterms(TypeLiteral(p, type, t))
         IN  /\ \A s \in S : IsTypeTerm(p, s) /\ (IsUnion(s) => s.options \subseteq S)
             /\ ValueLiteral(p, ValueType(type), t) \in S
<1> DEFINE type == ConvertType(d)
           v == ValueType(type)
           l == ValueLiteral(p, v, t)
           literals == ValueLiterals(p, d, t)
           L == TypeLiteral(p, type, t)
           S == Subterms(L)
<1>1. /\ IsFlatTerm(p, l) /\ Alternatives(l) = literals
      /\ IsUnion(l) => l.options = literals
      /\ ~ IsUnion(l) => l \in Types(p)
      /\ literals \subseteq Types(p)
  BY ValueLiteralIs, ValueLiteralsAreSeparate
<1>2. IF d # NoType /\ NoType \in Items(d) THEN type = [k |-> "opt", t |-> v] ELSE type = v
  BY ConvertedType
<1>3. v.k # "opt"
  BY ConvertedType
<1>4. \A s \in Types(p) : Options(s) = {} /\ ~ IsUnion(s)
  BY TypeShape DEF Options
<1>5. Options(l) = IF IsUnion(l) THEN literals ELSE {}
  BY <1>1 DEF Options
<1> HIDE DEF l, v, type
<1>6. CASE ~ (d # NoType /\ NoType \in Items(d))
  <2>1. L = l
    BY <1>2, <1>3, <1>6 DEF TypeLiteral, l, ValueType
  <2>2. S = {l} \cup Options(l)
    BY <1>1, <1>4, <1>5, <2>1 DEF Subterms
  <2> QED
    BY <1>1, <1>4, <1>5, <2>2 DEF IsTypeTerm, IsFlatTerm, l, v, type
<1>7. CASE d # NoType /\ NoType \in Items(d)
  <2>1. L = UnionTerm({NoneTerm, l})
    BY <1>2, <1>7 DEF TypeLiteral, l, NoneTerm, ValueType
  <2>2. IsUnion(L) /\ L.options = {NoneTerm, l} /\ Options(L) = {NoneTerm, l}
    BY <2>1 DEF UnionTerm, IsUnion, Options
  <2>3. NoneTerm \in Types(p) /\ Separate(p, {NoneTerm} \cup literals)
    BY <1>7, ObjectTypesAre, NoneIsSeparate DEF NoneTerm
  <2>4. S = {L, NoneTerm, l} \cup Options(l)
    BY <1>4, <2>2, <2>3 DEF Subterms
  <2>5. \A o \in L.options : IsFlatTerm(p, o)
    BY <1>1, <2>2, <2>3 DEF IsFlatTerm
  <2>6. Alternatives(L) = {NoneTerm} \cup literals
    <3>1. (IF IsUnion(l) THEN l.options ELSE {l}) = literals
      BY <1>1, FlatAlternatives
    <3> QED
      BY <1>4, <2>2, <2>3, <3>1 DEF Alternatives
  <2>7. IsTypeTerm(p, L)
    BY <2>2, <2>3, <2>5, <2>6 DEF IsTypeTerm
  <2> QED
    BY <1>1, <1>4, <1>5, <2>2, <2>3, <2>4, <2>7 DEF IsTypeTerm, IsFlatTerm, l, v, type
<1> QED
  BY <1>6, <1>7

LEMMA TermsAreATermSet ==
  ASSUME NEW p, IsHierarchy(p), NEW d, IsDeclaredType(p, d)
  PROVE  LET terms == Terms(p, ConvertType(d))
         IN  /\ IsTermSet(p, terms)
             /\ \A t \in ObjectTypes(p) : ValueLiteral(p, ValueType(ConvertType(d)), t) \in terms
<1> DEFINE type == ConvertType(d)
           terms == Terms(p, type)
           literals == {TypeLiteral(p, type, t) : t \in ObjectTypes(p)}
           S == ObjectTypes(p) \cup UNION {Subterms(t) : t \in literals}
<1>1. terms = UNION {Ancestors(p, s) : s \in S}
  BY DEF Terms
<1>2. ASSUME NEW s \in S PROVE IsTypeTerm(p, s) /\ (IsUnion(s) => s.options \subseteq S)
  <2>1. CASE s \in ObjectTypes(p)
    BY <2>1, ObjectTypesAre, TypeShape DEF IsTypeTerm, IsFlatTerm
  <2>2. CASE s \notin ObjectTypes(p)
    <3> PICK t \in ObjectTypes(p) : s \in Subterms(TypeLiteral(p, type, t))
      BY <2>2
    <3> QED
      BY SubtermsAreTypeTerms
  <2> QED
    BY <2>1, <2>2
<1>3. ASSUME NEW s \in S PROVE IF IsUnion(s) THEN Ancestors(p, s) = {s} ELSE s \in Types(p)
  <2>1. ~ IsUnion(s) => s \in Types(p)
    BY <1>2, AlternativesLaws
  <2>2. IsUnion(s) => s.f \notin p.classes
    BY DEF IsUnion, IsHierarchy
  <2> QED
    BY <2>1, <2>2 DEF Ancestors, ExtendsSomething
<1>4. ObjectTypes(p) \subseteq S /\ \A t \in ObjectTypes(p) : ValueLiteral(p, ValueType(type), t) \in S
  BY SubtermsAreTypeTerms
<1> HIDE DEF S, terms, literals, type
<1>5. \A s \in S : s \in Ancestors(p, s)
  BY <1>3, AncestorLaws
<1>6. S \subseteq terms
  BY <1>1, <1>5
<1>7. ASSUME NEW t \in terms PROVE t \in Types(p) \/ (IsUnion(t) /\ t \in S)
  <2> PICK s \in S : t \in Ancestors(p, s)
    BY <1>1
  <2> QED
    BY <1>3, AncestorLaws
<1>8. ASSUME NEW t \in terms, t \in Types(p) PROVE Ancestors(p, t) \subseteq terms
  <2> PICK s \in S : t \in Ancestors(p, s)
    BY <1>1
  <2>1. ~ IsUnion(s)
    BY <1>3, <1>8, TypeShape
  <2>2. Ancestors(p, t) \subseteq Ancestors(p, s)
    BY <1>3, <2>1, AncestorLaws
  <2> QED
    BY <1>1, <2>2
<1>9. ObjectTerm \in terms
  <2>1. NoneTerm \in S /\ NoneTerm \in Types(p)
    BY <1>4, ObjectTypesAre DEF NoneTerm
  <2> QED
    BY <1>1, <2>1, AncestorLaws
<1>10. \A t \in terms : IsTypeTerm(p, t)
  BY <1>2, <1>7 DEF IsTypeTerm, IsFlatTerm
<1>11. \A t \in terms : IsUnion(t) => t.options \subseteq terms
  BY <1>2, <1>6, <1>7, TypeShape
<1> QED
  BY <1>4, <1>6, <1>8, <1>9, <1>10, <1>11 DEF IsTermSet, terms, type
-----------------------------------------------------------------------------
(* What is true is derived, once the axioms say nothing new *)

IsComplete(p, terms, k) == DefaultAxioms(p, Unions(terms), Differences(p, terms), k) = k

LEMMA AxiomsHold ==
  ASSUME NEW p, NEW terms, NEW k, IsKnowledge(terms, k), IsComplete(p, terms, k), NEW t \in terms
  PROVE  /\ Transitivity(k, t) \subseteq k.sub[t]
         /\ UnionSubtype(p, Unions(terms), k, t) \subseteq k.sub[t]
         /\ TransitivityFails(k, t) \subseteq k.nsub[t]
         /\ UnionSubtypeFails(p, Unions(terms), k, t) \subseteq k.nsub[t]
         /\ SubtypeExclusion2(Differences(p, terms), k, t) \subseteq k.nsub[t]
         /\ SubtypeExclusionPropagation(k, t) \subseteq k.nsub[t]
<1> DEFINE diff == Differences(p, terms)
           unions == Unions(terms)
<1>1. DOMAIN k.sub = terms
  BY DEF IsKnowledge
<1> HIDE DEF diff, unions
<1>2. /\ k.sub = [u \in terms |->
           k.sub[u] \cup Transitivity(k, u) \cup UnionSubtype(p, unions, k, u) \cup SubtypeUnion(k, u)]
      /\ k.nsub = [u \in terms |->
           k.nsub[u] \cup TransitivityFails(k, u) \cup UnionSubtypeFails(p, unions, k, u)
             \cup SubtypeUnionFails(k, u) \cup SubtypeExclusion2(diff, k, u)
             \cup SubtypeExclusionPropagation(k, u) \cup ArgAxiom(p, diff, k, u)]
  BY <1>1 DEF IsComplete, DefaultAxioms, diff, unions
<1>3. k.sub[t] = k.sub[t] \cup Transitivity(k, t) \cup UnionSubtype(p, unions, k, t) \cup SubtypeUnion(k, t)
  BY <1>2
<1>4. k.nsub[t] = k.nsub[t] \cup TransitivityFails(k, t) \cup UnionSubtypeFails(p, unions, k, t)
             \cup SubtypeUnionFails(k, t) \cup SubtypeExclusion2(diff, k, t)
             \cup SubtypeExclusionPropagation(k, t) \cup ArgAxiom(p, diff, k, t)
  BY <1>2
<1> QED
  BY <1>3, <1>4 DEF diff, unions

LEMMA AncestorsAreDerived ==
  ASSUME NEW p, IsHierarchy(p), NEW terms, IsTermSet(p, terms),
         NEW k, IsKnowledge(terms, k), IsComplete(p, terms, k), KeepsGiven(p, terms, k),
         NEW t \in terms, t \in Types(p)
  PROVE  Ancestors(p, t) \subseteq k.sub[t]
<1> PICK next : /\ IsTree(Types(p), next)
                /\ DOMAIN next = {u \in Types(p) : u.f \in p.classes}
                /\ \A u \in DOMAIN next : next[u] = Extends(p, u)
                /\ \A u \in Types(p) : Ancestors(p, u) = Above(Types(p), next, u)
  BY AncestorsAreAbove
<1>1. \A u \in terms : k.sub[u] \subseteq terms
  BY DEF IsKnowledge
<1>2. \A u \in terms : u \in k.sub[u] /\ (u.f \in p.classes => Extends(p, u) \in k.sub[u])
  BY DEF KeepsGiven, Given, Reflexivity, ExtendsImpliesSubtype, ExtendsSomething
<1>3. ASSUME NEW u \in k.sub[t] \cap DOMAIN next PROVE next[u] \in k.sub[t]
  <2>1. u \in terms /\ Extends(p, u) \in k.sub[u]
    BY <1>1, <1>2
  <2>2. Extends(p, u) \in Transitivity(k, t)
    BY <2>1 DEF Transitivity
  <2> QED
    BY <2>2, AxiomsHold
<1> QED
  BY <1>2, <1>3, AboveIsLeast

\* Of a type that is known and not an ancestor it is derived that it is no supertype.
LEMMA OthersAreRefuted ==
  ASSUME NEW p, IsHierarchy(p), NEW terms, IsTermSet(p, terms),
         NEW k, IsKnowledge(terms, k), IsComplete(p, terms, k), KeepsGiven(p, terms, k),
         NEW t \in ObjectTypes(p), NEW b \in terms, b \in Ground(p), b \notin Ancestors(p, t)
  PROVE  b \in k.nsub[t]
<1>1. /\ t \in terms /\ t \in Types(p) /\ t \in Ground(p) /\ b \in Types(p)
      /\ Ancestors(p, t) \subseteq Ground(p) /\ Ancestors(p, b) \subseteq Ground(p)
      /\ Ground(p) \subseteq Types(p) /\ t.f \in p.classes
  BY ObjectTypesAre, GroundTypes DEF IsTermSet
<1>2. Ancestors(p, t) \subseteq terms /\ Ancestors(p, b) \subseteq terms
  BY <1>1 DEF IsTermSet
<1>3. PICK z \in Ancestors(p, b) :
        z.f \in p.classes /\ z \notin Ancestors(p, t) /\ Extends(p, z) \in Ancestors(p, t)
  BY <1>1, AncestorSteps
<1>4. t \in Ancestors(p, t) /\ z # t
  BY <1>1, <1>3, AncestorLaws
<1>5. z \in k.nsub[t]
  <2>1. CASE Extends(p, z) = t
    <3>1. t \in Ancestors(p, z) /\ z \in Ancestors(p, z)
      <4>1. Extends(p, z) \in Types(p) /\ Ancestors(p, z) = {z} \cup Ancestors(p, Extends(p, z))
        BY <1>1, <1>3, ExtendsLaws
      <4> QED
        BY <1>4, <2>1, <4>1
    <3>2. t \in k.sub[z]
      BY <1>1, <1>2, <3>1, AncestorsAreDerived
    <3>3. Different(p, t, z)
      BY <1>1, <1>3, <1>4, GroundTypesDiffer
    <3>4. z \in SubtypeExclusion2(Differences(p, terms), k, t)
      BY <1>1, <1>2, <3>2, <3>3 DEF SubtypeExclusion2, Differences
    <3> QED
      BY <1>1, <3>4, AxiomsHold
  <2>2. CASE Extends(p, z) # t
    <3> PICK y \in Ancestors(p, t) : y.f \in p.classes /\ Extends(p, y) = Extends(p, z)
      BY <1>1, <1>3, <2>2, AncestorSteps
    <3>1. Different(p, y, z)
      BY <1>1, <1>3, GroundTypesDiffer
    <3>2. z \in SubtypeExclusion(p, Differences(p, terms), y)
      BY <1>2, <1>3, <3>1 DEF SubtypeExclusion, ExtendsSomething, Differences
    <3>3. z \in k.nots[y]
      BY <1>2, <3>2 DEF KeepsGiven
    <3>4. y \in k.sub[t]
      BY <1>1, AncestorsAreDerived
    <3>5. z \in SubtypeExclusionPropagation(k, t)
      BY <3>3, <3>4 DEF SubtypeExclusionPropagation
    <3> QED
      BY <1>1, <3>5, AxiomsHold
  <2> QED
    BY <2>1, <2>2
<1>6. z \in k.sub[b]
  BY <1>1, <1>3, AncestorsAreDerived
<1>7. DOMAIN k.sub = terms
  BY DEF IsKnowledge
<1>8. b \in TransitivityFails(k, t)
  BY <1>5, <1>6, <1>7 DEF TransitivityFails
<1> QED
  BY <1>1, <1>8, AxiomsHold

\* The comparison with a literal that is the value type's is decided.
LEMMA ComparisonsAreDecided ==
  ASSUME NEW p, IsHierarchy(p), NEW d, IsDeclaredType(p, d), NEW terms, terms = Terms(p, ConvertType(d)),
         NEW k, IsKnowledge(terms, k), IsTrue(p, terms, k), IsComplete(p, terms, k), KeepsGiven(p, terms, k),
         NEW t \in ObjectTypes(p)
  PROVE  LET answer == Answer(k, t, ValueLiteral(p, ValueType(ConvertType(d)), t))
         IN  /\ answer = "yes" <=> \E a \in ValueLiterals(p, d, t) : a \in Ancestors(p, t)
             /\ ValueLiterals(p, d, t) \subseteq Ground(p) => answer # "unknown"
<1> DEFINE l == ValueLiteral(p, ValueType(ConvertType(d)), t)
           literals == ValueLiterals(p, d, t)
<1>1. IsTermSet(p, terms) /\ l \in terms
  BY TermsAreATermSet
<1>2. /\ t \in terms /\ t \in Types(p) /\ t.f \in p.classes /\ ~ IsUnion(t) /\ Alternatives(t) = {t}
  BY <1>1, ObjectTypesAre, TypeShape DEF IsTermSet, Alternatives
<1>3. /\ Alternatives(l) = literals
      /\ IsUnion(l) => l.options = literals
      /\ ~ IsUnion(l) => l \in Types(p) /\ literals = {l}
  BY ValueLiteralIs
<1>4. Below(p, t, l) <=> \E a \in literals : a \in Ancestors(p, t)
  BY <1>2, <1>3 DEF Below
<1> HIDE DEF l, literals
<1>5. NotUnion(p, t)
  BY <1>2 DEF NotUnion, HasBasic, ExtendsSomething
<1>6. literals \subseteq terms
  BY <1>1, <1>3 DEF IsTermSet
<1>7. l \in k.sub[t] <=> \E a \in literals : a \in Ancestors(p, t)
  <2>1. l \in k.sub[t] => Below(p, t, l)
    BY <1>2 DEF IsTrue
  <2>2. ASSUME NEW a \in literals, a \in Ancestors(p, t) PROVE l \in k.sub[t]
    <3>1. a \in k.sub[t]
      BY <1>1, <1>2, <2>2, AncestorsAreDerived
    <3>2. CASE IsUnion(l)
      <4>1. l \in UnionSubtype(p, Unions(terms), k, t)
        BY <1>1, <1>3, <1>5, <3>1, <3>2 DEF UnionSubtype, Unions
      <4> QED
        BY <1>2, <4>1, AxiomsHold
    <3> QED
      BY <1>3, <3>1, <3>2
  <2> QED
    BY <1>4, <2>1, <2>2
<1>8. l \in k.nsub[t] => l \notin k.sub[t]
  BY <1>2 DEF IsTrue
<1>9. ASSUME literals \subseteq Ground(p), \A a \in literals : a \notin Ancestors(p, t) PROVE l \in k.nsub[t]
  <2>1. literals \subseteq k.nsub[t]
    BY <1>1, <1>6, <1>9, OthersAreRefuted
  <2>2. CASE IsUnion(l)
    <3>1. l \in UnionSubtypeFails(p, Unions(terms), k, t)
      BY <1>1, <1>3, <1>5, <2>1, <2>2 DEF UnionSubtypeFails, Unions
    <3> QED
      BY <1>2, <3>1, AxiomsHold
  <2> QED
    BY <1>3, <2>1, <2>2
<1> DEFINE answer == Answer(k, t, l)
<1>10. answer = IF l \in k.sub[t] \ k.nsub[t] THEN "yes" ELSE IF l \in k.nsub[t] \ k.sub[t] THEN "no" ELSE "unknown"
  BY DEF Answer
<1> HIDE DEF answer
<1>11. answer = "yes" <=> \E a \in literals : a \in Ancestors(p, t)
  BY <1>7, <1>8, <1>10
<1>12. literals \subseteq Ground(p) => answer # "unknown"
  BY <1>7, <1>8, <1>9, <1>10
<1> QED
  BY <1>11, <1>12 DEF answer, l, literals
LEMMA ValuesAreLiterals ==
  ASSUME NEW p, IsHierarchy(p), NEW d, IsDeclaredType(p, d), NEW t \in ObjectTypes(p)
  PROVE  /\ IsValueOf(p, t, d) <=>
              \/ \E a \in ValueLiterals(p, d, t) : a \in Ancestors(p, t)
              \/ d # NoType /\ NoType \in Items(d) /\ t = NoneTerm
         /\ ~ LeavesOutArguments(p, d) => ValueLiterals(p, d, t) \subseteq Ground(p)
<1>1. \A i \in Items(d) : IsItem(p, i)
  BY DeclaredItems
<1>2. \A i \in Items(d) : IsInstanceOf(p, t, i) <=> ClassLiteral(p, ConvertItem(i), t) \in Ancestors(p, t)
  BY <1>1, ItemsAreLiterals
<1>3. IsInstanceOf(p, t, NoType) <=> t = NoneTerm
  BY ObjectTypesAre DEF IsInstanceOf, NoType, NoneTerm
<1>4. d = NoType => Items(d) = {NoType} /\ ConvertItem(NoType) = NoType
  BY DEF Items, NoType, ConvertItem
<1>5. IsValueOf(p, t, d) <=>
        \/ \E a \in ValueLiterals(p, d, t) : a \in Ancestors(p, t)
        \/ d # NoType /\ NoType \in Items(d) /\ t = NoneTerm
  <2>1. CASE d = NoType
    BY <1>2, <1>4, <2>1 DEF IsValueOf, ValueLiterals, Values
  <2>2. CASE d # NoType
    <3>1. (\E a \in ValueLiterals(p, d, t) : a \in Ancestors(p, t))
            <=> \E i \in Items(d) \ {NoType} : ClassLiteral(p, ConvertItem(i), t) \in Ancestors(p, t)
      BY <2>2 DEF ValueLiterals, Values
    <3> QED
      BY <1>2, <1>3, <2>2, <3>1 DEF IsValueOf
  <2> QED
    BY <2>1, <2>2
<1>6. ASSUME ~ LeavesOutArguments(p, d), NEW v \in Values(d) PROVE ClassLiteral(p, v, t) \in Ground(p)
  <2>1. IsValueType(p, v)
    BY ConvertedType
  <2>2. ~ (v.k = "cls" /\ v.c \in p.generic)
    <3> SUFFICES ASSUME v.k = "cls", v.c \in p.generic PROVE FALSE
      OBVIOUS
    <3>1. d # NoType
      BY DEF Values, NoType
    <3> PICK i \in Items(d) \ {NoType} : v = ConvertItem(i)
      BY <3>1 DEF Values
    <3>2. IsItem(p, i) /\ i # NoType
      BY <1>1
    <3>3. \A c, args : Gen(c, args).k = "gen"
      BY DEF Gen
    <3>4. \/ i.args = <<>> /\ v = Cls(i.c)
          \/ \E e \in PlainClasses(p) : i.args = <<e>> /\ i.c \in p.generic /\ v = Gen(i.c, <<Cls(e)>>)
      BY <3>2, ItemsConvert
    <3>5. v = Cls(i.c) /\ i.args = <<>>
      BY <3>3, <3>4
    <3>6. i.k = "inst"
      BY <3>2, ItemsConvert
    <3> QED
      BY <1>6, <3>5, <3>6 DEF LeavesOutArguments, Cls
  <2> QED
    BY <2>1, <2>2, Literals
<1> QED
  BY <1>5, <1>6 DEF ValueLiterals

\* The answer to a type check is Python's.
LEMMA ChecksAreDecided ==
  ASSUME NEW p, IsHierarchy(p), NEW d, IsDeclaredType(p, d), NEW terms, terms = Terms(p, ConvertType(d)),
         NEW k, IsKnowledge(terms, k), IsTrue(p, terms, k), IsComplete(p, terms, k), KeepsGiven(p, terms, k),
         NEW t \in ObjectTypes(p)
  PROVE  LET answer == TypeCheck(p, k, t, ConvertType(d))
         IN  /\ answer = "yes" <=> IsValueOf(p, t, d)
             /\ answer = "unknown" => LeavesOutArguments(p, d)
<1> DEFINE type == ConvertType(d)
           v == ValueType(type)
           l == ValueLiteral(p, v, t)
           optional == d # NoType /\ NoType \in Items(d)
           answer == TypeCheck(p, k, t, type)
<1>1. /\ \/ Values(d) = {v} /\ v.k \in {"none", "cls", "gen"}
         \/ v = [k |-> "union", args |-> Values(d)]
      /\ type = IF optional THEN [k |-> "opt", t |-> v] ELSE v
      /\ \A x \in Values(d) : IsValueType(p, x)
  BY ConvertedType
<1>2. /\ Answer(k, t, l) = "yes" <=> \E a \in ValueLiterals(p, d, t) : a \in Ancestors(p, t)
      /\ ~ LeavesOutArguments(p, d) => Answer(k, t, l) # "unknown"
  BY ComparisonsAreDecided, ValuesAreLiterals
<1>3. IsValueOf(p, t, d) <=> \/ \E a \in ValueLiterals(p, d, t) : a \in Ancestors(p, t)
                             \/ optional /\ t = NoneTerm
  BY ValuesAreLiterals
<1>4. v.k # "opt"
  BY <1>1
<1>5. SubtypeCheck(p, k, t, v) = Answer(k, t, l)
  BY <1>4 DEF SubtypeCheck, TypeLiteral, ValueType
<1>6. CASE optional
  <2>1. type.k = "opt" /\ type.t = v
    BY <1>1, <1>6
  <2>2. answer = IF t = NoneTerm THEN "yes" ELSE Answer(k, t, l)
    BY <1>5, <2>1 DEF TypeCheck, NoneTerm
  <2> QED
    BY <1>2, <1>3, <1>6, <2>2
<1>7. CASE ~ optional
  <2>1. type = v
    BY <1>1, <1>7
  <2>2. CASE v.k \in {"cls", "none"} /\ PythonClassOf(p, v) \in p.enums
    <3>1. Values(d) = {v} /\ IsValueType(p, v)
      BY <1>1, <2>2
    <3>2. ValueLiterals(p, d, t) = {ClassLiteral(p, v, t)} /\ l = ClassLiteral(p, v, t)
      BY <2>2, <3>1 DEF ValueLiterals, ValueLiteral
    <3>3. l \in Types(p) /\ l.f = ClassOf(v)
      <4>1. ClassLiteral(p, v, t) \in Types(p) /\ ClassLiteral(p, v, t).f = ClassOf(v)
        BY <3>1, Literals
      <4> HIDE DEF l, v
      <4> QED
        BY <3>2, <4>1
    <3>4. ClassOf(v) = PythonClassOf(p, v)
      BY <1>4, <2>2 DEF PythonClassOf, ValueType
    <3>5. t \in Types(p)
      BY ObjectTypesAre
    <3>6. l \in Ancestors(p, t) <=> t = l
      BY <2>2, <3>3, <3>4, <3>5, FinalClasses, AncestorLaws
    <3>7. TypeLiteral(p, v, t) = l
      BY <1>4 DEF TypeLiteral, ValueType
    <3>8. answer = IF t = l THEN "yes" ELSE "no"
      BY <1>4, <2>1, <2>2, <3>7 DEF TypeCheck
    <3> QED
      BY <1>3, <1>7, <3>2, <3>6, <3>8
  <2>3. CASE ~ (v.k \in {"cls", "none"} /\ PythonClassOf(p, v) \in p.enums)
    <3>1. answer = Answer(k, t, l)
      BY <1>4, <1>5, <2>1, <2>3 DEF TypeCheck
    <3> QED
      BY <1>2, <1>3, <1>7, <3>1
  <2> QED
    BY <2>2, <2>3
<1> QED
  BY <1>6, <1>7

\* The class whose members are looked up is one that the values have.
LEMMA CommonSuperclassIsAbove ==
  ASSUME NEW p, IsHierarchy(p), NEW cs \in SUBSET Classes(p), cs # {}
  PROVE  CommonSuperclass(p, cs) \in Classes(p) /\ \A c \in cs : CommonSuperclass(p, cs) \in ClassesAbove(p, c)
<1>1. IsTree(Classes(p), Superclass(p))
  BY ClassesAreATree
<1>2. Object \in Classes(p) /\ \A c \in Classes(p) : Object \in ClassesAbove(p, c)
  BY ObjectIsAbove DEF Classes
<1>3. \E c \in Classes(p) :
        /\ \A x \in cs : c \in Above(Classes(p), Superclass(p), x)
        /\ \A e \in Classes(p) : (\A x \in cs : e \in Above(Classes(p), Superclass(p), x))
                                   => e \in Above(Classes(p), Superclass(p), c)
  BY <1>1, <1>2, LowestAboveAll DEF ClassesAbove, Classes
<1>4. \E c \in p.classes \cup {Object} :
        /\ IsCommonSuperclass(p, cs, c)
        /\ \A e \in p.classes \cup {Object} : IsCommonSuperclass(p, cs, e) => ClassIsSubtype(p, c, e)
  BY <1>3 DEF IsCommonSuperclass, ClassIsSubtype, ClassesAbove, Classes
<1>5. IsCommonSuperclass(p, cs, CommonSuperclass(p, cs)) /\ CommonSuperclass(p, cs) \in p.classes \cup {Object}
  BY <1>4 DEF CommonSuperclass
<1> QED
  BY <1>5 DEF IsCommonSuperclass, ClassIsSubtype, Classes

LEMMA ValuesHaveTheClass ==
  ASSUME NEW p, IsHierarchy(p), NEW d, IsDeclaredType(p, d), NEW t \in ObjectTypes(p),
         IsValueOf(p, t, d), t.f # NoneType
  PROVE  ClassIsSubtype(p, t.f, PythonClassOf(p, ConvertType(d)))
<1> DEFINE v == ValueType(ConvertType(d))
           class == PythonClassOf(p, ConvertType(d))
<1>1. /\ \/ Values(d) = {v} /\ v.k \in {"none", "cls", "gen"}
         \/ v = [k |-> "union", args |-> Values(d)]
      /\ \A x \in Values(d) : IsValueType(p, x)
  BY ConvertedType
<1>2. t # NoneTerm
  BY DEF NoneTerm, Term
<1>3. PICK x \in Values(d) : ClassLiteral(p, x, t) \in Ancestors(p, t)
  BY <1>2, ValuesAreLiterals DEF ValueLiterals
<1>4. \A y \in Values(d) : ClassLiteral(p, y, t).f = ClassOf(y) /\ ClassOf(y) \in Classes(p)
  BY <1>1, Literals
<1>5. t \in Types(p) /\ t.f \in Classes(p)
  BY ObjectTypesAre, TypeShape
<1>6. ClassOf(x) \in ClassesAbove(p, t.f)
  BY <1>3, <1>4, <1>5, AncestorClasses
<1>7. CASE Values(d) = {v} /\ v.k # "union"
  BY <1>6, <1>7 DEF PythonClassOf, ClassIsSubtype
<1>8. CASE v.k = "union" /\ v.args = Values(d)
  <2> DEFINE cs == {ClassOf(y) : y \in Values(d)}
  <2>1. class = CommonSuperclass(p, cs)
    BY <1>8 DEF PythonClassOf
  <2>2. class \in ClassesAbove(p, ClassOf(x))
    BY <1>4, <2>1, CommonSuperclassIsAbove
  <2>3. ClassesAbove(p, ClassOf(x)) \subseteq ClassesAbove(p, t.f)
    BY <1>5, <1>6, ClassesAreATree, AboveIsTransitive DEF ClassesAbove, Classes
  <2> QED
    BY <2>2, <2>3 DEF ClassIsSubtype
<1> QED
  BY <1>1, <1>7, <1>8
-----------------------------------------------------------------------------
(* The tasks *)

DerivationIsTrue ==
  (task.of = "types" /\ state.at = "derive") =>
    IsTrue(task.program, Terms(task.program, ConvertType(task.program.declared)), state.known)

\* What a task goes through: the terms are those of the declared type, and what is
\* derived over them is true and keeps what the class axioms give.
TypesInvariant ==
  LET p == task.program
      type == ConvertType(p.declared)
      terms == Terms(p, type)
  IN  /\ task.of = "types"
      /\ IsHierarchy(p) /\ IsDeclaredType(p, p.declared)
      /\ state.at = "relate" =>
           state.type = type /\ state.terms = terms /\ state.diff = Differences(p, terms)
      /\ state.at = "derive" =>
           /\ state = [at |-> "derive", type |-> type, diff |-> Differences(p, terms),
                       unions |-> Unions(terms), known |-> state.known]
           /\ IsKnowledge(terms, state.known)
           /\ IsTrue(p, terms, state.known) /\ KeepsGiven(p, terms, state.known)
      /\ TypesAreDecidedLikePython

LEMMA TypesInitially == TypesInit => TypesInvariant
<1> SUFFICES ASSUME NEW i \in DOMAIN TypeTasks, NEW p \in TypeTasks[i],
                    task = [of |-> "types", program |-> p], state = [at |-> "convert"]
             PROVE  TypesInvariant
  BY DEF TypesInit
<1>1. task.of = "types" /\ task.program = p /\ state.at = "convert"
  OBVIOUS
<1> QED
  BY <1>1, TypesAssumption DEF TypesInvariant, TypesAreDecidedLikePython

LEMMA TypesStep == TypesInvariant /\ [TypesNext]_vars => TypesInvariant'
<1> SUFFICES ASSUME TypesInvariant, [TypesNext]_vars PROVE TypesInvariant'
  OBVIOUS
<1> DEFINE p == task.program
           type == ConvertType(p.declared)
           terms == Terms(p, type)
           k == state.known
<1>0. task.of = "types" /\ IsHierarchy(p) /\ IsDeclaredType(p, p.declared)
  BY DEF TypesInvariant
<1>1. IsTermSet(p, terms)
  BY <1>0, TermsAreATermSet
<1>2. CASE ConvertDeclaredType
  <2>1. state' = [at |-> "relate", type |-> type, terms |-> terms, diff |-> Differences(p, terms)] /\ task' = task
    BY <1>2 DEF ConvertDeclaredType, Differences
  <2>2. state'.at = "relate" /\ state'.type = type /\ state'.terms = terms /\ state'.diff = Differences(p, terms)
    BY <2>1
  <2> QED
    BY <1>0, <2>1, <2>2 DEF TypesInvariant, TypesAreDecidedLikePython
<1>3. CASE GivenAxioms
  <2>0. state.type = type /\ state.terms = terms /\ state.diff = Differences(p, terms)
    BY <1>3 DEF GivenAxioms, TypesInvariant
  <2>1. task' = task /\ state' = [at |-> "derive", type |-> type, diff |-> Differences(p, terms),
               unions |-> Unions(terms), known |-> Given(p, terms, Differences(p, terms))]
    BY <1>3, <2>0 DEF GivenAxioms, Unions
  <2>2. state'.at = "derive" /\ state'.known = Given(p, terms, Differences(p, terms))
    BY <2>1
  <2>4. state' = [at |-> "derive", type |-> type, diff |-> Differences(p, terms),
                  unions |-> Unions(terms), known |-> state'.known]
    BY <2>1, <2>2
  <2>3. IsKnowledge(terms, state'.known) /\ IsTrue(p, terms, state'.known) /\ KeepsGiven(p, terms, state'.known)
    BY <1>0, <1>1, <2>2, GivenIsTrue
  <2> QED
    BY <1>0, <2>1, <2>2, <2>3, <2>4 DEF TypesInvariant, TypesAreDecidedLikePython
<1>4. ASSUME state.at = "derive"
      PROVE  /\ state = [at |-> "derive", type |-> type, diff |-> Differences(p, terms),
                         unions |-> Unions(terms), known |-> k]
             /\ state.type = type /\ state.unions = Unions(terms) /\ state.diff = Differences(p, terms)
             /\ IsKnowledge(terms, k) /\ IsTrue(p, terms, k) /\ KeepsGiven(p, terms, k)
             /\ Derivable = DefaultAxioms(p, Unions(terms), Differences(p, terms), k)
  <2>1. /\ state = [at |-> "derive", type |-> type, diff |-> Differences(p, terms),
                    unions |-> Unions(terms), known |-> k]
        /\ IsKnowledge(terms, k) /\ IsTrue(p, terms, k) /\ KeepsGiven(p, terms, k)
    BY <1>4 DEF TypesInvariant
  <2>2. state.type = type /\ state.unions = Unions(terms) /\ state.diff = Differences(p, terms)
    BY <2>1
  <2> QED
    BY <2>1, <2>2 DEF Derivable
<1>5. CASE Derive
  <2>1. task' = task /\ state' = [state EXCEPT !.known = Derivable] /\ state.at = "derive"
    BY <1>5 DEF Derive
  <2>2. /\ Derivable = DefaultAxioms(p, Unions(terms), Differences(p, terms), k)
        /\ state = [at |-> "derive", type |-> type, diff |-> Differences(p, terms),
                    unions |-> Unions(terms), known |-> k]
        /\ IsKnowledge(terms, k) /\ IsTrue(p, terms, k) /\ KeepsGiven(p, terms, k)
    BY <1>4, <2>1
  <2>3. IsKnowledge(terms, Derivable) /\ IsTrue(p, terms, Derivable) /\ KeepsGiven(p, terms, Derivable)
    BY <1>0, <1>1, <2>2, AxiomsAreTrue
  <2> HIDE DEF p, type, terms, k
  <2>4. /\ state' = [at |-> "derive", type |-> type, diff |-> Differences(p, terms),
                     unions |-> Unions(terms), known |-> Derivable]
        /\ state'.known = Derivable /\ state'.at = "derive"
    BY <2>1, <2>2
  <2>5. state' = [at |-> "derive", type |-> type, diff |-> Differences(p, terms),
                  unions |-> Unions(terms), known |-> state'.known]
    BY <2>4
  <2> QED
    BY <1>0, <2>1, <2>3, <2>4, <2>5 DEF TypesInvariant, TypesAreDecidedLikePython, p, type, terms
<1>6. CASE CheckTypes
  <2> DEFINE class == PythonClassOf(p, type)
             answers == [t \in ObjectTypes(p) |-> TypeCheck(p, k, t, type)]
             clashes == {t \in DOMAIN k.sub : k.sub[t] \cap k.nsub[t] # {}}
  <2>1. /\ task' = task /\ state.at = "derive" /\ Derivable = k
        /\ state' = [at |-> "done", clashes |-> clashes, class |-> PythonClassOf(p, state.type),
                     answers |-> [t \in ObjectTypes(p) |-> TypeCheck(p, k, t, state.type)]]
    BY <1>6 DEF CheckTypes
  <2>2. /\ state.type = type /\ IsKnowledge(terms, k) /\ IsTrue(p, terms, k) /\ KeepsGiven(p, terms, k)
        /\ IsComplete(p, terms, k)
    BY <1>4, <2>1 DEF IsComplete
  <2>3. state'.at = "done" /\ state'.clashes = clashes /\ state'.class = class /\ state'.answers = answers
    BY <2>1, <2>2
  <2>4. clashes = {}
    BY <2>2 DEF IsTrue, IsKnowledge
  <2>5. ASSUME NEW t \in ObjectTypes(p)
        PROVE  /\ answers[t] = "yes" <=> IsValueOf(p, t, p.declared)
               /\ answers[t] = "unknown" => LeavesOutArguments(p, p.declared)
               /\ (IsValueOf(p, t, p.declared) /\ t.f # NoneType) => ClassIsSubtype(p, t.f, class)
    BY <1>0, <2>2, ChecksAreDecided, ValuesHaveTheClass
  <2> HIDE DEF class, clashes, answers
  <2>6. DOMAIN answers = ObjectTypes(p)
    BY DEF answers
  <2> QED
    BY <1>0, <2>1, <2>3, <2>4, <2>5, <2>6 DEF TypesInvariant, TypesAreDecidedLikePython
<1>7. CASE UNCHANGED vars
  BY <1>7 DEF TypesInvariant, TypesAreDecidedLikePython, vars
<1> QED
  BY <1>2, <1>3, <1>5, <1>6, <1>7 DEF TypesNext

\* The axioms of the type domain (type_domain_factory.py get_default_axioms), the class
\* axioms and the conversion of declared types together answer every type check as
\* Python would, never contradict each other, and leave no check open unless type
\* arguments are left out: for all hierarchies, finite or not, and declared types.
THEOREM TypesAreDecided == TypesSpec => []TypesAreDecidedLikePython
<1>1. TypesInvariant => TypesAreDecidedLikePython
  BY DEF TypesInvariant
<1> QED
  BY <1>1, TypesInitially, TypesStep, PTL DEF TypesSpec

\* At every step of a derivation, an issubtype fact that the axioms of the type domain
\* give is true of the classes, and an isnotsubtype fact excludes every common subtype.
THEOREM DerivationsAreTrue == TypesSpec => []DerivationIsTrue
<1>1. TypesInvariant => DerivationIsTrue
  BY DEF TypesInvariant, DerivationIsTrue
<1> QED
  BY <1>1, TypesInitially, TypesStep, PTL DEF TypesSpec
=============================================================================
