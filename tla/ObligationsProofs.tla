------------------------- MODULE ObligationsProofs -------------------------
(***************************************************************************)
(* What the checks of the obligation encoding achieve together, for every  *)
(* set of threads, locks, contracts and loop invariants, and for stacks of *)
(* every height: a lock to be released is carried by one context, control  *)
(* comes back to whoever carries it, and the measures of methods that      *)
(* promise to terminate decrease along the calls. A thread that waits for  *)
(* a lock only has locks of lower levels, whatever their contexts, so      *)
(* threads never wait for each other in a circle; and a lock that is       *)
(* handed on from call to call is handed on with smaller and smaller       *)
(* measures.                                                               *)
(***************************************************************************)
EXTENDS Obligations, SequenceTheorems, FiniteSetTheorems, WellFoundedInduction, TLAPS

----------------------------------------------------------------------------
(* Stacks                                                                  *)

LEMMA SecondOf ==
    ASSUME NEW S, NEW s \in Seq(S), s # <<>>
    PROVE  /\ Tail(s) = <<>> <=> Len(s) = 1
           /\ Len(s) > 1 => Head(Tail(s)) = s[2]
<1>1. Tail(s) \in Seq(S) /\ Len(Tail(s)) = Len(s) - 1 /\ Len(s) \in Nat
      /\ \A i \in 1 .. Len(Tail(s)) : Tail(s)[i] = s[i + 1]
  BY HeadTailProperties
<1> DEFINE u == Tail(s)
<1>2. u = <<>> <=> Len(u) = 0
  <2> HIDE DEF u
  <2>1. u \in Seq(S)
    BY <1>1 DEF u
  <2> QED
    BY <2>1, EmptySeq
<1>3. ASSUME Len(s) > 1 PROVE Head(u) = u[1] /\ u[1] = s[2]
  <2>1. 1 \in 1 .. Len(u)
    BY <1>1, <1>3
  <2>2. u[1] = s[2]
    BY <1>1, <2>1
  <2>3. Head(u) = u[1]
    <3> HIDE DEF u
    <3>1. u \in Seq(S) /\ u # <<>>
      BY <1>1, <1>2, <1>3 DEF u
    <3> QED
      BY <3>1, HeadTailProperties
  <2> QED
    BY <2>2, <2>3
<1> QED
  BY <1>1, <1>2, <1>3

LEMMA ReplaceTop ==
    ASSUME NEW S, NEW s \in Seq(S), s # <<>>, NEW c \in S
    PROVE  LET r == <<c>> \o Tail(s)
           IN  /\ r \in Seq(S) /\ Len(r) = Len(s) /\ DOMAIN r = DOMAIN s
               /\ r[1] = c
               /\ \A i \in DOMAIN r : i # 1 => r[i] = s[i]
<1>1. Tail(s) \in Seq(S) /\ Len(Tail(s)) = Len(s) - 1 /\ Len(s) \in Nat \ {0}
  BY HeadTailProperties, EmptySeq
<1>2. \A i \in 1 .. Len(Tail(s)) : Tail(s)[i] = s[i + 1]
  BY HeadTailProperties
<1> QED
  BY <1>1, <1>2

LEMMA PushTop ==
    ASSUME NEW S, NEW s \in Seq(S), s # <<>>, NEW a \in S, NEW b \in S
    PROVE  LET r == <<a, b>> \o Tail(s)
           IN  /\ r \in Seq(S) /\ Len(r) = Len(s) + 1
               /\ r[1] = a /\ r[2] = b
               /\ \A i \in DOMAIN r : i > 2 => i - 1 \in DOMAIN s /\ r[i] = s[i - 1]
<1>1. Tail(s) \in Seq(S) /\ Len(Tail(s)) = Len(s) - 1 /\ Len(s) \in Nat \ {0}
  BY HeadTailProperties, EmptySeq
<1>2. \A i \in 1 .. Len(Tail(s)) : Tail(s)[i] = s[i + 1]
  BY HeadTailProperties
<1> QED
  BY <1>1, <1>2

LEMMA PopTop ==
    ASSUME NEW S, NEW s \in Seq(S), Len(s) > 1, NEW b \in S
    PROVE  LET r == <<b>> \o Tail(Tail(s))
           IN  /\ r \in Seq(S) /\ Len(r) = Len(s) - 1
               /\ r[1] = b
               /\ \A i \in DOMAIN r : i # 1 => i + 1 \in DOMAIN s /\ r[i] = s[i + 1]
<1>1. Tail(s) \in Seq(S) /\ Len(Tail(s)) = Len(s) - 1 /\ Len(s) \in Nat
  BY HeadTailProperties, EmptySeq
<1>2. \A i \in 1 .. Len(Tail(s)) : Tail(s)[i] = s[i + 1]
  BY HeadTailProperties
<1> DEFINE u == Tail(s)
<1>3. u \in Seq(S) /\ u # <<>>
  <2>1. Len(Tail(s)) # 0
    BY <1>1
  <2> QED
    BY <1>1, <2>1, EmptySeq
<1> HIDE DEF u
<1>4. Len(u) = Len(s) - 1 /\ \A i \in 1 .. Len(u) : u[i] = s[i + 1]
  BY <1>1, <1>2 DEF u
<1> DEFINE r == <<b>> \o Tail(u)
<1>5. /\ r \in Seq(S) /\ Len(r) = Len(u) /\ r[1] = b
      /\ \A i \in DOMAIN r : i # 1 => r[i] = u[i]
  BY <1>3, ReplaceTop
<1> HIDE DEF r
<1>6. DOMAIN r = 1 .. Len(s) - 1 /\ DOMAIN s = 1 .. Len(s)
  BY <1>4, <1>5
<1>7. \A i \in DOMAIN r : i # 1 => i + 1 \in DOMAIN s /\ r[i] = s[i + 1]
  BY <1>1, <1>4, <1>5, <1>6
<1> QED
  BY <1>4, <1>5, <1>7 DEF r, u

----------------------------------------------------------------------------
(* Contexts                                                                *)

Terms == Contracts \cup Invariants \cup {MainContract}

\* A permission is bounded or unbounded; who promised to terminate has a
\* measure for it; a method's calls are checked against its own measures.
Context ==
    {c \in [contract : Terms, loop : BOOLEAN, promised : BOOLEAN,
            calls : {q.measures : q \in Terms},
            bounded : SUBSET Locks, unbounded : SUBSET Locks, left : Int,
            children : UNION {[S -> SUBSET Locks] : S \in SUBSET Threads}] :
        /\ c.bounded \cap c.unbounded = {}
        /\ c.promised => Promises(c.contract)
        /\ ~c.loop => /\ c.calls = c.contract.measures
                      /\ c.promised = Promises(c.contract)}

\* What a contract asks for.
Asked(q) == Measured(q) \cup q.fresh

\* The part of a context that statements do not touch.
SameFrame(c, d) ==
    /\ c.contract = d.contract /\ c.loop = d.loop
    /\ c.promised = d.promised /\ c.calls = d.calls

LEMMA TermsAreContracts ==
    ASSUME ObligationsAssumption, NEW q \in Terms
    PROVE  /\ DOMAIN q = {"measures", "fresh", "waits", "gives", "returns"}
           /\ DOMAIN q.measures \subseteq Locks \cup {CThread}
           /\ \A k \in DOMAIN q.measures : q.measures[k] \in Int
           /\ q.fresh \subseteq Locks \ DOMAIN q.measures
           /\ q.gives \subseteq Locks
           /\ q.returns \subseteq Locks \ q.gives
BY DEF ObligationsAssumption, Terms, MainContract, None

LEMMA PayTakes ==
    ASSUME NEW c \in Context, NEW q, NEW map, q.fresh \subseteq Locks \ DOMAIN q.measures,
           Payable(c, q, map)
    PROVE  /\ Pay(c, q, map) \in Context
           /\ SameFrame(Pay(c, q, map), c)
           /\ Asked(q) \subseteq Held(c)
           /\ Held(Pay(c, q, map)) = Held(c) \ Asked(q)
<1> DEFINE b == PaidBounded(c, q, map)
           u == PaidUnbounded(c, q, map)
<1>1. b \subseteq c.bounded /\ u \subseteq c.unbounded /\ b \cup u = Asked(q)
  BY DEF PaidBounded, PaidUnbounded, Payable, Asked
<1> HIDE DEF b, u
<1>2. Pay(c, q, map) = [c EXCEPT !.bounded = @ \ b, !.unbounded = @ \ u]
  BY DEF Pay, b, u
<1> QED
  BY <1>1, <1>2 DEF Context, SameFrame, Held

LEMMA GainAdds ==
    ASSUME NEW c \in Context, NEW b \in SUBSET Locks, NEW u \in SUBSET Locks,
           b \cap u = {}, (b \cup u) \cap Held(c) = {}
    PROVE  /\ Gain(c, b, u) \in Context
           /\ SameFrame(Gain(c, b, u), c)
           /\ Held(Gain(c, b, u)) = Held(c) \cup b \cup u
BY DEF Gain, Context, SameFrame, Held

LEMMA StatementDone ==
    ASSUME NEW c \in Context
    PROVE  /\ [c EXCEPT !.left = @ - 1] \in Context
           /\ SameFrame([c EXCEPT !.left = @ - 1], c)
           /\ Held([c EXCEPT !.left = @ - 1]) = Held(c)
BY DEF Context, SameFrame, Held

LEMMA NoChildren == None \in UNION {[S -> SUBSET Locks] : S \in SUBSET Threads}
<1>1. None \in [{} -> SUBSET Locks]
  BY DEF None
<1> QED
  BY <1>1

LEMMA BodyStarts ==
    ASSUME ObligationsAssumption, NEW q \in Terms
    PROVE  /\ MethodBody(q) \in Context
           /\ Held(MethodBody(q)) = Asked(q)
           /\ MethodBody(q).contract = q /\ ~MethodBody(q).loop
           /\ MethodBody(q).promised = Promises(q)
           /\ MethodBody(q).calls = q.measures
<1>1. MaxStatements \in Int /\ Promises(q) \in BOOLEAN
  BY DEF ObligationsAssumption, Promises
<1>2. Measured(q) \cup q.fresh \subseteq Locks
  BY TermsAreContracts DEF Measured
<1> QED
  BY <1>1, <1>2, NoChildren DEF MethodBody, Context, Held, Asked

LEMMA IterationStarts ==
    ASSUME ObligationsAssumption, NEW c \in Context, NEW q \in Terms, NEW flag \in BOOLEAN,
           flag => Promises(q)
    PROVE  LET i == Iteration(c, q, flag)
           IN  /\ i \in Context /\ Held(i) = Asked(q)
               /\ i.loop /\ i.promised = flag /\ i.calls = c.calls
<1>1. MaxStatements \in Int
  BY DEF ObligationsAssumption
<1>2. Measured(q) \cup q.fresh \subseteq Locks
  BY TermsAreContracts DEF Measured
<1> QED
  BY <1>1, <1>2 DEF Iteration, Context, Held, Asked

----------------------------------------------------------------------------
(* What holds of each stack, and what keeps it                             *)

HeldBy(s) == UNION {Held(s[i]) : i \in DOMAIN s}

Distinct(s) == \A i, j \in DOMAIN s : i # j => Held(s[i]) \cap Held(s[j]) = {}

Orderly(s) ==
    \A i, j \in DOMAIN s :
        j < i /\ (Held(s[i]) # {} \/ s[i].promised) => s[j].promised

\* Loops are in between, with the measures of the method they belong to.
Falling(s) ==
    \A i, j \in DOMAIN s :
        j =< i /\ ~s[i].loop /\ s[i].promised =>
            /\ CThread \in DOMAIN s[j].calls
            /\ s[j].calls[CThread] =< s[i].calls[CThread]
            /\ j < i /\ ~s[j].loop => s[j].calls[CThread] < s[i].calls[CThread]

\* A thread starts with a method that hands nothing back.
Grounded(s) ==
    s # <<>> => LET c == s[Len(s)]
                IN  ~c.loop /\ c.contract.gives = {} /\ c.contract.returns = {}

SoundStack(s) == Distinct(s) /\ Orderly(s) /\ Falling(s) /\ Grounded(s)

LEMMA MeasuresAreNumbers ==
    ASSUME ObligationsAssumption
    PROVE  \A c \in Context :
              /\ \A k \in DOMAIN c.calls : c.calls[k] \in Int
              /\ ~c.loop /\ c.promised => CThread \in DOMAIN c.calls
BY TermsAreContracts DEF Context, Promises

LEMMA ReplaceKeeps ==
    ASSUME ObligationsAssumption, NEW s \in Seq(Context), s # <<>>, SoundStack(s),
           NEW c \in Context,
           c.loop = s[1].loop, c.promised = s[1].promised, c.calls = s[1].calls,
           ~c.loop => c.contract = s[1].contract,
           Held(c) \cap (HeldBy(s) \ Held(s[1])) = {}
    PROVE  LET r == <<c>> \o Tail(s)
           IN  /\ r \in Seq(Context) /\ SoundStack(r)
               /\ HeldBy(r) = (HeldBy(s) \ Held(s[1])) \cup Held(c)
<1> DEFINE r == <<c>> \o Tail(s)
<1>1. /\ r \in Seq(Context) /\ Len(r) = Len(s) /\ DOMAIN r = DOMAIN s
      /\ r[1] = c
      /\ \A i \in DOMAIN r : i # 1 => r[i] = s[i]
  BY ReplaceTop
<1>2. 1 \in DOMAIN s /\ DOMAIN s = 1 .. Len(s) /\ Len(s) \in Nat \ {0} /\ r # <<>>
  BY <1>1, EmptySeq
<1> HIDE DEF r
<1>3. \A i \in DOMAIN s : i # 1 => Held(s[i]) \subseteq HeldBy(s) \ Held(s[1])
  BY <1>2 DEF SoundStack, Distinct, HeldBy
<1>4. HeldBy(r) = (HeldBy(s) \ Held(s[1])) \cup Held(c)
  <2>1. HeldBy(r) \subseteq (HeldBy(s) \ Held(s[1])) \cup Held(c)
    BY <1>1, <1>3 DEF HeldBy
  <2>2. HeldBy(s) \ Held(s[1]) \subseteq HeldBy(r)
    BY <1>1 DEF HeldBy
  <2>3. Held(c) \subseteq HeldBy(r)
    BY <1>1, <1>2 DEF HeldBy
  <2> QED
    BY <2>1, <2>2, <2>3
<1>5. Distinct(r)
  <2> SUFFICES ASSUME NEW i \in DOMAIN r, NEW j \in DOMAIN r, i < j
               PROVE  Held(r[i]) \cap Held(r[j]) = {}
    BY <1>1, <1>2 DEF Distinct
  <2>1. r[j] = s[j] /\ j \in DOMAIN s /\ i \in DOMAIN s /\ j # 1
    BY <1>1, <1>2
  <2>2. CASE i = 1
    <3>1. Held(s[j]) \subseteq HeldBy(s) \ Held(s[1])
      BY <1>3, <2>1
    <3> QED
      BY <1>1, <2>1, <2>2, <3>1
  <2>3. CASE i # 1
    <3>1. r[i] = s[i]
      BY <1>1, <2>3
    <3>2. Held(s[i]) \cap Held(s[j]) = {}
      BY <1>2, <2>1 DEF SoundStack, Distinct
    <3> QED
      BY <2>1, <3>1, <3>2
  <2> QED
    BY <2>2, <2>3
<1>6. Orderly(r)
  <2> SUFFICES ASSUME NEW i \in DOMAIN r, NEW j \in DOMAIN r, j < i,
                      Held(r[i]) # {} \/ r[i].promised
               PROVE  r[j].promised
    BY DEF Orderly
  <2>1. r[i] = s[i] /\ i \in DOMAIN s /\ j \in DOMAIN s
    BY <1>1, <1>2
  <2>2. s[j].promised
    BY <2>1 DEF SoundStack, Orderly
  <2> QED
    BY <1>1, <2>2
<1>7. Falling(r)
  BY <1>1, <1>2 DEF SoundStack, Falling
<1>8. Grounded(r)
  BY <1>1, <1>2 DEF SoundStack, Grounded
<1> QED
  BY <1>1, <1>4, <1>5, <1>6, <1>7, <1>8 DEF r, SoundStack

LEMMA PushKeeps ==
    ASSUME ObligationsAssumption, NEW s \in Seq(Context), s # <<>>, SoundStack(s),
           NEW a \in Context, NEW b \in Context, SameFrame(b, s[1]),
           Held(a) \cup Held(b) = Held(s[1]), Held(a) \cap Held(b) = {},
           b.promised \/ Held(b) # {} => a.promised,
           \/ a.loop /\ a.calls = b.calls
           \/ ~a.loop /\ (b.promised => Check(b.calls, CThread, a.calls[CThread]))
    PROVE  LET r == <<a, b>> \o Tail(s)
           IN  r \in Seq(Context) /\ SoundStack(r) /\ HeldBy(r) = HeldBy(s)
<1> DEFINE r == <<a, b>> \o Tail(s)
<1>1. /\ r \in Seq(Context) /\ Len(r) = Len(s) + 1
      /\ r[1] = a /\ r[2] = b
      /\ \A i \in DOMAIN r : i > 2 => i - 1 \in DOMAIN s /\ r[i] = s[i - 1]
  BY PushTop
<1>2. /\ 1 \in DOMAIN s /\ DOMAIN s = 1 .. Len(s) /\ Len(s) \in Nat \ {0}
      /\ DOMAIN r = 1 .. Len(s) + 1 /\ r # <<>>
  BY <1>1, EmptySeq
<1> HIDE DEF r
<1> DEFINE below(i) == IF i = 1 THEN 1 ELSE i - 1
<1>3. \A i \in DOMAIN r : below(i) \in DOMAIN s /\ Held(r[i]) \subseteq Held(s[below(i)])
  BY <1>1, <1>2
<1>frame. \A i \in DOMAIN r : i > 1 =>
              /\ i - 1 \in DOMAIN s
              /\ r[i].loop = s[i - 1].loop /\ r[i].promised = s[i - 1].promised
              /\ r[i].calls = s[i - 1].calls
  <2> SUFFICES ASSUME NEW i \in DOMAIN r, i > 1
               PROVE  /\ i - 1 \in DOMAIN s
                      /\ r[i].loop = s[i - 1].loop /\ r[i].promised = s[i - 1].promised
                      /\ r[i].calls = s[i - 1].calls
    OBVIOUS
  <2>1. CASE i = 2
    <3>1. r[i] = b /\ i - 1 = 1
      BY <1>1, <2>1
    <3> QED
      BY <1>2, <3>1 DEF SameFrame
  <2>2. CASE i > 2
    BY <1>1, <2>2
  <2> QED
    BY <1>2, <2>1, <2>2
<1>4. HeldBy(r) = HeldBy(s)
  <2>1. HeldBy(r) \subseteq HeldBy(s)
    BY <1>3 DEF HeldBy
  <2>2. ASSUME NEW i \in DOMAIN s, NEW l \in Held(s[i]) PROVE l \in HeldBy(r)
    <3>1. CASE i = 1
      BY <1>1, <1>2, <3>1 DEF HeldBy
    <3>2. CASE i # 1
      <4>1. i + 1 \in DOMAIN r /\ r[i + 1] = s[i]
        BY <1>1, <1>2, <3>2
      <4> QED
        BY <4>1 DEF HeldBy
    <3> QED
      BY <3>1, <3>2
  <2> QED
    BY <2>1, <2>2 DEF HeldBy
<1>5. Distinct(r)
  <2> SUFFICES ASSUME NEW i \in DOMAIN r, NEW j \in DOMAIN r, i < j
               PROVE  Held(r[i]) \cap Held(r[j]) = {}
    BY <1>2 DEF Distinct
  <2>1. CASE i = 1 /\ j = 2
    BY <1>1, <2>1
  <2>2. CASE j > 2
    BY <1>2, <1>3, <2>2 DEF SoundStack, Distinct
  <2> QED
    BY <1>2, <2>1, <2>2
<1>6. Orderly(r)
  <2> SUFFICES ASSUME NEW i \in DOMAIN r, NEW j \in DOMAIN r, j < i,
                      Held(r[i]) # {} \/ r[i].promised
               PROVE  r[j].promised
    BY DEF Orderly
  <2>1. CASE i = 2
    BY <1>1, <1>2, <2>1
  <2>2. CASE i > 2
    <3>1. s[1].promised
      BY <1>1, <1>2, <2>2 DEF SoundStack, Orderly
    <3>2. j > 2 => r[j].promised
      BY <1>1, <1>2, <2>2 DEF SoundStack, Orderly
    <3>3. j = 2 => r[j].promised
      BY <1>frame, <2>2, <3>1
    <3>4. b.promised
      BY <3>1 DEF SameFrame
    <3>5. j = 1 => r[j].promised
      BY <1>1, <3>4
    <3> QED
      BY <1>2, <3>2, <3>3, <3>5
  <2> QED
    BY <1>2, <2>1, <2>2
<1>7. Falling(r)
  <2> SUFFICES ASSUME NEW i \in DOMAIN r, NEW j \in DOMAIN r,
                      j =< i, ~r[i].loop, r[i].promised
               PROVE  /\ CThread \in DOMAIN r[j].calls
                      /\ r[j].calls[CThread] =< r[i].calls[CThread]
                      /\ j < i /\ ~r[j].loop => r[j].calls[CThread] < r[i].calls[CThread]
    BY DEF Falling
  <2>0. \A k \in DOMAIN r : r[k] \in Context
    BY <1>1
  <2>1. CASE i = 1
    BY <1>1, <1>2, <2>0, <2>1, MeasuresAreNumbers
  <2>2. CASE i > 1 /\ j > 1
    <3>1. r[i].loop = s[i - 1].loop /\ r[i].promised = s[i - 1].promised
          /\ r[i].calls = s[i - 1].calls /\ i - 1 \in DOMAIN s
      BY <1>frame, <2>2
    <3>2. r[j].loop = s[j - 1].loop /\ r[j].calls = s[j - 1].calls /\ j - 1 \in DOMAIN s
      BY <1>frame, <2>2
    <3> QED
      BY <1>2, <3>1, <3>2 DEF SoundStack, Falling
  <2>3. CASE i > 1 /\ j = 1
    <3>1. r[i].loop = s[i - 1].loop /\ r[i].promised = s[i - 1].promised
          /\ r[i].calls = s[i - 1].calls /\ i - 1 \in DOMAIN s
      BY <1>frame, <2>3
    <3>2. /\ CThread \in DOMAIN b.calls
          /\ b.calls[CThread] =< r[i].calls[CThread]
      BY <1>2, <2>3, <3>1 DEF SoundStack, Falling, SameFrame
    <3>3. b.promised
      BY <1>1, <1>2, <2>3, <3>1 DEF SoundStack, Orderly, SameFrame
    <3>4. CASE a.loop
      BY <1>1, <2>3, <3>2, <3>4
    <3>5. CASE ~a.loop
      <4>1. CThread \in DOMAIN a.calls /\ a.calls[CThread] \in Int
            /\ b.calls[CThread] \in Int /\ r[i].calls[CThread] \in Int
        <5>1. CThread \in DOMAIN r[i].calls
          BY <2>0, MeasuresAreNumbers
        <5> QED
          BY <2>0, <3>2, <3>3, <3>5, <5>1, MeasuresAreNumbers
      <4>2. a.calls[CThread] < b.calls[CThread]
        BY <3>2, <3>3, <3>5, <4>1 DEF Check
      <4> QED
        BY <1>1, <2>3, <3>2, <4>1, <4>2
    <3> QED
      BY <3>4, <3>5
  <2> QED
    BY <1>2, <2>1, <2>2, <2>3
<1>8. Grounded(r)
  <2>1. r[Len(r)].loop = s[Len(s)].loop /\ r[Len(r)].contract = s[Len(s)].contract
    BY <1>1, <1>2 DEF SameFrame
  <2> QED
    BY <1>2, <2>1 DEF SoundStack, Grounded
<1> QED
  BY <1>1, <1>4, <1>5, <1>6, <1>7, <1>8 DEF r, SoundStack

LEMMA PopKeeps ==
    ASSUME ObligationsAssumption, NEW s \in Seq(Context), Len(s) > 1, SoundStack(s),
           NEW b \in Context, SameFrame(b, s[2]),
           Held(b) = Held(s[1]) \cup Held(s[2])
    PROVE  LET r == <<b>> \o Tail(Tail(s))
           IN  r \in Seq(Context) /\ SoundStack(r) /\ HeldBy(r) = HeldBy(s)
<1> DEFINE r == <<b>> \o Tail(Tail(s))
<1>1. /\ r \in Seq(Context) /\ Len(r) = Len(s) - 1 /\ r[1] = b
      /\ \A i \in DOMAIN r : i # 1 => i + 1 \in DOMAIN s /\ r[i] = s[i + 1]
  BY PopTop
<1>2. /\ DOMAIN s = 1 .. Len(s) /\ Len(s) \in Nat
      /\ DOMAIN r = 1 .. Len(s) - 1 /\ r # <<>> /\ s # <<>>
  BY <1>1, EmptySeq
<1> HIDE DEF r
<1>3. \A i \in DOMAIN r : /\ i + 1 \in DOMAIN s
                          /\ r[i].loop = s[i + 1].loop /\ r[i].promised = s[i + 1].promised
                          /\ r[i].calls = s[i + 1].calls
                          /\ r[i].contract = s[i + 1].contract
  BY <1>1, <1>2 DEF SameFrame
<1>4. HeldBy(r) = HeldBy(s)
  <2>1. ASSUME NEW i \in DOMAIN r, NEW l \in Held(r[i]) PROVE l \in HeldBy(s)
    <3>1. CASE i = 1
      BY <1>1, <1>2, <2>1, <3>1 DEF HeldBy
    <3>2. CASE i # 1
      BY <1>1, <2>1, <3>2 DEF HeldBy
    <3> QED
      BY <3>1, <3>2
  <2>2. ASSUME NEW i \in DOMAIN s, NEW l \in Held(s[i]) PROVE l \in HeldBy(r)
    <3>1. CASE i =< 2
      BY <1>1, <1>2, <2>2, <3>1 DEF HeldBy
    <3>2. CASE i > 2
      <4>1. i - 1 \in DOMAIN r /\ r[i - 1] = s[i]
        BY <1>1, <1>2, <3>2
      <4> QED
        BY <2>2, <4>1 DEF HeldBy
    <3> QED
      BY <1>2, <3>1, <3>2
  <2> QED
    BY <2>1, <2>2 DEF HeldBy
<1>5. Distinct(r)
  <2> SUFFICES ASSUME NEW i \in DOMAIN r, NEW j \in DOMAIN r, i < j
               PROVE  Held(r[i]) \cap Held(r[j]) = {}
    BY <1>2 DEF Distinct
  <2>1. r[j] = s[j + 1] /\ j + 1 \in DOMAIN s /\ i + 1 \in DOMAIN s /\ j > 1
    BY <1>1, <1>2
  <2>2. \A k \in DOMAIN s : k # j + 1 => Held(s[k]) \cap Held(r[j]) = {}
    BY <2>1 DEF SoundStack, Distinct
  <2>3. CASE i = 1
    <3>1. 1 \in DOMAIN s /\ 2 \in DOMAIN s /\ j + 1 # 1 /\ j + 1 # 2
      BY <1>2, <2>1
    <3>2. Held(s[1]) \cap Held(r[j]) = {} /\ Held(s[2]) \cap Held(r[j]) = {}
      BY <2>2, <3>1
    <3> QED
      BY <1>1, <2>3, <3>2
  <2>4. CASE i # 1
    <3>1. r[i] = s[i + 1] /\ i + 1 # j + 1
      BY <1>1, <1>2, <2>4
    <3> QED
      BY <2>1, <2>2, <3>1
  <2> QED
    BY <2>3, <2>4
<1>6. Orderly(r)
  <2> SUFFICES ASSUME NEW i \in DOMAIN r, NEW j \in DOMAIN r, j < i,
                      Held(r[i]) # {} \/ r[i].promised
               PROVE  r[j].promised
    BY DEF Orderly
  <2>1. r[i] = s[i + 1]
    BY <1>1, <1>2
  <2> QED
    BY <1>2, <1>3, <2>1 DEF SoundStack, Orderly
<1>7. Falling(r)
  BY <1>2, <1>3 DEF SoundStack, Falling
<1>8. Grounded(r)
  BY <1>1, <1>2, <1>3 DEF SoundStack, Grounded
<1> QED
  BY <1>1, <1>4, <1>5, <1>6, <1>7, <1>8 DEF r, SoundStack

----------------------------------------------------------------------------
(* The invariant                                                           *)

\* The locks in the heaps of a thread's contexts are the locks it has taken.
StacksHeld ==
    /\ stack \in [Threads -> Seq(Context)]
    /\ owner \in [Locks -> Threads \cup {Nobody}]
    /\ \A t \in Threads :
          /\ SoundStack(stack[t])
          /\ HeldBy(stack[t]) = {l \in Locks : owner[l] = t}
          /\ started[t] = "no" => stack[t] = <<>>
          /\ waiting[t] # Nobody => stack[t] # <<>>
    /\ DOMAIN started = Threads /\ DOMAIN waiting = Threads

LEMMA Running ==
    ASSUME StacksHeld, NEW t \in Threads, stack[t] # <<>>
    PROVE  /\ stack[t] \in Seq(Context) /\ Len(stack[t]) \in Nat \ {0}
           /\ 1 \in DOMAIN stack[t] /\ DOMAIN stack[t] = 1 .. Len(stack[t])
           /\ Top(t) = stack[t][1] /\ Top(t) \in Context
           /\ Held(Top(t)) \subseteq HeldBy(stack[t])
           /\ Top(t).promised => Promises(Top(t).contract)
<1>1. stack[t] \in Seq(Context)
  BY DEF StacksHeld
<1>2. Len(stack[t]) \in Nat \ {0} /\ DOMAIN stack[t] = 1 .. Len(stack[t])
  BY <1>1, EmptySeq
<1>3. Top(t) = stack[t][1] /\ Top(t) \in Context
  BY <1>1, <1>2, HeadTailProperties DEF Top
<1> QED
  BY <1>1, <1>2, <1>3 DEF HeldBy, Context

\* A step that moves locks between the contexts of one thread only.
LEMMA MoveKeeps ==
    ASSUME StacksHeld, NEW t \in Threads, stack[t] # <<>>, NEW r \in Seq(Context),
           stack' = [stack EXCEPT ![t] = r], UNCHANGED <<waiting, owner, started>>, r # <<>>,
           SoundStack(r), HeldBy(r) = HeldBy(stack[t])
    PROVE  StacksHeld'
<1>1. stack' \in [Threads -> Seq(Context)] /\ stack'[t] = r
      /\ \A u \in Threads : u # t => stack'[u] = stack[u]
  BY DEF StacksHeld
<1>2. \A u \in Threads : SoundStack(stack'[u]) /\ HeldBy(stack'[u]) = HeldBy(stack[u])
  BY <1>1 DEF StacksHeld
<1>3. \A u \in Threads : started'[u] = "no" => stack'[u] = <<>>
  BY <1>1 DEF StacksHeld
<1>4. \A u \in Threads : waiting'[u] # Nobody => stack'[u] # <<>>
  BY <1>1 DEF StacksHeld
<1> QED
  BY <1>1, <1>2, <1>3, <1>4 DEF StacksHeld

\* A statement that moves no lock, which a waiting thread may have waited for.
LEMMA StatementKeeps ==
    ASSUME ObligationsAssumption, StacksHeld, NEW t \in Threads, stack[t] # <<>>,
           NEW c \in Context, SameFrame(c, Top(t)), Held(c) = Held(Top(t)),
           stack' = [stack EXCEPT ![t] = <<c>> \o Tail(@)], UNCHANGED <<owner, started>>,
           DOMAIN waiting' = Threads, \A u \in Threads : u # t => waiting'[u] = waiting[u]
    PROVE  StacksHeld'
<1> DEFINE r == <<c>> \o Tail(stack[t])
<1>1. SoundStack(stack[t])
  BY DEF StacksHeld
<1>2. r \in Seq(Context) /\ SoundStack(r) /\ HeldBy(r) = HeldBy(stack[t])
  <2>1. Held(c) \cap (HeldBy(stack[t]) \ Held(stack[t][1])) = {}
        /\ (HeldBy(stack[t]) \ Held(stack[t][1])) \cup Held(c) = HeldBy(stack[t])
    BY Running
  <2>2. c.loop = stack[t][1].loop /\ c.promised = stack[t][1].promised
        /\ c.calls = stack[t][1].calls /\ c.contract = stack[t][1].contract
    BY Running DEF SameFrame
  <2> QED
    BY <1>1, <2>1, <2>2, Running, ReplaceKeeps
<1>3. r # <<>>
  BY Running, ReplaceTop, EmptySeq
<1> HIDE DEF r
<1>4. stack' \in [Threads -> Seq(Context)] /\ stack'[t] = r
      /\ \A u \in Threads : u # t => stack'[u] = stack[u] /\ waiting'[u] = waiting[u]
  BY <1>2 DEF StacksHeld, r
<1>5. \A u \in Threads : SoundStack(stack'[u]) /\ HeldBy(stack'[u]) = HeldBy(stack[u])
  BY <1>2, <1>4 DEF StacksHeld
<1>6. \A u \in Threads : /\ started'[u] = "no" => stack'[u] = <<>>
                         /\ waiting'[u] # Nobody => stack'[u] # <<>>
  BY <1>3, <1>4 DEF StacksHeld
<1> QED
  BY <1>4, <1>5, <1>6 DEF StacksHeld

\* A lock is taken, or given back.
LEMMA OwnershipKeeps ==
    ASSUME ObligationsAssumption, StacksHeld, NEW t \in Threads, stack[t] # <<>>,
           NEW c \in Context, SameFrame(c, Top(t)),
           NEW l \in Locks,
           \/ /\ l \notin HeldBy(stack[t]) /\ owner[l] = Nobody
              /\ Held(c) = Held(Top(t)) \cup {l} /\ owner' = [owner EXCEPT ![l] = t]
           \/ /\ l \in Held(Top(t))
              /\ Held(c) = Held(Top(t)) \ {l} /\ owner' = [owner EXCEPT ![l] = Nobody],
           stack' = [stack EXCEPT ![t] = <<c>> \o Tail(@)], UNCHANGED started,
           DOMAIN waiting' = Threads, \A u \in Threads : u # t => waiting'[u] = waiting[u]
    PROVE  StacksHeld'
<1> DEFINE r == <<c>> \o Tail(stack[t])
<1>1. SoundStack(stack[t]) /\ Held(Top(t)) \subseteq HeldBy(stack[t])
  BY Running DEF StacksHeld
<1>2. Held(c) \cap (HeldBy(stack[t]) \ Held(Top(t))) = {}
  BY <1>1
<1>3. r \in Seq(Context) /\ SoundStack(r)
      /\ HeldBy(r) = (HeldBy(stack[t]) \ Held(Top(t))) \cup Held(c)
  BY <1>1, <1>2, Running, ReplaceKeeps DEF SameFrame
<1> HIDE DEF r
<1>4. stack' = [stack EXCEPT ![t] = r]
  BY DEF r
<1>5. HeldBy(r) = {k \in Locks : owner'[k] = t}
  <2>1. HeldBy(stack[t]) = {k \in Locks : owner[k] = t} /\ owner \in [Locks -> Threads \cup {Nobody}]
    BY DEF StacksHeld
  <2>2. t # Nobody
    BY DEF ObligationsAssumption
  <2>3. CASE l \notin HeldBy(stack[t]) /\ Held(c) = Held(Top(t)) \cup {l}
             /\ owner' = [owner EXCEPT ![l] = t]
    <3>1. HeldBy(r) = HeldBy(stack[t]) \cup {l}
      BY <1>1, <1>3, <2>3
    <3>2. {k \in Locks : owner'[k] = t} = {k \in Locks : owner[k] = t} \cup {l}
      BY <2>1, <2>3
    <3> QED
      BY <2>1, <3>1, <3>2
  <2>4. CASE l \in Held(Top(t)) /\ Held(c) = Held(Top(t)) \ {l}
             /\ owner' = [owner EXCEPT ![l] = Nobody]
    <3>1. HeldBy(r) = HeldBy(stack[t]) \ {l}
      BY <1>1, <1>3, <2>4
    <3>2. {k \in Locks : owner'[k] = t} = {k \in Locks : owner[k] = t} \ {l}
      BY <2>1, <2>2, <2>4
    <3> QED
      BY <2>1, <3>1, <3>2
  <2> QED
    BY <2>3, <2>4
<1>6. \A u \in Threads : u # t =>
          {k \in Locks : owner'[k] = u} = {k \in Locks : owner[k] = u}
  BY <1>1, ObligationsAssumption DEF StacksHeld, ObligationsAssumption
<1>7. owner' \in [Locks -> Threads \cup {Nobody}]
  BY DEF StacksHeld
<1>8. stack' \in [Threads -> Seq(Context)] /\ stack'[t] = r
      /\ \A u \in Threads : u # t => stack'[u] = stack[u] /\ waiting'[u] = waiting[u]
  BY <1>3, <1>4 DEF StacksHeld
<1>9. \A u \in Threads : SoundStack(stack'[u]) /\ HeldBy(stack'[u]) = {k \in Locks : owner'[k] = u}
  <2>1. \A u \in Threads : u # t =>
            SoundStack(stack[u]) /\ HeldBy(stack[u]) = {k \in Locks : owner[k] = u}
    BY DEF StacksHeld
  <2> QED
    BY <1>3, <1>5, <1>6, <1>8, <2>1
<1>10. r # <<>>
  BY Running, ReplaceTop, EmptySeq DEF r
<1>11. \A u \in Threads : /\ started'[u] = "no" => stack'[u] = <<>>
                          /\ waiting'[u] # Nobody => stack'[u] # <<>>
  BY <1>8, <1>10 DEF StacksHeld
<1> QED
  BY <1>7, <1>8, <1>9, <1>11 DEF StacksHeld

----------------------------------------------------------------------------
(* The steps                                                               *)

LEMMA LockSteps ==
    ASSUME ObligationsAssumption, StacksHeld, NEW t \in Threads, NEW l \in Locks,
           ObtainLock(t, l) \/ ReleaseLock(t, l)
    PROVE  StacksHeld'
<1>1. l # Nobody /\ CThread \notin Locks
  BY DEF ObligationsAssumption
<1>2. stack[t] # <<>>
  BY <1>1 DEF StacksHeld, ObtainLock, ReleaseLock, Runs
<1>3. Top(t) \in Context
  BY <1>2, Running
<1>4. CASE ObtainLock(t, l)
  <2> DEFINE c == Gain(Top(t), {}, {l})
             d == [c EXCEPT !.left = @ - 1]
  <2>1. l \notin HeldBy(stack[t]) /\ owner[l] = Nobody
    BY <1>4 DEF ObtainLock, StacksHeld, ObligationsAssumption
  <2>2. l \notin Held(Top(t))
    BY <1>2, <2>1, Running
  <2>3. c \in Context /\ SameFrame(c, Top(t)) /\ Held(c) = Held(Top(t)) \cup {l}
    BY <1>3, <2>2, GainAdds
  <2> HIDE DEF c
  <2>4. d \in Context /\ SameFrame(d, Top(t)) /\ Held(d) = Held(Top(t)) \cup {l}
    BY <2>3, StatementDone DEF SameFrame
  <2>5. /\ stack' = [stack EXCEPT ![t] = <<d>> \o Tail(@)]
        /\ UNCHANGED started /\ owner' = [owner EXCEPT ![l] = t]
        /\ DOMAIN waiting' = Threads /\ \A u \in Threads : u # t => waiting'[u] = waiting[u]
    BY <1>4 DEF ObtainLock, Performs, c, StacksHeld
  <2> HIDE DEF d
  <2> QED
    BY <1>2, <2>1, <2>4, <2>5, OwnershipKeeps
<1>5. CASE ReleaseLock(t, l)
  <2> DEFINE q == ReleaseContract(l)
             c == Pay(Top(t), q, Top(t).calls)
             d == [c EXCEPT !.left = @ - 1]
  <2>1. Asked(q) = {l} /\ q.fresh = {}
    BY <1>1 DEF ReleaseContract, Asked, Measured
  <2>2. Payable(Top(t), q, Top(t).calls)
    BY <1>5 DEF ReleaseLock, Admits
  <2>3. /\ stack' = [stack EXCEPT ![t] = <<d>> \o Tail(@)]
        /\ UNCHANGED <<started, waiting>> /\ owner' = [owner EXCEPT ![l] = Nobody]
    BY <1>5 DEF ReleaseLock, Performs
  <2> HIDE DEF q
  <2>4. c \in Context /\ SameFrame(c, Top(t)) /\ Held(c) = Held(Top(t)) \ {l}
        /\ l \in Held(Top(t))
    BY <1>3, <2>1, <2>2, PayTakes
  <2> HIDE DEF c
  <2>5. d \in Context /\ SameFrame(d, Top(t)) /\ Held(d) = Held(Top(t)) \ {l}
    BY <2>4, StatementDone DEF SameFrame
  <2>6. DOMAIN waiting' = Threads /\ \A u \in Threads : u # t => waiting'[u] = waiting[u]
    BY <2>3 DEF StacksHeld
  <2> HIDE DEF d
  <2> QED
    BY <1>2, <2>3, <2>4, <2>5, <2>6, OwnershipKeeps
<1> QED
  BY <1>4, <1>5

LEMMA CallStep ==
    ASSUME ObligationsAssumption, StacksHeld, NEW t \in Threads, NEW q \in Contracts,
           Call(t, q)
    PROVE  StacksHeld'
<1> DEFINE rest == Pay(Top(t), q, Top(t).calls)
           b == [rest EXCEPT !.left = @ - 1]
           a == MethodBody(q)
           r == <<a, b>> \o Tail(stack[t])
<1>1. stack[t] # <<>> /\ q \in Terms
  BY DEF Call, Runs, Terms
<1>2. Top(t) \in Context /\ Top(t) = stack[t][1] /\ stack[t] \in Seq(Context)
      /\ (Top(t).promised => Promises(Top(t).contract))
  BY <1>1, Running
<1>3. /\ stack' = [stack EXCEPT ![t] = r] /\ UNCHANGED <<waiting, owner, started>>
      /\ Payable(Top(t), q, Top(t).calls) /\ CallerLeakCheck(rest, q)
  BY DEF Call, Admits
<1>4. a \in Context /\ Held(a) = Asked(q) /\ ~a.loop /\ a.promised = Promises(q)
      /\ a.calls = q.measures
  BY <1>1, BodyStarts
<1>5. rest \in Context /\ SameFrame(rest, Top(t)) /\ Asked(q) \subseteq Held(Top(t))
      /\ Held(rest) = Held(Top(t)) \ Asked(q)
  BY <1>1, <1>2, <1>3, TermsAreContracts, PayTakes
<1> HIDE DEF a, rest
<1>6. b \in Context /\ SameFrame(b, Top(t)) /\ Held(b) = Held(rest) /\ SameFrame(b, rest)
  BY <1>5, StatementDone DEF SameFrame
<1> HIDE DEF b
<1>7. b.promised \/ Held(b) # {} => a.promised
  BY <1>2, <1>3, <1>4, <1>6 DEF CallerLeakCheck, NoLeak, SameFrame
<1>8. b.promised => Check(b.calls, CThread, a.calls[CThread])
  BY <1>2, <1>3, <1>4, <1>6 DEF CallerLeakCheck, SameFrame
<1>9. r \in Seq(Context) /\ SoundStack(r) /\ HeldBy(r) = HeldBy(stack[t])
  <2>1. SoundStack(stack[t])
    BY DEF StacksHeld
  <2>2. Held(a) \cup Held(b) = Held(stack[t][1]) /\ Held(a) \cap Held(b) = {}
        /\ SameFrame(b, stack[t][1])
    BY <1>2, <1>4, <1>5, <1>6
  <2> QED
    BY <1>1, <1>2, <1>4, <1>6, <1>7, <1>8, <2>1, <2>2, PushKeeps
<1>10. r # <<>>
  BY <1>1, <1>2, <1>4, <1>6, PushTop, EmptySeq
<1> HIDE DEF r
<1> QED
  BY <1>1, <1>3, <1>9, <1>10, MoveKeeps

LEMMA SkipStep ==
    ASSUME ObligationsAssumption, StacksHeld, NEW t \in Threads, NEW q \in Invariants,
           SkipLoop(t, q)
    PROVE  StacksHeld'
<1> DEFINE rest == Pay(Top(t), q, None)
           c == Gain(rest, Measured(q), q.fresh)
           d == [c EXCEPT !.left = @ - 1]
<1>1. stack[t] # <<>> /\ q \in Terms
  BY DEF SkipLoop, Runs, Terms
<1>2. Top(t) \in Context
  BY <1>1, Running
<1>3. /\ stack' = [stack EXCEPT ![t] = <<d>> \o Tail(@)]
      /\ UNCHANGED <<waiting, owner, started>> /\ Payable(Top(t), q, None)
  BY DEF SkipLoop, Performs
<1>4. rest \in Context /\ SameFrame(rest, Top(t)) /\ Asked(q) \subseteq Held(Top(t))
      /\ Held(rest) = Held(Top(t)) \ Asked(q)
  BY <1>1, <1>2, <1>3, TermsAreContracts, PayTakes
<1> HIDE DEF rest
<1>5. Measured(q) \in SUBSET Locks /\ q.fresh \in SUBSET Locks /\ Measured(q) \cap q.fresh = {}
  BY <1>1, TermsAreContracts DEF Measured
<1>6. c \in Context /\ SameFrame(c, rest) /\ Held(c) = Held(rest) \cup Asked(q)
  <2>1. (Measured(q) \cup q.fresh) \cap Held(rest) = {}
    BY <1>4 DEF Asked
  <2> QED
    BY <1>4, <1>5, <2>1, GainAdds DEF Asked
<1> HIDE DEF c
<1>7. d \in Context /\ SameFrame(d, Top(t)) /\ Held(d) = Held(Top(t))
  BY <1>4, <1>6, StatementDone DEF SameFrame
<1>8. DOMAIN waiting' = Threads /\ \A u \in Threads : u # t => waiting'[u] = waiting[u]
  BY <1>3 DEF StacksHeld
<1> HIDE DEF d
<1> QED
  BY <1>1, <1>3, <1>7, <1>8, StatementKeeps

LEMMA EnterStep ==
    ASSUME ObligationsAssumption, StacksHeld, NEW t \in Threads, NEW q \in Invariants,
           EnterLoop(t, q)
    PROVE  StacksHeld'
<1> DEFINE rest == Pay(Top(t), q, None)
           a == Iteration(rest, q, Promises(q))
           b == [rest EXCEPT !.left = @ - 1]
           r == <<a, b>> \o Tail(stack[t])
<1>1. stack[t] # <<>> /\ q \in Terms
  BY DEF EnterLoop, Runs, Terms
<1>2. Top(t) \in Context /\ Top(t) = stack[t][1] /\ stack[t] \in Seq(Context)
      /\ (Top(t).promised => Promises(Top(t).contract))
  BY <1>1, Running
<1>3. /\ stack' = [stack EXCEPT ![t] = r] /\ UNCHANGED <<waiting, owner, started>>
      /\ Payable(Top(t), q, None)
      /\ Promises(q) \/ (~Promises(rest.contract) /\ NoLeak(rest))
  BY DEF EnterLoop
<1>4. rest \in Context /\ SameFrame(rest, Top(t)) /\ Asked(q) \subseteq Held(Top(t))
      /\ Held(rest) = Held(Top(t)) \ Asked(q)
  BY <1>1, <1>2, <1>3, TermsAreContracts, PayTakes
<1> HIDE DEF rest
<1>5. a \in Context /\ Held(a) = Asked(q) /\ a.loop /\ a.promised = Promises(q)
      /\ a.calls = rest.calls
  <2>1. Promises(q) \in BOOLEAN
    BY DEF Promises
  <2> QED
    BY <1>1, <1>4, <2>1, IterationStarts
<1>6. b \in Context /\ SameFrame(b, Top(t)) /\ Held(b) = Held(rest) /\ SameFrame(b, rest)
  BY <1>4, StatementDone DEF SameFrame
<1> HIDE DEF a, b
<1>7. b.promised \/ Held(b) # {} => a.promised
  BY <1>2, <1>3, <1>5, <1>6 DEF NoLeak, SameFrame
<1>8. a.calls = b.calls
  BY <1>5, <1>6 DEF SameFrame
<1>9. r \in Seq(Context) /\ SoundStack(r) /\ HeldBy(r) = HeldBy(stack[t])
  <2>1. SoundStack(stack[t])
    BY DEF StacksHeld
  <2>2. Held(a) \cup Held(b) = Held(stack[t][1]) /\ Held(a) \cap Held(b) = {}
        /\ SameFrame(b, stack[t][1])
    BY <1>2, <1>4, <1>5, <1>6
  <2> QED
    BY <1>1, <1>2, <1>5, <1>6, <1>7, <1>8, <2>1, <2>2, PushKeeps
<1>10. r # <<>>
  BY <1>1, <1>2, <1>5, <1>6, PushTop, EmptySeq
<1> HIDE DEF r
<1> QED
  BY <1>1, <1>3, <1>9, <1>10, MoveKeeps

\* What a loop leaves behind after an iteration is what its invariant asks for.
LEMMA IterationEnds ==
    ASSUME ObligationsAssumption, StacksHeld, NEW t \in Threads, NEW q \in Invariants,
           BodyEnd(t, q)
    PROVE  stack[t] # <<>> /\ Top(t).loop /\ Held(Top(t)) = Asked(q)
<1> DEFINE rest == Pay(Top(t), q, Top(t).contract.measures)
<1>1. stack[t] # <<>> /\ Top(t).loop /\ NoLeak(rest)
      /\ Payable(Top(t), q, Top(t).contract.measures)
  BY DEF BodyEnd, Runs
<1>2. q.fresh \subseteq Locks \ DOMAIN q.measures
  BY TermsAreContracts DEF Terms
<1>3. Asked(q) \subseteq Held(Top(t)) /\ Held(rest) = Held(Top(t)) \ Asked(q)
  BY <1>1, <1>2, Running, PayTakes
<1> QED
  BY <1>1, <1>3 DEF NoLeak

LEMMA IterateStep ==
    ASSUME ObligationsAssumption, StacksHeld, NEW t \in Threads, NEW q \in Invariants,
           Iterate(t, q)
    PROVE  StacksHeld'
<1> DEFINE a == Iteration(Top(t), q, Top(t).promised)
           r == <<a>> \o Tail(stack[t])
<1>1. stack[t] # <<>> /\ q \in Terms /\ Top(t).loop /\ Held(Top(t)) = Asked(q)
  BY IterationEnds DEF Iterate, Terms
<1>2. Top(t) \in Context /\ Top(t) = stack[t][1] /\ stack[t] \in Seq(Context)
      /\ Held(Top(t)) \subseteq HeldBy(stack[t])
  BY <1>1, Running
<1>3. /\ stack' = [stack EXCEPT ![t] = r] /\ UNCHANGED <<waiting, owner, started>>
      /\ Top(t).promised => Promises(q)
  BY DEF Iterate, ContinuesToTerminate
<1>4. Top(t).promised \in BOOLEAN
  BY <1>2 DEF Context
<1>5. a \in Context /\ Held(a) = Asked(q) /\ a.loop /\ a.promised = Top(t).promised
      /\ a.calls = Top(t).calls
  BY <1>1, <1>2, <1>3, <1>4, IterationStarts
<1> HIDE DEF a
<1>6. r \in Seq(Context) /\ SoundStack(r) /\ HeldBy(r) = HeldBy(stack[t])
  <2>1. SoundStack(stack[t])
    BY DEF StacksHeld
  <2>2. a.loop = stack[t][1].loop /\ a.promised = stack[t][1].promised
        /\ a.calls = stack[t][1].calls
    BY <1>1, <1>2, <1>5 DEF Context
  <2>3. Held(a) \cap (HeldBy(stack[t]) \ Held(stack[t][1])) = {}
        /\ (HeldBy(stack[t]) \ Held(stack[t][1])) \cup Held(a) = HeldBy(stack[t])
    BY <1>1, <1>2, <1>5
  <2> QED
    BY <1>1, <1>2, <1>5, <2>1, <2>2, <2>3, ReplaceKeeps
<1>7. r # <<>>
  BY <1>1, <1>2, <1>5, ReplaceTop, EmptySeq
<1> HIDE DEF r
<1> QED
  BY <1>1, <1>3, <1>6, <1>7, MoveKeeps

\* The context below gets back what the one on top had left.
LEMMA HandBack ==
    ASSUME ObligationsAssumption, StacksHeld, NEW t \in Threads, stack[t] # <<>>,
           Tail(stack[t]) # <<>>, UNCHANGED <<waiting, owner, started>>,
           NEW bounded \in SUBSET Locks, NEW unbounded \in SUBSET Locks,
           bounded \cap unbounded = {}, Held(Top(t)) = bounded \cup unbounded,
           stack' = [stack EXCEPT ![t] =
               <<Gain(Head(Tail(@)), bounded, unbounded)>> \o Tail(Tail(@))]
    PROVE  StacksHeld'
<1> DEFINE s == stack[t]
           b == Gain(Head(Tail(s)), bounded, unbounded)
           r == <<b>> \o Tail(Tail(s))
<1>1. /\ s \in Seq(Context) /\ s # <<>> /\ Top(t) = s[1] /\ 1 \in DOMAIN s
      /\ DOMAIN s = 1 .. Len(s) /\ Len(s) \in Nat \ {0} /\ SoundStack(s)
  BY Running DEF StacksHeld
<1>2. Len(s) > 1 /\ Head(Tail(s)) = s[2]
  BY <1>1, SecondOf
<1>3. stack' = [stack EXCEPT ![t] = r]
  OBVIOUS
<1> HIDE DEF s
<1>4. s[2] \in Context /\ 2 \in DOMAIN s
  BY <1>1, <1>2
<1>5. Held(s[1]) \cap Held(s[2]) = {}
  <2>1. \A i, j \in DOMAIN s : i # j => Held(s[i]) \cap Held(s[j]) = {}
    BY <1>1 DEF SoundStack, Distinct
  <2>2. 1 \in DOMAIN s /\ 2 \in DOMAIN s /\ 1 # 2
    BY <1>1, <1>4
  <2> HIDE DEF s
  <2> QED
    BY <2>1, <2>2, Zenon
<1>6. b \in Context /\ SameFrame(b, s[2]) /\ Held(b) = Held(s[1]) \cup Held(s[2])
  <2>1. (bounded \cup unbounded) \cap Held(s[2]) = {}
    BY <1>1, <1>5
  <2>2. b = Gain(s[2], bounded, unbounded)
    BY <1>2
  <2>3. LET g == Gain(s[2], bounded, unbounded)
        IN  g \in Context /\ SameFrame(g, s[2]) /\ Held(g) = Held(s[2]) \cup bounded \cup unbounded
    BY <1>4, <2>1, GainAdds
  <2>4. Held(s[1]) = bounded \cup unbounded
    BY <1>1, Zenon
  <2> QED
    BY <2>2, <2>3, <2>4
<1> HIDE DEF b
<1>7. r \in Seq(Context) /\ SoundStack(r) /\ HeldBy(r) = HeldBy(s)
  BY <1>1, <1>2, <1>6, PopKeeps
<1>8. r # <<>>
  BY <1>1, <1>2, <1>6, PopTop, EmptySeq
<1> HIDE DEF r
<1> QED
  BY <1>1, <1>3, <1>7, <1>8, MoveKeeps DEF s

LEMMA LeaveStep ==
    ASSUME ObligationsAssumption, StacksHeld, NEW t \in Threads, NEW q \in Invariants,
           LeaveLoop(t, q)
    PROVE  StacksHeld'
<1>1. stack[t] # <<>> /\ Top(t).loop /\ Held(Top(t)) = Measured(q) \cup q.fresh
  BY IterationEnds DEF LeaveLoop, Asked
<1>2. Tail(stack[t]) # <<>>
  <2>1. stack[t] \in Seq(Context) /\ Len(stack[t]) \in Nat \ {0} /\ stack[t][1].loop
        /\ ~stack[t][Len(stack[t])].loop
    BY <1>1, Running DEF StacksHeld, SoundStack, Grounded
  <2>2. Len(stack[t]) # 1
    BY <2>1
  <2> QED
    BY <1>1, <2>1, <2>2, SecondOf
<1>3. Measured(q) \in SUBSET Locks /\ q.fresh \in SUBSET Locks /\ Measured(q) \cap q.fresh = {}
  BY TermsAreContracts DEF Measured, Terms
<1>4. /\ stack' = [stack EXCEPT ![t] =
            <<Gain(Head(Tail(@)), Measured(q), q.fresh)>> \o Tail(Tail(@))]
      /\ UNCHANGED <<waiting, owner, started>>
  BY DEF LeaveLoop
<1> QED
  BY <1>1, <1>2, <1>3, <1>4, HandBack

LEMMA ReturnStep ==
    ASSUME ObligationsAssumption, StacksHeld, NEW t \in Threads, Return(t)
    PROVE  StacksHeld'
<1> DEFINE q == Top(t).contract
           post == Postcondition(q)
<1>1. stack[t] # <<>>
  BY DEF Return, Runs
<1>2. Top(t) \in Context /\ Top(t) = stack[t][1] /\ q \in Terms
  BY <1>1, Running DEF Context
<1>3. /\ DOMAIN q = {"measures", "fresh", "waits", "gives", "returns"}
      /\ q.gives \subseteq Locks /\ q.returns \subseteq Locks \ q.gives
  BY <1>2, TermsAreContracts
<1>4. Measured(post) = q.returns /\ post.fresh = q.gives /\ DOMAIN post.measures = q.returns
  BY <1>3 DEF Postcondition, Measured
<1>5. Payable(Top(t), post, None) /\ NoLeak(Pay(Top(t), post, None))
  BY DEF Return
<1>6. Held(Top(t)) = q.returns \cup q.gives
  <2>1. post.fresh \subseteq Locks \ DOMAIN post.measures
    BY <1>3, <1>4
  <2>2. Asked(post) \subseteq Held(Top(t))
        /\ Held(Pay(Top(t), post, None)) = Held(Top(t)) \ Asked(post)
    BY <1>2, <1>5, <2>1, PayTakes
  <2> QED
    BY <1>4, <1>5, <2>2 DEF NoLeak, Asked
<1>7. UNCHANGED <<waiting, owner, started>>
  BY DEF Return
<1>8. CASE Tail(stack[t]) # <<>>
  <2>1. stack' = [stack EXCEPT ![t] =
            <<Gain(Head(Tail(@)), q.returns, q.gives)>> \o Tail(Tail(@))]
    BY <1>8 DEF Return
  <2>2. q.returns \cap q.gives = {} /\ q.returns \in SUBSET Locks /\ q.gives \in SUBSET Locks
    BY <1>3
  <2> HIDE DEF q
  <2> QED
    BY <1>1, <1>6, <1>7, <1>8, <2>1, <2>2, HandBack
<1>9. CASE Tail(stack[t]) = <<>>
  <2>1. stack[t] \in Seq(Context) /\ Len(stack[t]) \in Nat \ {0}
        /\ DOMAIN stack[t] = 1 .. Len(stack[t])
    BY <1>1, Running
  <2>2. Len(stack[t]) = 1
    BY <1>1, <1>9, <2>1, SecondOf
  <2>3. q.gives = {} /\ q.returns = {}
    BY <1>1, <1>2, <2>2 DEF StacksHeld, SoundStack, Grounded
  <2>4. HeldBy(stack[t]) = {}
    BY <1>2, <1>6, <2>1, <2>2, <2>3 DEF HeldBy
  <2>5. stack' = [stack EXCEPT ![t] = <<>>]
    BY <1>9 DEF Return
  <2>6. <<>> \in Seq(Context) /\ SoundStack(<<>>) /\ HeldBy(<<>>) = {}
    BY DEF SoundStack, Distinct, Orderly, Falling, Grounded, HeldBy
  <2>7. waiting[t] = Nobody
    BY DEF Return, Runs
  <2>8. stack' \in [Threads -> Seq(Context)] /\ stack'[t] = <<>>
        /\ \A u \in Threads : u # t => stack'[u] = stack[u]
    BY <2>5, <2>6 DEF StacksHeld
  <2>9. \A u \in Threads : SoundStack(stack'[u]) /\ HeldBy(stack'[u]) = HeldBy(stack[u])
    BY <2>4, <2>6, <2>8 DEF StacksHeld
  <2>10. \A u \in Threads : /\ started'[u] = "no" => stack'[u] = <<>>
                            /\ waiting'[u] # Nobody => stack'[u] # <<>>
    BY <1>7, <2>7, <2>8 DEF StacksHeld
  <2> QED
    BY <1>7, <2>8, <2>9, <2>10 DEF StacksHeld
<1> QED
  BY <1>8, <1>9

LEMMA JoinSteps ==
    ASSUME ObligationsAssumption, StacksHeld, NEW t \in Threads, NEW u \in Threads,
           RequestJoin(t, u) \/ CompleteJoin(t, u)
    PROVE  StacksHeld'
<1>1. CASE RequestJoin(t, u)
  BY <1>1 DEF RequestJoin, Runs, StacksHeld
<1>2. CASE CompleteJoin(t, u)
  <2> DEFINE d == [Top(t) EXCEPT !.left = @ - 1]
  <2>1. stack[t] # <<>>
    BY <1>2 DEF CompleteJoin, StacksHeld, ObligationsAssumption
  <2>2. Top(t) \in Context
    BY <2>1, Running
  <2>3. d \in Context /\ SameFrame(d, Top(t)) /\ Held(d) = Held(Top(t))
    BY <2>2, StatementDone
  <2>4. /\ stack' = [stack EXCEPT ![t] = <<d>> \o Tail(@)] /\ UNCHANGED <<owner, started>>
        /\ DOMAIN waiting' = Threads /\ \A v \in Threads : v # t => waiting'[v] = waiting[v]
    BY <1>2 DEF CompleteJoin, Performs, StacksHeld
  <2> HIDE DEF d
  <2> QED
    BY <2>1, <2>3, <2>4, StatementKeeps
<1> QED
  BY <1>1, <1>2

\* A new thread has the locks it was given and nothing below it.
LEMMA FirstContext ==
    ASSUME ObligationsAssumption, NEW c \in Context, ~c.loop,
           c.contract.gives = {}, c.contract.returns = {}
    PROVE  <<c>> \in Seq(Context) /\ SoundStack(<<c>>) /\ HeldBy(<<c>>) = Held(c)
<1>1. <<c>> \in Seq(Context) /\ DOMAIN <<c>> = {1} /\ <<c>>[1] = c /\ Len(<<c>>) = 1
  OBVIOUS
<1>2. Falling(<<c>>)
  BY <1>1, MeasuresAreNumbers DEF Falling
<1>3. Distinct(<<c>>) /\ Orderly(<<c>>) /\ Grounded(<<c>>)
  BY <1>1 DEF Distinct, Orderly, Grounded
<1>4. HeldBy(<<c>>) = Held(c)
  BY <1>1 DEF HeldBy
<1> QED
  BY <1>1, <1>2, <1>3, <1>4 DEF SoundStack

\* The forking context: the locks it has handed over are gone.
LEMMA HandsOver ==
    ASSUME NEW c \in Context, NEW u \in Threads, NEW q, MayHandOver(c, q)
    PROVE  LET rest == [c EXCEPT !.unbounded = @ \ Asked(q), !.left = @ - 1]
               forker == [rest EXCEPT !.children = WithChild(@, u, Held(rest))]
           IN  /\ forker \in Context /\ SameFrame(forker, c)
               /\ Asked(q) \subseteq Held(c)
               /\ Held(forker) = Held(c) \ Asked(q)
<1> DEFINE rest == [c EXCEPT !.unbounded = @ \ Asked(q), !.left = @ - 1]
           forker == [rest EXCEPT !.children = WithChild(@, u, Held(rest))]
<1>1. Asked(q) \subseteq c.unbounded \ c.bounded
  BY DEF MayHandOver, Asked
<1>2. rest \in Context /\ SameFrame(rest, c) /\ Held(rest) = Held(c) \ Asked(q)
  <2> DEFINE asked == Asked(q)
  <2>1. asked \subseteq c.unbounded /\ asked \cap c.bounded = {}
    BY <1>1
  <2> HIDE DEF asked
  <2> DEFINE d == [c EXCEPT !.unbounded = @ \ asked]
  <2>2. d \in Context /\ SameFrame(d, c) /\ Held(d) = Held(c) \ asked
    BY <2>1 DEF Context, SameFrame, Held
  <2>3. rest = [d EXCEPT !.left = @ - 1]
    BY DEF Context, asked
  <2> HIDE DEF d
  <2>4. LET e == [d EXCEPT !.left = @ - 1]
        IN  e \in Context /\ SameFrame(e, c) /\ Held(e) = Held(c) \ asked
    BY <2>2, StatementDone DEF SameFrame
  <2> HIDE DEF rest
  <2> QED
    BY <2>3, <2>4 DEF asked
<1> HIDE DEF rest
<1> DEFINE k == WithChild(rest.children, u, Held(rest))
<1>3. Held(rest) \in SUBSET Locks
  BY <1>2 DEF Held, Context
<1>4. k \in UNION {[S -> SUBSET Locks] : S \in SUBSET Threads}
  <2>1. PICK S \in SUBSET Threads : rest.children \in [S -> SUBSET Locks]
    BY <1>2 DEF Context
  <2>2. k \in [S \cup {u} -> SUBSET Locks]
    BY <1>3, <2>1 DEF WithChild
  <2>3. S \cup {u} \in SUBSET Threads
    OBVIOUS
  <2> QED
    BY <2>2, <2>3
<1> HIDE DEF k
<1>5. forker = [rest EXCEPT !.children = k]
  BY DEF k
<1>6. forker \in Context /\ SameFrame(forker, c) /\ Held(forker) = Held(rest)
  BY <1>2, <1>4, <1>5 DEF Context, SameFrame, Held
<1> HIDE DEF forker
<1>7. Asked(q) \subseteq Held(c)
  BY <1>1 DEF Held
<1> QED
  BY <1>2, <1>6, <1>7 DEF forker, rest

LEMMA ForkStep ==
    ASSUME ObligationsAssumption, StacksHeld, NEW t \in Threads, NEW u \in Threads,
           NEW q \in Contracts, Fork(t, u, q)
    PROVE  StacksHeld'
<1> DEFINE rest == [Top(t) EXCEPT !.unbounded = @ \ Asked(q), !.left = @ - 1]
           forker == [rest EXCEPT !.children = WithChild(@, u, Held(rest))]
           body == MethodBody(q)
           r == <<forker>> \o Tail(stack[t])
<1>1. stack[t] # <<>> /\ stack[u] = <<>> /\ u # t /\ q \in Terms /\ waiting[t] = Nobody
  BY DEF Fork, Runs, StacksHeld, Terms
<1>2. Top(t) \in Context /\ Top(t) = stack[t][1] /\ stack[t] \in Seq(Context)
      /\ Held(Top(t)) \subseteq HeldBy(stack[t])
  BY <1>1, Running
<1>3. /\ stack' = [stack EXCEPT ![t] = r, ![u] = <<body>>]
      /\ owner' = [l \in Locks |-> IF l \in Asked(q) THEN u ELSE owner[l]]
      /\ started' = [started EXCEPT ![u] = IF Promises(q) THEN "joinable" ELSE "yes"]
      /\ UNCHANGED waiting /\ MayHandOver(Top(t), q)
      /\ q.gives = {} /\ q.returns = {}
  BY DEF Fork, Asked
<1>4. /\ forker \in Context /\ SameFrame(forker, Top(t)) /\ Asked(q) \subseteq Held(Top(t))
      /\ Held(forker) = Held(Top(t)) \ Asked(q)
  BY <1>2, <1>3, HandsOver
<1> HIDE DEF forker
<1>5. r \in Seq(Context) /\ SoundStack(r) /\ HeldBy(r) = HeldBy(stack[t]) \ Asked(q)
  <2>1. SoundStack(stack[t])
    BY DEF StacksHeld
  <2>2. Held(forker) \cap (HeldBy(stack[t]) \ Held(stack[t][1])) = {}
    BY <1>2, <1>4
  <2>3. forker.loop = stack[t][1].loop /\ forker.promised = stack[t][1].promised
        /\ forker.calls = stack[t][1].calls /\ forker.contract = stack[t][1].contract
    BY <1>2, <1>4 DEF SameFrame
  <2>4. r \in Seq(Context) /\ SoundStack(r)
        /\ HeldBy(r) = (HeldBy(stack[t]) \ Held(stack[t][1])) \cup Held(forker)
    BY <1>1, <1>2, <1>4, <2>1, <2>2, <2>3, ReplaceKeeps
  <2>5. (HeldBy(stack[t]) \ Held(stack[t][1])) \cup Held(forker)
            = HeldBy(stack[t]) \ Asked(q)
    <3>1. \A l \in Asked(q) : l \in Held(stack[t][1])
      BY <1>2, <1>4
    <3>2. Held(stack[t][1]) \subseteq HeldBy(stack[t])
          /\ Held(forker) = Held(stack[t][1]) \ Asked(q)
      BY <1>2, <1>4
    <3> QED
      BY <3>1, <3>2
  <2> QED
    BY <2>4, <2>5
<1>6. <<body>> \in Seq(Context) /\ SoundStack(<<body>>) /\ HeldBy(<<body>>) = Asked(q)
  BY <1>1, <1>3, BodyStarts, FirstContext
<1> HIDE DEF body
<1>7. r # <<>> /\ <<body>> # <<>>
  BY <1>1, <1>2, <1>4, ReplaceTop, EmptySeq
<1> HIDE DEF r
<1>8. /\ stack' \in [Threads -> Seq(Context)] /\ stack'[t] = r /\ stack'[u] = <<body>>
      /\ \A v \in Threads : v # t /\ v # u => stack'[v] = stack[v]
  BY <1>1, <1>3, <1>5, <1>6 DEF StacksHeld
<1>9. Asked(q) \subseteq {l \in Locks : owner[l] = t}
  BY <1>2, <1>4 DEF StacksHeld
<1>10. \A v \in Threads : SoundStack(stack'[v]) /\ HeldBy(stack'[v]) = {l \in Locks : owner'[l] = v}
  <2>1. /\ \A v \in Threads : SoundStack(stack[v]) /\ HeldBy(stack[v]) = {l \in Locks : owner[l] = v}
        /\ owner \in [Locks -> Threads \cup {Nobody}]
    BY DEF StacksHeld
  <2>2. HeldBy(<<>>) = {}
    BY DEF HeldBy
  <2>3. {l \in Locks : owner[l] = u} = {}
    BY <1>1, <2>1, <2>2
  <2>4. {l \in Locks : owner'[l] = u} = Asked(q)
    BY <1>3, <1>9, <2>3
  <2>5. {l \in Locks : owner'[l] = t} = {l \in Locks : owner[l] = t} \ Asked(q)
    BY <1>1, <1>3
  <2>6. \A v \in Threads : v # t /\ v # u =>
            {l \in Locks : owner'[l] = v} = {l \in Locks : owner[l] = v}
    BY <1>3, <1>9
  <2> QED
    BY <1>5, <1>6, <1>8, <2>1, <2>4, <2>5, <2>6
<1>11. \A v \in Threads : /\ started'[v] = "no" => stack'[v] = <<>>
                          /\ waiting'[v] # Nobody => stack'[v] # <<>>
  BY <1>1, <1>3, <1>7, <1>8 DEF StacksHeld
<1>12. owner' \in [Locks -> Threads \cup {Nobody}] /\ DOMAIN started' = Threads
       /\ DOMAIN waiting' = Threads
  BY <1>3 DEF StacksHeld
<1> QED
  BY <1>8, <1>10, <1>11, <1>12 DEF StacksHeld

LEMMA StacksInitially == ObligationsAssumption /\ Init => StacksHeld
<1> SUFFICES ASSUME ObligationsAssumption, Init PROVE StacksHeld
  OBVIOUS
<1> DEFINE body == MethodBody(MainContract)
<1>1. MainContract \in Terms /\ Asked(MainContract) = {}
      /\ MainContract.gives = {} /\ MainContract.returns = {}
  BY DEF Terms, Asked, Measured, MainContract, None
<1>2. <<body>> \in Seq(Context) /\ SoundStack(<<body>>) /\ HeldBy(<<body>>) = {}
  BY <1>1, BodyStarts, FirstContext
<1>3. <<>> \in Seq(Context) /\ SoundStack(<<>>) /\ HeldBy(<<>>) = {}
  BY DEF SoundStack, Distinct, Orderly, Falling, Grounded, HeldBy
<1> HIDE DEF body
<1>4. stack = [t \in Threads |-> IF t = Main THEN <<body>> ELSE <<>>]
  BY DEF Init, body
<1>5. \A t \in Threads : /\ stack[t] \in Seq(Context)
                         /\ SoundStack(stack[t]) /\ HeldBy(stack[t]) = {}
                         /\ t # Main => stack[t] = <<>>
  BY <1>2, <1>3, <1>4
<1>6. \A t \in Threads : /\ {l \in Locks : owner[l] = t} = {}
                         /\ started[t] = "no" => t # Main
                         /\ waiting[t] = Nobody
  BY DEF Init, ObligationsAssumption
<1>7. owner \in [Locks -> Threads \cup {Nobody}] /\ DOMAIN started = Threads
      /\ DOMAIN waiting = Threads /\ stack \in [Threads -> Seq(Context)]
  BY <1>4, <1>5 DEF Init
<1> QED
  BY <1>5, <1>6, <1>7 DEF StacksHeld

LEMMA StacksStep == ObligationsAssumption /\ StacksHeld /\ [Next]_vars => StacksHeld'
<1> SUFFICES ASSUME ObligationsAssumption, StacksHeld, [Next]_vars PROVE StacksHeld'
  OBVIOUS
<1>1. ASSUME NEW t \in Threads, NEW l \in Locks, RequestLock(t, l) PROVE StacksHeld'
  BY <1>1 DEF RequestLock, Runs, StacksHeld
<1>2. CASE UNCHANGED vars
  BY <1>2 DEF vars, StacksHeld
<1> QED
  BY <1>1, <1>2, LockSteps, CallStep, ReturnStep, EnterStep, SkipStep, IterateStep,
     LeaveStep, ForkStep, JoinSteps DEF Next

LEMMA StacksInvariant == Spec => []StacksHeld
<1>1. ObligationsAssumption
  BY ObligationsAssumption
<1> QED
  BY <1>1, StacksInitially, StacksStep, PTL DEF Spec

----------------------------------------------------------------------------
(* The theorems                                                            *)

\* Control comes back to whoever has a lock to release or has promised to
\* terminate, however deep calls and loops are nested.
THEOREM ControlComesBack == Spec => []CarriersAreComeBackTo
<1>1. StacksHeld => CarriersAreComeBackTo
  BY DEF StacksHeld, CarriersAreComeBackTo, SoundStack, Orderly
<1> QED
  BY <1>1, StacksInvariant, PTL

\* Methods that promise to terminate are called with smaller and smaller
\* measures, also from inside loops.
THEOREM TerminationIsWellFounded == Spec => []TerminationMeasuresDecrease
<1>1. StacksHeld => TerminationMeasuresDecrease
  BY DEF StacksHeld, TerminationMeasuresDecrease, SoundStack, Falling
<1> QED
  BY <1>1, StacksInvariant, PTL

\* The permission to release a lock is neither lost nor doubled by calls,
\* returns, loops and forks: it is with one context of the lock's owner.
THEOREM LocksAreCarriedOnce == Spec => []EveryLockHasOneCarrier
<1>1. ASSUME StacksHeld, NEW l \in Locks
      PROVE  /\ IF owner[l] = Nobody THEN Carriers(l) = {}
                ELSE \E i \in DOMAIN stack[owner[l]] : Carriers(l) = {<<owner[l], i>>}
             /\ \A p \in Carriers(l) :
                    l \notin stack[p[1]][p[2]].bounded \cap stack[p[1]][p[2]].unbounded
  <2>0. Nobody \notin Threads
    BY ObligationsAssumption DEF ObligationsAssumption
  <2>1. \A p \in Carriers(l) : /\ p[1] \in Threads /\ p[2] \in DOMAIN stack[p[1]]
                               /\ p = <<p[1], p[2]>>
                               /\ l \in Held(stack[p[1]][p[2]])
    BY DEF Carriers, Contexts
  <2>2. \A t \in Threads : \A i \in DOMAIN stack[t] : l \in Held(stack[t][i]) =>
            owner[l] = t /\ <<t, i>> \in Carriers(l)
    BY <1>1 DEF StacksHeld, HeldBy, Carriers, Contexts
  <2> DEFINE OneCarrier ==
          IF owner[l] = Nobody THEN Carriers(l) = {}
          ELSE \E i \in DOMAIN stack[owner[l]] : Carriers(l) = {<<owner[l], i>>}
  <2>3. ASSUME owner[l] = Nobody PROVE OneCarrier
    BY <2>0, <2>1, <2>2, <2>3
  <2>4. ASSUME owner[l] # Nobody PROVE OneCarrier
    <3> DEFINE t == owner[l]
    <3>1. t \in Threads
      BY <1>1, <2>4 DEF StacksHeld
    <3>2. PICK i \in DOMAIN stack[t] : l \in Held(stack[t][i])
      BY <1>1, <3>1 DEF StacksHeld, HeldBy
    <3>3. \A j \in DOMAIN stack[t] : l \in Held(stack[t][j]) => j = i
      BY <1>1, <3>1, <3>2 DEF StacksHeld, SoundStack, Distinct
    <3>4. Carriers(l) = {<<t, i>>}
      BY <2>1, <2>2, <3>1, <3>2, <3>3
    <3>5. \E j \in DOMAIN stack[t] : Carriers(l) = {<<t, j>>}
      BY <3>2, <3>4
    <3> QED
      BY <2>4, <3>5
  <2>5. \A p \in Carriers(l) :
            l \notin stack[p[1]][p[2]].bounded \cap stack[p[1]][p[2]].unbounded
    <3> SUFFICES ASSUME NEW p \in Carriers(l)
                 PROVE  stack[p[1]][p[2]].bounded \cap stack[p[1]][p[2]].unbounded = {}
      OBVIOUS
    <3>1. stack[p[1]][p[2]] \in Context
      BY <1>1, <2>1 DEF StacksHeld
    <3> QED
      BY <3>1 DEF Context
  <2> QED
    BY <2>3, <2>4, <2>5
<1>2. StacksHeld => EveryLockHasOneCarrier
  BY <1>1 DEF EveryLockHasOneCarrier
<1> QED
  BY <1>2, StacksInvariant, PTL


----------------------------------------------------------------------------
(* Levels: a comparison a context has made holds of the locks below it.    *)

LevelsKnown(s) ==
    \A i, j \in DOMAIN s : j < i =>
        \A l \in Held(s[i]), k \in s[j].contract.waits : Level[l] < Level[k]

StacksLeveled ==
    \A t \in Threads :
        /\ LevelsKnown(stack[t])
        /\ waiting[t] \in Locks =>
              \A l \in HeldBy(stack[t]) : Level[l] < Level[waiting[t]]

\* All locks below the running context.
AllBelow(s, k) == \A i \in DOMAIN s : i # 1 => \A l \in Held(s[i]) : Level[l] < Level[k]

LEMMA LevelsReplace ==
    ASSUME NEW s \in Seq(Context), s # <<>>, LevelsKnown(s), NEW c \in Context,
           \A k \in c.contract.waits : AllBelow(s, k)
    PROVE  LevelsKnown(<<c>> \o Tail(s))
<1> DEFINE r == <<c>> \o Tail(s)
<1>1. /\ r \in Seq(Context) /\ Len(r) = Len(s) /\ DOMAIN r = DOMAIN s
      /\ r[1] = c
      /\ \A i \in DOMAIN r : i # 1 => r[i] = s[i]
  BY ReplaceTop
<1> HIDE DEF r
<1>2. DOMAIN r = 1 .. Len(r) /\ Len(r) \in Nat
  BY <1>1
<1>3. ASSUME NEW i \in DOMAIN r, NEW j \in DOMAIN r, j < i, NEW l \in Held(r[i]),
             NEW k \in r[j].contract.waits
      PROVE  Level[l] < Level[k]
  <2>1. i # 1 /\ r[i] = s[i] /\ i \in DOMAIN s /\ j \in DOMAIN s
    BY <1>1, <1>2, <1>3
  <2>2. CASE j = 1
    BY <1>1, <1>3, <2>1, <2>2 DEF AllBelow
  <2>3. CASE j # 1
    BY <1>1, <1>3, <2>1, <2>3 DEF LevelsKnown
  <2> QED
    BY <2>2, <2>3
<1> QED
  BY <1>3 DEF LevelsKnown, r

LEMMA LevelsPush ==
    ASSUME NEW s \in Seq(Context), s # <<>>, LevelsKnown(s),
           NEW a \in Context, NEW b \in Context, b.contract = s[1].contract,
           \A k \in a.contract.waits :
               AllBelow(s, k) /\ \A l \in Held(b) : Level[l] < Level[k]
    PROVE  LevelsKnown(<<a, b>> \o Tail(s))
<1> DEFINE r == <<a, b>> \o Tail(s)
<1>1. /\ r \in Seq(Context) /\ Len(r) = Len(s) + 1
      /\ r[1] = a /\ r[2] = b
      /\ \A i \in DOMAIN r : i > 2 => i - 1 \in DOMAIN s /\ r[i] = s[i - 1]
  BY PushTop
<1> HIDE DEF r
<1>2. DOMAIN r = 1 .. Len(r) /\ Len(r) \in Nat /\ 1 \in DOMAIN s
  BY <1>1, EmptySeq
<1>3. ASSUME NEW i \in DOMAIN r, NEW j \in DOMAIN r, j < i, NEW l \in Held(r[i]),
             NEW k \in r[j].contract.waits
      PROVE  Level[l] < Level[k]
  <2>1. CASE i = 2
    BY <1>1, <1>2, <1>3, <2>1
  <2>2. CASE i > 2 /\ j = 1
    <3>1. i - 1 \in DOMAIN s /\ i - 1 # 1 /\ l \in Held(s[i - 1])
      BY <1>1, <1>2, <1>3, <2>2
    <3> QED
      BY <1>1, <1>3, <2>2, <3>1 DEF AllBelow
  <2>3. CASE i > 2 /\ j > 1
    <3>1. i - 1 \in DOMAIN s /\ l \in Held(s[i - 1])
      BY <1>1, <1>2, <1>3, <2>3
    <3>2. j - 1 \in DOMAIN s /\ k \in s[j - 1].contract.waits /\ j - 1 < i - 1
      <4>1. CASE j = 2
        BY <1>1, <1>2, <1>3, <4>1
      <4>2. CASE j > 2
        BY <1>1, <1>2, <1>3, <4>2
      <4> QED
        BY <1>2, <2>3, <4>1, <4>2
    <3> QED
      BY <3>1, <3>2 DEF LevelsKnown
  <2> QED
    BY <1>2, <1>3, <2>1, <2>2, <2>3
<1> QED
  BY <1>3 DEF LevelsKnown, r

LEMMA LevelsPop ==
    ASSUME NEW s \in Seq(Context), Len(s) > 1, LevelsKnown(s), NEW b \in Context,
           b.contract = s[2].contract
    PROVE  LevelsKnown(<<b>> \o Tail(Tail(s)))
<1> DEFINE r == <<b>> \o Tail(Tail(s))
<1>1. /\ r \in Seq(Context) /\ Len(r) = Len(s) - 1 /\ r[1] = b
      /\ \A i \in DOMAIN r : i # 1 => i + 1 \in DOMAIN s /\ r[i] = s[i + 1]
  BY PopTop, SMTT(30)
<1> HIDE DEF r
<1>2. DOMAIN r = 1 .. Len(r) /\ Len(r) \in Nat /\ DOMAIN s = 1 .. Len(s)
  BY <1>1
<1>3. ASSUME NEW i \in DOMAIN r, NEW j \in DOMAIN r, j < i, NEW l \in Held(r[i]),
             NEW k \in r[j].contract.waits
      PROVE  Level[l] < Level[k]
  <2>1. i + 1 \in DOMAIN s /\ l \in Held(s[i + 1])
    BY <1>1, <1>2, <1>3
  <2>2. j + 1 \in DOMAIN s /\ k \in s[j + 1].contract.waits /\ j + 1 < i + 1
    <3>1. CASE j = 1
      BY <1>1, <1>2, <1>3, <3>1
    <3>2. CASE j # 1
      BY <1>1, <1>2, <1>3, <3>2
    <3> QED
      BY <3>1, <3>2
  <2> QED
    BY <2>1, <2>2 DEF LevelsKnown
<1> QED
  BY <1>3 DEF LevelsKnown, r

LEMMA WaitsAreForLocks ==
    ASSUME ObligationsAssumption, NEW q \in Terms
    PROVE  q.waits \subseteq Locks
BY DEF ObligationsAssumption, Terms, MainContract

\* What a contract is checked to wait for is above all the thread has: the check
\* looks at the locks of the context, and at a lock known to be above the rest.
LEMMA ChecksReachBelow ==
    ASSUME ObligationsAssumption, NEW s \in Seq(Context), s # <<>>, LevelsKnown(s),
           HeldBy(s) \subseteq Locks,
           NEW c \in Context, c.contract = s[1].contract, NEW q, q.waits \subseteq Locks,
           WaitsBelow(c, q)
    PROVE  \A k \in q.waits : AllBelow(s, k) /\ \A l \in Held(c) : Level[l] < Level[k]
<1> SUFFICES ASSUME NEW k \in q.waits
             PROVE  AllBelow(s, k) /\ \A l \in Held(c) : Level[l] < Level[k]
  OBVIOUS
<1>1. LevelBelow(c, k)
  BY DEF WaitsBelow
<1>2. \A l \in Held(c) : Level[l] < Level[k]
  BY <1>1 DEF LevelBelow
<1>3. PICK m \in s[1].contract.waits : Level[m] =< Level[k]
  BY <1>1 DEF LevelBelow
<1>4. /\ DOMAIN s = 1 .. Len(s) /\ Len(s) \in Nat \ {0} /\ 1 \in DOMAIN s
      /\ s[1] \in Context
  BY EmptySeq
<1>5. m \in Locks
  BY <1>3, <1>4, WaitsAreForLocks DEF Context
<1>6. Level[m] \in Int /\ Level[k] \in Int /\ \A l \in Locks : Level[l] \in Int
  BY <1>5 DEF ObligationsAssumption
<1>7. ASSUME NEW i \in DOMAIN s, i # 1, NEW l \in Held(s[i]) PROVE Level[l] < Level[k]
  <2>1. Level[l] < Level[m]
    BY <1>3, <1>4, <1>7 DEF LevelsKnown
  <2>2. l \in Locks
    BY <1>7 DEF HeldBy
  <2> QED
    BY <1>3, <1>6, <2>1, <2>2
<1> QED
  BY <1>2, <1>7 DEF AllBelow

----------------------------------------------------------------------------
(* What each step does to the stack of its thread                          *)

\* The running context becomes c.
Becomes(t, c) == c \in Context /\ stack' = [stack EXCEPT ![t] = <<c>> \o Tail(@)]

\* The running context becomes b, and calls, or enters a loop, with contract q:
\* what q asks for moves to the new context a.
Enters(t, q, a, b) ==
    /\ stack' = [stack EXCEPT ![t] = <<a, b>> \o Tail(@)]
    /\ UNCHANGED <<waiting, owner, taken, started>>
    /\ a \in Context /\ b \in Context /\ SameFrame(b, Top(t)) /\ a.contract = q
    /\ Asked(q) \subseteq Held(Top(t))
    /\ Held(a) = Asked(q) /\ a.unbounded = {}
    /\ Held(b) = Held(Top(t)) \ Asked(q) /\ b.unbounded \subseteq Top(t).unbounded
    /\ WaitsBelow(b, q)
    /\ \/ a.loop /\ a.calls = Top(t).calls
       \/ /\ ~a.loop
          /\ \A l \in Asked(q) :
                \/ l \in Top(t).unbounded
                \/ l \in DOMAIN a.calls /\ Check(Top(t).calls, l, a.calls[l])

\* The running context ends, and the one below becomes b.
Ends(t, b) ==
    /\ Len(stack[t]) > 1
    /\ stack' = [stack EXCEPT ![t] = <<b>> \o Tail(Tail(@))]
    /\ Lower(t, Len(stack[t]) - 1)
    /\ UNCHANGED <<waiting, owner, started>>
    /\ b \in Context /\ SameFrame(b, stack[t][2])
    /\ Held(b) = Held(Top(t)) \cup Held(stack[t][2])
    /\ b.unbounded \subseteq Top(t).unbounded \cup stack[t][2].unbounded

\* What is paid without a bound is what the context has without a bound.
LEMMA PayTakesUnbounded ==
    ASSUME NEW c \in Context, NEW q, NEW map, Payable(c, q, map)
    PROVE  /\ Pay(c, q, map).unbounded \subseteq c.unbounded
           /\ q.fresh \subseteq c.unbounded
           /\ \A l \in Asked(q) : \/ l \in c.unbounded
                                  \/ l \in Measured(q) /\ Check(map, l, q.measures[l])
<1>1. PaidUnbounded(c, q, map) \subseteq c.unbounded
  BY DEF Payable
<1>2. Pay(c, q, map).unbounded = c.unbounded \ PaidUnbounded(c, q, map)
  BY DEF Pay, Context
<1> QED
  BY <1>1, <1>2 DEF PaidUnbounded, PaidBounded, Asked

LEMMA CallEnters ==
    ASSUME ObligationsAssumption, StacksHeld, NEW t \in Threads, NEW q \in Contracts,
           Call(t, q)
    PROVE  stack[t] # <<>> /\ q \in Terms /\ \E a, b : Enters(t, q, a, b)
<1> DEFINE rest == Pay(Top(t), q, Top(t).calls)
           b == [rest EXCEPT !.left = @ - 1]
           a == MethodBody(q)
<1>1. stack[t] # <<>> /\ q \in Terms
  BY DEF Call, Runs, Terms
<1>2. Top(t) \in Context
  BY <1>1, Running
<1>3. /\ stack' = [stack EXCEPT ![t] = <<a, b>> \o Tail(@)]
      /\ UNCHANGED <<waiting, owner, taken, started>>
      /\ Payable(Top(t), q, Top(t).calls) /\ WaitsBelow(rest, q)
  BY DEF Call, Admits
<1>4. a \in Context /\ Held(a) = Asked(q) /\ ~a.loop /\ a.calls = q.measures
      /\ a.contract = q /\ a.unbounded = {}
  BY <1>1, BodyStarts DEF MethodBody
<1>5. rest \in Context /\ SameFrame(rest, Top(t)) /\ Asked(q) \subseteq Held(Top(t))
      /\ Held(rest) = Held(Top(t)) \ Asked(q)
  BY <1>1, <1>2, <1>3, TermsAreContracts, PayTakes
<1>6. /\ rest.unbounded \subseteq Top(t).unbounded
      /\ \A l \in Asked(q) : \/ l \in Top(t).unbounded
                             \/ l \in Measured(q) /\ Check(Top(t).calls, l, q.measures[l])
  BY <1>2, <1>3, PayTakesUnbounded
<1> HIDE DEF rest
<1>7. b \in Context /\ SameFrame(b, Top(t)) /\ Held(b) = Held(rest)
      /\ b.unbounded = rest.unbounded /\ b.contract = rest.contract
  BY <1>5, StatementDone DEF SameFrame, Context
<1>8. WaitsBelow(b, q)
  BY <1>3, <1>7 DEF WaitsBelow, LevelBelow
<1>9. \A l \in Asked(q) : \/ l \in Top(t).unbounded
                          \/ l \in DOMAIN a.calls /\ Check(Top(t).calls, l, a.calls[l])
  BY <1>4, <1>6 DEF Measured
<1> HIDE DEF a, b
<1>10. Enters(t, q, a, b)
  BY <1>3, <1>4, <1>5, <1>6, <1>7, <1>8, <1>9 DEF Enters
<1> QED
  BY <1>1, <1>10

LEMMA LoopEnters ==
    ASSUME ObligationsAssumption, StacksHeld, NEW t \in Threads, NEW q \in Invariants,
           EnterLoop(t, q)
    PROVE  stack[t] # <<>> /\ q \in Terms /\ \E a, b : Enters(t, q, a, b)
<1> DEFINE rest == Pay(Top(t), q, None)
           a == Iteration(rest, q, Promises(q))
           b == [rest EXCEPT !.left = @ - 1]
<1>1. stack[t] # <<>> /\ q \in Terms
  BY DEF EnterLoop, Runs, Terms
<1>2. Top(t) \in Context
  BY <1>1, Running
<1>3. /\ stack' = [stack EXCEPT ![t] = <<a, b>> \o Tail(@)]
      /\ UNCHANGED <<waiting, owner, taken, started>>
      /\ Payable(Top(t), q, None) /\ WaitsBelow(rest, q)
  BY DEF EnterLoop
<1>4. rest \in Context /\ SameFrame(rest, Top(t)) /\ Asked(q) \subseteq Held(Top(t))
      /\ Held(rest) = Held(Top(t)) \ Asked(q)
  BY <1>1, <1>2, <1>3, TermsAreContracts, PayTakes
<1>5. rest.unbounded \subseteq Top(t).unbounded
  BY <1>2, <1>3, PayTakesUnbounded
<1> HIDE DEF rest
<1>6. a \in Context /\ Held(a) = Asked(q) /\ a.loop /\ a.calls = rest.calls
      /\ a.contract = q /\ a.unbounded = {}
  <2>1. Promises(q) \in BOOLEAN
    BY DEF Promises
  <2>2. a.contract = q /\ a.unbounded = {}
    BY DEF Iteration
  <2> QED
    BY <1>1, <1>4, <2>1, <2>2, IterationStarts
<1>7. b \in Context /\ SameFrame(b, Top(t)) /\ Held(b) = Held(rest)
      /\ b.unbounded = rest.unbounded /\ b.contract = rest.contract
  BY <1>4, StatementDone DEF SameFrame, Context
<1>8. WaitsBelow(b, q)
  BY <1>3, <1>7 DEF WaitsBelow, LevelBelow
<1> HIDE DEF a, b
<1>9. a.calls = Top(t).calls
  BY <1>4, <1>6 DEF SameFrame
<1>10. Enters(t, q, a, b)
  BY <1>3, <1>4, <1>5, <1>6, <1>7, <1>8, <1>9 DEF Enters
<1> QED
  BY <1>1, <1>10

\* The next iteration of a loop has what the last one has left.
LEMMA IterationFollows ==
    ASSUME ObligationsAssumption, StacksHeld, NEW t \in Threads, NEW q \in Invariants,
           Iterate(t, q)
    PROVE  /\ stack[t] # <<>> /\ UNCHANGED <<waiting, owner, taken, started>>
           /\ Top(t).loop /\ q \in Terms /\ Held(Top(t)) = Asked(q)
           /\ \E a : /\ Becomes(t, a) /\ a.contract = q /\ a.loop /\ a.calls = Top(t).calls
                     /\ Held(a) = Asked(q) /\ a.unbounded = {}
           /\ \E c \in Context : c.contract = Top(t).contract /\ WaitsBelow(c, q)
<1> DEFINE rest == Pay(Top(t), q, Top(t).contract.measures)
           a == Iteration(Top(t), q, Top(t).promised)
<1>1. stack[t] # <<>> /\ q \in Terms /\ Top(t).loop /\ Held(Top(t)) = Asked(q)
  BY IterationEnds DEF Iterate, Terms
<1>2. Top(t) \in Context /\ Top(t).promised \in BOOLEAN
  BY <1>1, Running DEF Context
<1>3. /\ stack' = [stack EXCEPT ![t] = <<a>> \o Tail(@)]
      /\ UNCHANGED <<waiting, owner, taken, started>>
      /\ Top(t).promised => Promises(q)
      /\ Payable(Top(t), q, Top(t).contract.measures) /\ WaitsBelow(rest, q)
  BY DEF Iterate, ContinuesToTerminate, BodyEnd
<1>4. rest \in Context /\ rest.contract = Top(t).contract
  BY <1>1, <1>2, <1>3, TermsAreContracts, PayTakes DEF SameFrame
<1>5. a \in Context /\ Held(a) = Asked(q) /\ a.loop /\ a.calls = Top(t).calls
  BY <1>1, <1>2, <1>3, IterationStarts
<1>6. a.contract = q /\ a.unbounded = {}
  BY DEF Iteration
<1> HIDE DEF a, rest
<1>7. Becomes(t, a)
  BY <1>3, <1>5 DEF Becomes
<1> QED
  BY <1>1, <1>3, <1>4, <1>5, <1>6, <1>7

LEMMA ContextEnds ==
    ASSUME ObligationsAssumption, StacksHeld, NEW t \in Threads, stack[t] # <<>>,
           Tail(stack[t]) # <<>>, Lower(t, Len(stack[t]) - 1),
           UNCHANGED <<waiting, owner, started>>,
           NEW bounded \in SUBSET Locks, NEW unbounded \in SUBSET Locks,
           bounded \cap unbounded = {}, Held(Top(t)) = bounded \cup unbounded,
           unbounded \subseteq Top(t).unbounded,
           stack' = [stack EXCEPT ![t] =
               <<Gain(Head(Tail(@)), bounded, unbounded)>> \o Tail(Tail(@))]
    PROVE  \E b : Ends(t, b)
<1> DEFINE s == stack[t]
           b == Gain(s[2], bounded, unbounded)
<1>1. /\ s \in Seq(Context) /\ s # <<>> /\ Top(t) = s[1]
      /\ DOMAIN s = 1 .. Len(s) /\ Len(s) \in Nat \ {0} /\ Distinct(s)
  BY Running DEF StacksHeld, SoundStack
<1>2. Len(s) > 1 /\ Head(Tail(s)) = s[2]
  <2> HIDE DEF s
  <2>1. Tail(s) # <<>>
    BY DEF s
  <2> QED
    BY <1>1, <2>1, SecondOf
<1>3. 1 \in DOMAIN s /\ 2 \in DOMAIN s /\ s[2] \in Context
  BY <1>1, <1>2
<1>4. stack' = [stack EXCEPT ![t] = <<b>> \o Tail(Tail(@))]
  BY <1>2
<1> HIDE DEF s
<1>5. Held(s[1]) \cap Held(s[2]) = {}
  <2>1. \A i, j \in DOMAIN s : i # j => Held(s[i]) \cap Held(s[j]) = {}
    BY <1>1 DEF Distinct
  <2>2. 1 # 2
    OBVIOUS
  <2> QED
    BY <1>3, <2>1, <2>2, Zenon
<1>6. (bounded \cup unbounded) \cap Held(s[2]) = {} /\ Held(Top(t)) = Held(s[1])
  BY <1>1, <1>5
<1>7. b \in Context /\ SameFrame(b, s[2]) /\ Held(b) = Held(s[2]) \cup bounded \cup unbounded
  BY <1>3, <1>6, GainAdds
<1>8. b.unbounded = s[2].unbounded \cup unbounded
  BY <1>3 DEF Gain, Context
<1> HIDE DEF b
<1>9. Held(b) = Held(Top(t)) \cup Held(s[2])
  BY <1>7
<1>10. Ends(t, b)
  BY <1>2, <1>4, <1>7, <1>8, <1>9 DEF Ends, s
<1> QED
  BY <1>10

LEMMA LoopEnds ==
    ASSUME ObligationsAssumption, StacksHeld, NEW t \in Threads, NEW q \in Invariants,
           LeaveLoop(t, q)
    PROVE  stack[t] # <<>> /\ \E b : Ends(t, b)
<1>1. stack[t] # <<>> /\ Top(t).loop /\ Held(Top(t)) = Measured(q) \cup q.fresh
  BY IterationEnds DEF LeaveLoop, Asked
<1>2. Tail(stack[t]) # <<>>
  <2>1. stack[t] \in Seq(Context) /\ Len(stack[t]) \in Nat \ {0} /\ stack[t][1].loop
        /\ ~stack[t][Len(stack[t])].loop
    BY <1>1, Running DEF StacksHeld, SoundStack, Grounded
  <2>2. Len(stack[t]) # 1
    BY <2>1
  <2> QED
    BY <1>1, <2>1, <2>2, SecondOf
<1>3. Measured(q) \in SUBSET Locks /\ q.fresh \in SUBSET Locks /\ Measured(q) \cap q.fresh = {}
  BY TermsAreContracts DEF Measured, Terms
<1>4. q.fresh \subseteq Top(t).unbounded
  <2>1. Payable(Top(t), q, Top(t).contract.measures) /\ Top(t) \in Context
    BY <1>1, Running DEF LeaveLoop, BodyEnd
  <2> QED
    BY <2>1, PayTakesUnbounded
<1>5. /\ stack' = [stack EXCEPT ![t] =
            <<Gain(Head(Tail(@)), Measured(q), q.fresh)>> \o Tail(Tail(@))]
      /\ Lower(t, Len(stack[t]) - 1)
      /\ UNCHANGED <<waiting, owner, started>>
  BY DEF LeaveLoop
<1> QED
  BY <1>1, <1>2, <1>3, <1>4, <1>5, ContextEnds

\* A method returns to its caller, or its thread ends with it.
LEMMA MethodEnds ==
    ASSUME ObligationsAssumption, StacksHeld, NEW t \in Threads, Return(t)
    PROVE  /\ stack[t] # <<>>
           /\ \/ \E b : Ends(t, b)
              \/ /\ stack' = [stack EXCEPT ![t] = <<>>]
                 /\ Lower(t, Len(stack[t]) - 1) /\ UNCHANGED <<waiting, owner, started>>
<1> DEFINE q == Top(t).contract
           post == Postcondition(q)
<1>1. stack[t] # <<>>
  BY DEF Return, Runs
<1>2. Top(t) \in Context /\ q \in Terms
  BY <1>1, Running DEF Context
<1>3. /\ DOMAIN q = {"measures", "fresh", "waits", "gives", "returns"}
      /\ q.gives \subseteq Locks /\ q.returns \subseteq Locks \ q.gives
  BY <1>2, TermsAreContracts
<1>4. Measured(post) = q.returns /\ post.fresh = q.gives /\ DOMAIN post.measures = q.returns
  BY <1>3 DEF Postcondition, Measured
<1>5. Payable(Top(t), post, None) /\ NoLeak(Pay(Top(t), post, None))
  BY DEF Return
<1>6. Held(Top(t)) = q.returns \cup q.gives
  <2>1. post.fresh \subseteq Locks \ DOMAIN post.measures
    BY <1>3, <1>4
  <2>2. Asked(post) \subseteq Held(Top(t))
        /\ Held(Pay(Top(t), post, None)) = Held(Top(t)) \ Asked(post)
    BY <1>2, <1>5, <2>1, PayTakes
  <2> QED
    BY <1>4, <1>5, <2>2 DEF NoLeak, Asked
<1>7. q.gives \subseteq Top(t).unbounded
  BY <1>2, <1>4, <1>5, PayTakesUnbounded
<1>8. UNCHANGED <<waiting, owner, started>> /\ Lower(t, Len(stack[t]) - 1)
  BY DEF Return
<1>9. CASE Tail(stack[t]) # <<>>
  <2>1. stack' = [stack EXCEPT ![t] =
            <<Gain(Head(Tail(@)), q.returns, q.gives)>> \o Tail(Tail(@))]
    BY <1>9 DEF Return
  <2>2. q.returns \cap q.gives = {} /\ q.returns \in SUBSET Locks /\ q.gives \in SUBSET Locks
    BY <1>3
  <2> HIDE DEF q
  <2> QED
    BY <1>1, <1>6, <1>7, <1>8, <1>9, <2>1, <2>2, ContextEnds
<1>10. CASE Tail(stack[t]) = <<>>
  BY <1>1, <1>8, <1>10 DEF Return
<1> QED
  BY <1>1, <1>9, <1>10

\* A loop that is not entered gives back what its invariant asks for.
LEMMA LoopIsSkipped ==
    ASSUME ObligationsAssumption, StacksHeld, NEW t \in Threads, NEW q \in Invariants,
           SkipLoop(t, q)
    PROVE  /\ stack[t] # <<>> /\ UNCHANGED <<waiting, owner, taken, started>>
           /\ \E c : /\ Becomes(t, c) /\ SameFrame(c, Top(t)) /\ Held(c) = Held(Top(t))
                     /\ c.unbounded \subseteq Top(t).unbounded
<1> DEFINE rest == Pay(Top(t), q, None)
           c == Gain(rest, Measured(q), q.fresh)
           d == [c EXCEPT !.left = @ - 1]
<1>1. stack[t] # <<>> /\ q \in Terms
  BY DEF SkipLoop, Runs, Terms
<1>2. Top(t) \in Context
  BY <1>1, Running
<1>3. /\ stack' = [stack EXCEPT ![t] = <<d>> \o Tail(@)]
      /\ UNCHANGED <<waiting, owner, taken, started>> /\ Payable(Top(t), q, None)
  BY DEF SkipLoop, Performs
<1>4. rest \in Context /\ SameFrame(rest, Top(t)) /\ Asked(q) \subseteq Held(Top(t))
      /\ Held(rest) = Held(Top(t)) \ Asked(q)
  BY <1>1, <1>2, <1>3, TermsAreContracts, PayTakes
<1>5. rest.unbounded \subseteq Top(t).unbounded /\ q.fresh \subseteq Top(t).unbounded
  BY <1>2, <1>3, PayTakesUnbounded
<1> HIDE DEF rest
<1>6. Measured(q) \in SUBSET Locks /\ q.fresh \in SUBSET Locks /\ Measured(q) \cap q.fresh = {}
  BY <1>1, TermsAreContracts DEF Measured
<1>7. c \in Context /\ SameFrame(c, rest) /\ Held(c) = Held(rest) \cup Asked(q)
      /\ c.unbounded = rest.unbounded \cup q.fresh
  <2>1. (Measured(q) \cup q.fresh) \cap Held(rest) = {}
    BY <1>4 DEF Asked
  <2>2. c.unbounded = rest.unbounded \cup q.fresh
    BY <1>4 DEF Gain, Context
  <2> QED
    BY <1>4, <1>6, <2>1, <2>2, GainAdds DEF Asked
<1> HIDE DEF c
<1>8. d \in Context /\ SameFrame(d, Top(t)) /\ Held(d) = Held(Top(t))
      /\ d.unbounded = c.unbounded
  <2>1. d \in Context /\ SameFrame(d, c) /\ Held(d) = Held(c)
    BY <1>7, StatementDone
  <2>2. d.unbounded = c.unbounded
    BY <1>7 DEF Context
  <2>3. SameFrame(d, Top(t))
    BY <1>4, <1>7, <2>1 DEF SameFrame
  <2>4. Held(c) = Held(Top(t))
    BY <1>4, <1>7
  <2> QED
    BY <2>1, <2>2, <2>3, <2>4
<1> HIDE DEF d
<1>9. Becomes(t, d)
  BY <1>3, <1>8 DEF Becomes
<1> QED
  BY <1>1, <1>3, <1>5, <1>7, <1>8, <1>9

LEMMA LockIsObtained ==
    ASSUME ObligationsAssumption, StacksHeld, NEW t \in Threads, NEW l \in Locks,
           ObtainLock(t, l)
    PROVE  /\ stack[t] # <<>> /\ owner[l] = Nobody
           /\ waiting' = [waiting EXCEPT ![t] = Nobody]
           /\ owner' = [owner EXCEPT ![l] = t]
           /\ taken' = [taken EXCEPT ![l] = Len(stack[t])]
           /\ \E c : /\ Becomes(t, c) /\ SameFrame(c, Top(t)) /\ Held(c) = Held(Top(t)) \cup {l}
                     /\ c.unbounded = Top(t).unbounded \cup {l}
<1> DEFINE c == Gain(Top(t), {}, {l})
           d == [c EXCEPT !.left = @ - 1]
<1>1. stack[t] # <<>> /\ owner[l] = Nobody
  BY DEF StacksHeld, ObtainLock, ObligationsAssumption
<1>2. Top(t) \in Context /\ l \notin Held(Top(t))
  <2>1. l \notin HeldBy(stack[t])
    BY <1>1 DEF StacksHeld, ObligationsAssumption
  <2> QED
    BY <1>1, <2>1, Running
<1>3. c \in Context /\ SameFrame(c, Top(t)) /\ Held(c) = Held(Top(t)) \cup {l}
  <2>1. {} \in SUBSET Locks /\ {l} \in SUBSET Locks /\ {} \cap {l} = {}
        /\ ({} \cup {l}) \cap Held(Top(t)) = {}
    BY <1>2
  <2>2. Held(c) = Held(Top(t)) \cup {} \cup {l}
    BY <1>2, <2>1, GainAdds
  <2>3. c \in Context /\ SameFrame(c, Top(t))
    BY <1>2, <2>1, GainAdds
  <2> QED
    BY <2>2, <2>3
<1>4. c.unbounded = Top(t).unbounded \cup {l}
  BY <1>2 DEF Gain, Context
<1>5. /\ stack' = [stack EXCEPT ![t] = <<d>> \o Tail(@)]
      /\ waiting' = [waiting EXCEPT ![t] = Nobody]
      /\ owner' = [owner EXCEPT ![l] = t]
      /\ taken' = [taken EXCEPT ![l] = Len(stack[t])]
  BY DEF ObtainLock, Performs
<1> HIDE DEF c
<1>6. d \in Context /\ SameFrame(d, Top(t)) /\ Held(d) = Held(c) /\ d.unbounded = c.unbounded
  BY <1>3, StatementDone DEF SameFrame, Context
<1> HIDE DEF d
<1>7. Becomes(t, d)
  BY <1>5, <1>6 DEF Becomes
<1> QED
  BY <1>1, <1>3, <1>4, <1>5, <1>6, <1>7

LEMMA LockIsReleased ==
    ASSUME ObligationsAssumption, StacksHeld, NEW t \in Threads, NEW l \in Locks,
           ReleaseLock(t, l)
    PROVE  /\ stack[t] # <<>> /\ UNCHANGED waiting
           /\ owner' = [owner EXCEPT ![l] = Nobody]
           /\ taken' = [taken EXCEPT ![l] = 0]
           /\ \E c : /\ Becomes(t, c) /\ SameFrame(c, Top(t)) /\ Held(c) \subseteq Held(Top(t))
                     /\ c.unbounded \subseteq Top(t).unbounded
<1> DEFINE q == ReleaseContract(l)
           c == Pay(Top(t), q, Top(t).calls)
           d == [c EXCEPT !.left = @ - 1]
<1>1. stack[t] # <<>>
  BY DEF ReleaseLock, Runs
<1>2. Top(t) \in Context
  BY <1>1, Running
<1>3. q.fresh = {} /\ Payable(Top(t), q, Top(t).calls)
  BY DEF ReleaseContract, ReleaseLock, Admits
<1>4. /\ stack' = [stack EXCEPT ![t] = <<d>> \o Tail(@)] /\ UNCHANGED waiting
      /\ owner' = [owner EXCEPT ![l] = Nobody] /\ taken' = [taken EXCEPT ![l] = 0]
  BY DEF ReleaseLock, Performs
<1> HIDE DEF q
<1>5. c \in Context /\ SameFrame(c, Top(t)) /\ Held(c) \subseteq Held(Top(t))
  BY <1>2, <1>3, PayTakes
<1>6. c.unbounded \subseteq Top(t).unbounded
  BY <1>2, <1>3, PayTakesUnbounded
<1> HIDE DEF c
<1>7. d \in Context /\ SameFrame(d, Top(t)) /\ Held(d) = Held(c) /\ d.unbounded = c.unbounded
  BY <1>5, StatementDone DEF SameFrame, Context
<1> HIDE DEF d
<1>8. Becomes(t, d)
  BY <1>4, <1>7 DEF Becomes
<1> QED
  BY <1>1, <1>4, <1>5, <1>6, <1>7, <1>8

LEMMA ThreadIsJoined ==
    ASSUME ObligationsAssumption, StacksHeld, NEW t \in Threads, NEW u \in Threads,
           CompleteJoin(t, u)
    PROVE  /\ stack[t] # <<>> /\ UNCHANGED <<owner, taken>>
           /\ waiting' = [waiting EXCEPT ![t] = Nobody]
           /\ \E c : /\ Becomes(t, c) /\ SameFrame(c, Top(t)) /\ Held(c) = Held(Top(t))
                     /\ c.unbounded = Top(t).unbounded
<1> DEFINE d == [Top(t) EXCEPT !.left = @ - 1]
<1>1. stack[t] # <<>>
  BY DEF CompleteJoin, StacksHeld, ObligationsAssumption
<1>2. Top(t) \in Context
  BY <1>1, Running
<1>3. d \in Context /\ SameFrame(d, Top(t)) /\ Held(d) = Held(Top(t))
  BY <1>2, StatementDone
<1>4. d.unbounded = Top(t).unbounded
  BY <1>2 DEF Context
<1>5. /\ stack' = [stack EXCEPT ![t] = <<d>> \o Tail(@)] /\ UNCHANGED <<owner, taken>>
      /\ waiting' = [waiting EXCEPT ![t] = Nobody]
  BY DEF CompleteJoin, Performs
<1> HIDE DEF d
<1>6. Becomes(t, d)
  BY <1>3, <1>5 DEF Becomes
<1> QED
  BY <1>1, <1>3, <1>4, <1>5, <1>6

\* A new thread, and the one that forks it and hands it the locks it asks for.
LEMMA ThreadIsForked ==
    ASSUME ObligationsAssumption, StacksHeld, NEW t \in Threads, NEW u \in Threads,
           NEW q \in Contracts, Fork(t, u, q)
    PROVE  /\ stack[t] # <<>> /\ stack[u] = <<>> /\ u # t /\ q \in Terms
           /\ UNCHANGED waiting
           /\ owner' = [l \in Locks |-> IF l \in Asked(q) THEN u ELSE owner[l]]
           /\ taken' = [l \in Locks |-> IF l \in Asked(q) THEN 0 ELSE taken[l]]
           /\ \E c \in Context :
                /\ stack' = [stack EXCEPT ![t] = <<c>> \o Tail(@), ![u] = <<MethodBody(q)>>]
                /\ SameFrame(c, Top(t)) /\ Held(c) \subseteq Held(Top(t))
                /\ c.unbounded \subseteq Top(t).unbounded
<1> DEFINE rest == [Top(t) EXCEPT !.unbounded = @ \ Asked(q), !.left = @ - 1]
           forker == [rest EXCEPT !.children = WithChild(@, u, Held(rest))]
<1>1. stack[t] # <<>> /\ stack[u] = <<>> /\ u # t /\ q \in Terms
  BY DEF Fork, Runs, StacksHeld, Terms
<1>2. Top(t) \in Context
  BY <1>1, Running
<1>3. /\ stack' = [stack EXCEPT ![t] = <<forker>> \o Tail(@), ![u] = <<MethodBody(q)>>]
      /\ owner' = [l \in Locks |-> IF l \in Asked(q) THEN u ELSE owner[l]]
      /\ taken' = [l \in Locks |-> IF l \in Asked(q) THEN 0 ELSE taken[l]]
      /\ UNCHANGED waiting /\ MayHandOver(Top(t), q)
  BY DEF Fork, Asked
<1>4. /\ forker \in Context /\ SameFrame(forker, Top(t))
      /\ Held(forker) = Held(Top(t)) \ Asked(q)
  BY <1>2, <1>3, HandsOver
<1>5. forker.unbounded = Top(t).unbounded \ Asked(q)
  BY <1>2 DEF Context
<1> HIDE DEF forker
<1> QED
  BY <1>1, <1>3, <1>4, <1>5

----------------------------------------------------------------------------
(* The levels are known in every state                                     *)

LEMMA StackLeveled ==
    ASSUME StacksHeld, StacksLeveled, NEW t \in Threads, stack[t] # <<>>
    PROVE  /\ stack[t] \in Seq(Context) /\ LevelsKnown(stack[t])
           /\ HeldBy(stack[t]) \subseteq Locks
           /\ Top(t) = stack[t][1] /\ Top(t) \in Context
           /\ \A k \in Top(t).contract.waits : AllBelow(stack[t], k)
<1>1. stack[t] \in Seq(Context) /\ LevelsKnown(stack[t]) /\ Top(t) = stack[t][1]
      /\ Top(t) \in Context /\ 1 \in DOMAIN stack[t] /\ DOMAIN stack[t] = 1 .. Len(stack[t])
  BY Running DEF StacksLeveled
<1>2. HeldBy(stack[t]) \subseteq Locks
  BY DEF StacksHeld
<1>3. ASSUME NEW k \in Top(t).contract.waits PROVE AllBelow(stack[t], k)
  BY <1>1 DEF AllBelow, LevelsKnown
<1> QED
  BY <1>1, <1>2, <1>3

\* A step of one thread, after which it does not wait for a lock.
LEMMA LeveledKeeps ==
    ASSUME StacksHeld, StacksLeveled, NEW t \in Threads, NEW r,
           stack' = [stack EXCEPT ![t] = r], LevelsKnown(r), waiting'[t] \notin Locks,
           \A u \in Threads : u # t => waiting'[u] = waiting[u]
    PROVE  StacksLeveled'
<1>1. stack'[t] = r /\ \A u \in Threads : u # t => stack'[u] = stack[u]
  BY DEF StacksHeld
<1> QED
  BY <1>1 DEF StacksLeveled

LEMMA LeveledBecomes ==
    ASSUME StacksHeld, StacksLeveled, NEW t \in Threads, stack[t] # <<>>, NEW c,
           Becomes(t, c), \A k \in c.contract.waits : AllBelow(stack[t], k),
           waiting'[t] \notin Locks, \A u \in Threads : u # t => waiting'[u] = waiting[u]
    PROVE  StacksLeveled'
<1>1. c \in Context /\ stack' = [stack EXCEPT ![t] = <<c>> \o Tail(@)]
  BY DEF Becomes
<1>2. LevelsKnown(<<c>> \o Tail(stack[t]))
  BY <1>1, StackLeveled, LevelsReplace
<1> QED
  BY <1>1, <1>2, LeveledKeeps

LEMMA LeveledEnters ==
    ASSUME ObligationsAssumption, StacksHeld, StacksLeveled,
           NEW t \in Threads, stack[t] # <<>>, waiting[t] = Nobody,
           NEW q \in Terms, NEW a, NEW b, Enters(t, q, a, b)
    PROVE  StacksLeveled'
<1>1. /\ stack' = [stack EXCEPT ![t] = <<a, b>> \o Tail(@)] /\ UNCHANGED waiting
      /\ a \in Context /\ b \in Context /\ b.contract = Top(t).contract /\ a.contract = q
      /\ WaitsBelow(b, q)
  BY DEF Enters, SameFrame
<1>2. \A k \in q.waits : AllBelow(stack[t], k) /\ \A l \in Held(b) : Level[l] < Level[k]
  BY <1>1, StackLeveled, WaitsAreForLocks, ChecksReachBelow
<1>3. LevelsKnown(<<a, b>> \o Tail(stack[t]))
  BY <1>1, <1>2, StackLeveled, LevelsPush
<1>4. waiting'[t] \notin Locks /\ \A u \in Threads : u # t => waiting'[u] = waiting[u]
  BY <1>1 DEF ObligationsAssumption
<1> QED
  BY <1>1, <1>3, <1>4, LeveledKeeps

LEMMA LeveledEnds ==
    ASSUME ObligationsAssumption, StacksHeld, StacksLeveled,
           NEW t \in Threads, stack[t] # <<>>, waiting[t] = Nobody,
           NEW b, Ends(t, b)
    PROVE  StacksLeveled'
<1>1. /\ Len(stack[t]) > 1 /\ b \in Context /\ b.contract = stack[t][2].contract
      /\ stack' = [stack EXCEPT ![t] = <<b>> \o Tail(Tail(@))] /\ UNCHANGED waiting
  BY DEF Ends, SameFrame
<1>2. LevelsKnown(<<b>> \o Tail(Tail(stack[t])))
  BY <1>1, StackLeveled, LevelsPop
<1>3. waiting'[t] \notin Locks /\ \A u \in Threads : u # t => waiting'[u] = waiting[u]
  BY <1>1 DEF ObligationsAssumption
<1> QED
  BY <1>1, <1>2, <1>3, LeveledKeeps

LEMMA LeveledRequest ==
    ASSUME ObligationsAssumption, StacksHeld, StacksLeveled,
           NEW t \in Threads, NEW l \in Locks, RequestLock(t, l)
    PROVE  StacksLeveled'
<1> DEFINE q == AcquireContract(l)
           rest == Pay(Top(t), q, Top(t).calls)
<1>1. stack[t] # <<>> /\ UNCHANGED stack /\ waiting' = [waiting EXCEPT ![t] = l]
      /\ Payable(Top(t), q, Top(t).calls) /\ WaitsBelow(rest, q)
  BY DEF RequestLock, Runs, Admits
<1>2. Asked(q) = {} /\ q.fresh = {} /\ q.waits = {l}
  BY DEF AcquireContract, Asked, Measured, ObligationsAssumption
<1> HIDE DEF q
<1>3. rest \in Context /\ rest.contract = Top(t).contract /\ Held(rest) = Held(Top(t))
  <2>1. rest \in Context /\ SameFrame(rest, Top(t))
    BY <1>1, <1>2, StackLeveled, PayTakes
  <2>2. Held(rest) = Held(Top(t)) \ Asked(q)
    BY <1>1, <1>2, StackLeveled, PayTakes
  <2>3. Held(rest) = Held(Top(t))
    BY <1>2, <2>2
  <2> QED
    BY <2>1, <2>3 DEF SameFrame
<1> HIDE DEF rest
<1>4. AllBelow(stack[t], l) /\ \A k \in Held(Top(t)) : Level[k] < Level[l]
  BY <1>1, <1>2, <1>3, StackLeveled, ChecksReachBelow
<1>5. \A k \in HeldBy(stack[t]) : Level[k] < Level[l]
  BY <1>1, <1>4, StackLeveled DEF HeldBy, AllBelow
<1>6. waiting'[t] = l /\ \A u \in Threads : u # t => waiting'[u] = waiting[u]
  BY <1>1 DEF StacksHeld
<1> QED
  BY <1>1, <1>5, <1>6 DEF StacksLeveled

LEMMA LeveledFork ==
    ASSUME ObligationsAssumption, StacksHeld, StacksLeveled,
           NEW t \in Threads, NEW u \in Threads, NEW q \in Contracts, Fork(t, u, q)
    PROVE  StacksLeveled'
<1>1. stack[t] # <<>> /\ stack[u] = <<>> /\ u # t /\ UNCHANGED waiting /\ waiting[t] = Nobody
  BY ThreadIsForked DEF Fork, Runs
<1>2. PICK c \in Context :
        /\ stack' = [stack EXCEPT ![t] = <<c>> \o Tail(@), ![u] = <<MethodBody(q)>>]
        /\ SameFrame(c, Top(t))
  BY ThreadIsForked
<1> c.contract = Top(t).contract
  BY <1>2 DEF SameFrame
<1>3. LevelsKnown(<<c>> \o Tail(stack[t]))
  BY <1>1, <1>2, StackLeveled, LevelsReplace
<1> DEFINE body == MethodBody(q)
<1>4. LevelsKnown(<<body>>)
  <2> HIDE DEF body
  <2> QED
    BY DEF LevelsKnown
<1>5. stack'[t] = <<c>> \o Tail(stack[t]) /\ stack'[u] = <<body>>
      /\ \A v \in Threads : v # t /\ v # u => stack'[v] = stack[v]
  BY <1>1, <1>2 DEF StacksHeld
<1>6. waiting[t] \notin Locks /\ waiting[u] \notin Locks
  BY <1>1 DEF StacksHeld, ObligationsAssumption
<1> HIDE DEF body
<1> QED
  BY <1>1, <1>3, <1>4, <1>5, <1>6 DEF StacksLeveled

LEMMA LeveledStep ==
    ASSUME ObligationsAssumption, StacksHeld, StacksLeveled, [Next]_vars
    PROVE  StacksLeveled'
<1>0. Nobody \notin Locks /\ Threads \cap Locks = {}
  BY DEF ObligationsAssumption
<1>1. ASSUME NEW t \in Threads, NEW l \in Locks, RequestLock(t, l) PROVE StacksLeveled'
  BY <1>1, LeveledRequest
<1>2. ASSUME NEW t \in Threads, NEW l \in Locks, ObtainLock(t, l) PROVE StacksLeveled'
  <2>1. PICK c : Becomes(t, c) /\ c.contract = Top(t).contract
    BY <1>2, LockIsObtained DEF SameFrame
  <2>2. stack[t] # <<>> /\ waiting' = [waiting EXCEPT ![t] = Nobody]
    BY <1>2, LockIsObtained
  <2> QED
    BY <1>0, <2>1, <2>2, StackLeveled, LeveledBecomes DEF StacksHeld
<1>3. ASSUME NEW t \in Threads, NEW l \in Locks, ReleaseLock(t, l) PROVE StacksLeveled'
  <2>1. PICK c : Becomes(t, c) /\ c.contract = Top(t).contract
    BY <1>3, LockIsReleased DEF SameFrame
  <2>2. stack[t] # <<>> /\ UNCHANGED waiting /\ waiting[t] = Nobody
    BY <1>3, LockIsReleased DEF ReleaseLock, Runs
  <2> QED
    BY <1>0, <2>1, <2>2, StackLeveled, LeveledBecomes
<1>4. ASSUME NEW t \in Threads, NEW q \in Contracts, Call(t, q) PROVE StacksLeveled'
  BY <1>4, CallEnters, LeveledEnters DEF Call, Runs
<1>5. ASSUME NEW t \in Threads, Return(t) PROVE StacksLeveled'
  <2>1. stack[t] # <<>> /\ UNCHANGED waiting /\ waiting[t] = Nobody
    BY <1>5 DEF Return, Runs
  <2>2. CASE \E b : Ends(t, b)
    BY <2>1, <2>2, LeveledEnds
  <2>3. CASE stack' = [stack EXCEPT ![t] = <<>>]
    <3>1. LevelsKnown(<<>>)
      BY DEF LevelsKnown
    <3> QED
      BY <1>0, <2>1, <2>3, <3>1, LeveledKeeps
  <2> QED
    BY <1>5, <2>2, <2>3, MethodEnds
<1>6. ASSUME NEW t \in Threads, NEW q \in Invariants, EnterLoop(t, q) PROVE StacksLeveled'
  BY <1>6, LoopEnters, LeveledEnters DEF EnterLoop, Runs
<1>7. ASSUME NEW t \in Threads, NEW q \in Invariants, SkipLoop(t, q) PROVE StacksLeveled'
  <2>1. PICK c : Becomes(t, c) /\ c.contract = Top(t).contract
    BY <1>7, LoopIsSkipped DEF SameFrame
  <2>2. stack[t] # <<>> /\ UNCHANGED waiting /\ waiting[t] = Nobody
    BY <1>7 DEF SkipLoop, Runs
  <2> QED
    BY <1>0, <2>1, <2>2, StackLeveled, LeveledBecomes
<1>8. ASSUME NEW t \in Threads, NEW q \in Invariants, Iterate(t, q) PROVE StacksLeveled'
  <2>1. PICK a : Becomes(t, a) /\ a.contract = q
    BY <1>8, IterationFollows
  <2>2. PICK c \in Context : c.contract = Top(t).contract /\ WaitsBelow(c, q)
    BY <1>8, IterationFollows
  <2>3. stack[t] # <<>> /\ UNCHANGED waiting /\ waiting[t] = Nobody /\ q \in Terms
    BY <1>8, IterationFollows DEF Iterate, BodyEnd, Runs
  <2>4. \A k \in q.waits : AllBelow(stack[t], k)
    BY <2>2, <2>3, StackLeveled, WaitsAreForLocks, ChecksReachBelow
  <2> QED
    BY <1>0, <2>1, <2>3, <2>4, LeveledBecomes
<1>9. ASSUME NEW t \in Threads, NEW q \in Invariants, LeaveLoop(t, q) PROVE StacksLeveled'
  BY <1>9, LoopEnds, LeveledEnds DEF LeaveLoop, BodyEnd, Runs
<1>10. ASSUME NEW t \in Threads, NEW u \in Threads, NEW q \in Contracts, Fork(t, u, q)
       PROVE  StacksLeveled'
  BY <1>10, LeveledFork
<1>11. ASSUME NEW t \in Threads, NEW u \in Threads, RequestJoin(t, u) PROVE StacksLeveled'
  <2>1. UNCHANGED stack /\ waiting' = [waiting EXCEPT ![t] = u]
    BY <1>11 DEF RequestJoin
  <2> QED
    BY <1>0, <2>1 DEF StacksLeveled, StacksHeld
<1>12. ASSUME NEW t \in Threads, NEW u \in Threads, CompleteJoin(t, u) PROVE StacksLeveled'
  <2>1. PICK c : Becomes(t, c) /\ c.contract = Top(t).contract
    BY <1>12, ThreadIsJoined DEF SameFrame
  <2>2. stack[t] # <<>> /\ waiting' = [waiting EXCEPT ![t] = Nobody]
    BY <1>12, ThreadIsJoined
  <2> QED
    BY <1>0, <2>1, <2>2, StackLeveled, LeveledBecomes DEF StacksHeld
<1>13. CASE UNCHANGED vars
  BY <1>13 DEF vars, StacksLeveled
<1> QED
  BY <1>1, <1>2, <1>3, <1>4, <1>5, <1>6, <1>7, <1>8, <1>9, <1>10, <1>11, <1>12, <1>13 DEF Next

LEMMA LevelsInvariant == Spec => [](StacksHeld /\ StacksLeveled)
<1>1. ObligationsAssumption
  BY ObligationsAssumption
<1>2. Init => StacksLeveled
  <2> SUFFICES ASSUME Init PROVE StacksLeveled
    OBVIOUS
  <2> DEFINE body == MethodBody(MainContract)
  <2>1. stack = [t \in Threads |-> IF t = Main THEN <<body>> ELSE <<>>]
    BY DEF Init
  <2> HIDE DEF body
  <2>2. LevelsKnown(<<body>>) /\ LevelsKnown(<<>>)
    BY DEF LevelsKnown
  <2>3. \A t \in Threads : waiting[t] \notin Locks
    BY <1>1 DEF Init, ObligationsAssumption
  <2> QED
    BY <2>1, <2>2, <2>3 DEF StacksLeveled
<1>3. StacksHeld /\ StacksLeveled /\ [Next]_vars => StacksLeveled'
  BY <1>1, LeveledStep
<1> QED
  BY <1>2, <1>3, StacksInvariant, PTL DEF Spec

----------------------------------------------------------------------------
(* No circle of waiting threads                                            *)

\* In a circle there is a thread whose lock has the highest level; and the
\* thread that has that lock waits for one of a still higher level.
LEMMA HighestWaiter ==
    ASSUME NEW circle, IsFiniteSet(circle), circle # {},
           NEW height, \A t \in circle : height[t] \in Int
    PROVE  \E t \in circle : \A u \in circle : ~ (height[t] < height[u])
<1> DEFINE Above(t) == {u \in circle : height[t] < height[u]}
           sets == {Above(t) : t \in circle}
<1>1. sets \subseteq FiniteSubsetsOf(circle) /\ sets # {}
  <2>1. sets \subseteq SUBSET circle /\ sets # {}
    OBVIOUS
  <2> HIDE DEF sets
  <2> QED
    BY <2>1, FS_FiniteSubsetsOfFinite
<1>2. IsWellFoundedOn(StrictSubsetOrdering(circle), FiniteSubsetsOf(circle))
  BY FS_StrictSubsetOrderingWellFounded
<1>3. PICK x \in sets : \A y \in sets : ~ (<<y, x>> \in StrictSubsetOrdering(circle))
  <2> HIDE DEF sets
  <2> QED
    BY <1>1, <1>2, WFMin
<1>4. PICK t \in circle : x = Above(t)
  OBVIOUS
<1>5. ASSUME NEW u \in circle, height[t] < height[u] PROVE FALSE
  <2>1. u \in Above(t) /\ u \notin Above(u) /\ Above(u) \subseteq Above(t)
    BY <1>5
  <2>2. <<Above(u), Above(t)>> \in StrictSubsetOrdering(circle)
    BY <2>1 DEF StrictSubsetOrdering
  <2> QED
    BY <1>3, <1>4, <2>2
<1> QED
  BY <1>5

LEMMA WaitersClimb ==
    ASSUME ObligationsAssumption, StacksHeld, StacksLeveled,
           NEW t \in Threads, waiting[t] \in Locks,
           NEW u \in Threads, waiting[u] \in Locks, WaitsFor(t) = u
    PROVE  Level[waiting[t]] < Level[waiting[u]]
<1>1. owner[waiting[t]] = u
  BY DEF WaitsFor
<1>2. waiting[t] \in HeldBy(stack[u])
  BY <1>1 DEF StacksHeld
<1> QED
  BY <1>2 DEF StacksLeveled

\* Threads that wait for locks never do so in a circle: whatever contexts the
\* locks they have are in, they are below the lock they wait for.
THEOREM LocksAreDeadlockFree == Spec => []LocksDoNotDeadlock
<1>1. ASSUME ObligationsAssumption, StacksHeld, StacksLeveled PROVE LocksDoNotDeadlock
  <2> DEFINE waiters == {t \in Threads : waiting[t] \in Locks}
  <2> SUFFICES ASSUME NEW circle \in (SUBSET waiters) \ {{}},
                      \A t \in circle : WaitsFor(t) \in circle
               PROVE  FALSE
    BY DEF LocksDoNotDeadlock, NoCircleOf
  <2>1. IsFiniteSet(circle)
    BY <1>1, FS_Subset DEF ObligationsAssumption
  <2> DEFINE height == [t \in circle |-> Level[waiting[t]]]
  <2>2. \A t \in circle : height[t] = Level[waiting[t]] /\ height[t] \in Int
    BY <1>1 DEF ObligationsAssumption
  <2> HIDE DEF height
  <2>3. PICK t \in circle : \A u \in circle : ~ (height[t] < height[u])
    BY <2>1, <2>2, HighestWaiter
  <2>4. Level[waiting[t]] < Level[waiting[WaitsFor(t)]]
    BY <1>1, WaitersClimb
  <2> QED
    BY <2>2, <2>3, <2>4
<1>2. ObligationsAssumption
  BY ObligationsAssumption
<1> QED
  BY <1>1, <1>2, LevelsInvariant, PTL


----------------------------------------------------------------------------
(* Measures: where a lock has been handed on since it was taken            *)

Height(s, i) == Len(s) - i + 1

\* From the context that has the lock down to the one that has taken it, every
\* context has asked for it.
AskedOnTheWay(s, l, h) ==
    \A i, j \in DOMAIN s :
        j =< i /\ l \in Held(s[j]) /\ Height(s, i) > h => l \in Asked(s[i].contract)

\* Only the context that has taken it has it without a measure.
UnboundedWhereTaken(s, l, h) ==
    \A i \in DOMAIN s : l \in s[i].unbounded => Height(s, i) = h

\* Loops are in between, with the measures of the method they belong to.
MeasuresFall(s, l, h) ==
    \A i, j \in DOMAIN s :
        /\ j =< i /\ Height(s, i) > h /\ ~s[i].loop
        /\ l \in Asked(s[i].contract) /\ l \in Asked(s[j].contract)
        => /\ l \in DOMAIN s[i].calls =>
                l \in DOMAIN s[j].calls /\ s[j].calls[l] =< s[i].calls[l]
           /\ j < i /\ ~s[j].loop =>
                l \in DOMAIN s[j].calls /\ Check(s[i].calls, l, s[j].calls[l])

Handed(s, l, h) ==
    AskedOnTheWay(s, l, h) /\ UnboundedWhereTaken(s, l, h) /\ MeasuresFall(s, l, h)

LocksHanded ==
    /\ taken \in [Locks -> Int]
    /\ \A t \in Threads : \A l \in Locks :
          owner[l] = t => Handed(stack[t], l, taken[l])

\* A context after a statement, or the next iteration of its loop.
LEMMA HandedReplace ==
    ASSUME NEW s \in Seq(Context), s # <<>>, NEW l, NEW h \in Int, Handed(s, l, h),
           NEW c \in Context, c.loop = s[1].loop, c.calls = s[1].calls,
           l \in Held(c) => l \in Held(s[1]),
           l \in c.unbounded => l \in s[1].unbounded,
           \/ c.contract = s[1].contract
           \/ c.loop /\ Held(c) = Asked(c.contract)
    PROVE  Handed(<<c>> \o Tail(s), l, h)
<1> DEFINE r == <<c>> \o Tail(s)
<1>1. Len(r) = Len(s) /\ DOMAIN r = DOMAIN s /\ r[1] = c
      /\ \A i \in DOMAIN r : i # 1 => r[i] = s[i]
  BY ReplaceTop
<1>2. DOMAIN s = 1 .. Len(s) /\ Len(s) \in Nat \ {0} /\ 1 \in DOMAIN s
  BY EmptySeq
<1> HIDE DEF r
<1>3. \A i \in DOMAIN s : Height(r, i) = Height(s, i) /\ Height(s, i) \in Int
                          /\ Height(s, i) =< Height(s, 1)
  BY <1>1, <1>2 DEF Height
<1>4. \A j \in DOMAIN s : l \in Held(r[j]) => l \in Held(s[j])
  BY <1>1
<1>5. AskedOnTheWay(r, l, h)
  <2> SUFFICES ASSUME NEW i \in DOMAIN r, NEW j \in DOMAIN r, j =< i,
                      l \in Held(r[j]), Height(r, i) > h
               PROVE  l \in Asked(r[i].contract)
    BY DEF AskedOnTheWay
  <2>1. l \in Asked(s[i].contract)
    BY <1>1, <1>3, <1>4 DEF Handed, AskedOnTheWay
  <2>2. CASE i # 1
    BY <1>1, <2>1, <2>2
  <2>3. CASE i = 1
    <3>1. j = 1
      BY <1>1, <1>2, <2>3
    <3> QED
      BY <1>1, <2>1, <2>3, <3>1
  <2> QED
    BY <2>2, <2>3
<1>6. UnboundedWhereTaken(r, l, h)
  <2>1. \A i \in DOMAIN r : l \in r[i].unbounded => l \in s[i].unbounded
    BY <1>1
  <2> QED
    BY <1>1, <1>3, <2>1 DEF Handed, UnboundedWhereTaken
<1>7. MeasuresFall(r, l, h)
  <2> SUFFICES ASSUME NEW i \in DOMAIN r, NEW j \in DOMAIN r, j =< i, Height(r, i) > h,
                      ~r[i].loop, l \in Asked(r[i].contract), l \in Asked(r[j].contract)
               PROVE  /\ l \in DOMAIN r[i].calls =>
                           l \in DOMAIN r[j].calls /\ r[j].calls[l] =< r[i].calls[l]
                      /\ j < i /\ ~r[j].loop =>
                           l \in DOMAIN r[j].calls /\ Check(r[i].calls, l, r[j].calls[l])
    BY DEF MeasuresFall
  <2>1. r[i].calls = s[i].calls /\ r[j].calls = s[j].calls
        /\ r[i].loop = s[i].loop /\ r[j].loop = s[j].loop
    BY <1>1
  <2>2. l \in Asked(s[i].contract)
    BY <1>1
  <2>3. l \in Asked(s[j].contract)
    <3>1. CASE j # 1 \/ c.contract = s[1].contract
      BY <1>1, <3>1
    <3>2. CASE j = 1 /\ c.loop /\ Held(c) = Asked(c.contract)
      <4>1. l \in Held(s[1]) /\ Height(s, 1) > h
        BY <1>1, <1>2, <1>3, <3>2
      <4> QED
        BY <1>2, <3>2, <4>1 DEF Handed, AskedOnTheWay
    <3> QED
      BY <3>1, <3>2
  <2> QED
    BY <1>1, <1>3, <2>1, <2>2, <2>3 DEF Handed, MeasuresFall
<1> QED
  BY <1>5, <1>6, <1>7 DEF r, Handed

\* What the new context a and the one below it, b, have; the lock l is handed on
\* from s[1] to a with a smaller measure, if it is not in its place.
HandedOn(s, q, a, b, l) ==
    /\ b.contract = s[1].contract /\ b.loop = s[1].loop /\ b.calls = s[1].calls
    /\ a.contract = q /\ Asked(q) \subseteq Held(s[1])
    /\ Held(a) = Asked(q) /\ a.unbounded = {}
    /\ Held(b) = Held(s[1]) \ Asked(q) /\ b.unbounded \subseteq s[1].unbounded
    /\ \/ a.loop /\ a.calls = s[1].calls
       \/ /\ ~a.loop
          /\ l \in Asked(q) => \/ l \in s[1].unbounded
                               \/ l \in DOMAIN a.calls /\ Check(s[1].calls, l, a.calls[l])

LEMMA HandedPush ==
    ASSUME ObligationsAssumption,
           NEW s \in Seq(Context), s # <<>>, NEW l, NEW h \in Int, Handed(s, l, h),
           NEW q, NEW a \in Context, NEW b \in Context, HandedOn(s, q, a, b, l)
    PROVE  Handed(<<a, b>> \o Tail(s), l, h)
<1> DEFINE r == <<a, b>> \o Tail(s)
<1>1. Len(r) = Len(s) + 1 /\ r[1] = a /\ r[2] = b /\ r \in Seq(Context)
      /\ \A i \in DOMAIN r : i > 2 => i - 1 \in DOMAIN s /\ r[i] = s[i - 1]
  BY PushTop
<1>2. DOMAIN s = 1 .. Len(s) /\ Len(s) \in Nat \ {0} /\ 1 \in DOMAIN s /\ s[1] \in Context
  BY EmptySeq
<1> HIDE DEF r
<1>3. DOMAIN r = 1 .. Len(s) + 1 /\ \A i \in DOMAIN r : r[i] \in Context
  BY <1>1, <1>2
<1>4. \A i \in DOMAIN r : i # 1 =>
         /\ i - 1 \in DOMAIN s /\ Height(r, i) = Height(s, i - 1)
         /\ r[i].contract = s[i - 1].contract /\ r[i].loop = s[i - 1].loop
         /\ r[i].calls = s[i - 1].calls
         /\ l \in Held(r[i]) => l \in Held(s[i - 1])
         /\ l \in r[i].unbounded => l \in s[i - 1].unbounded
  <2> SUFFICES ASSUME NEW i \in DOMAIN r, i # 1
               PROVE  /\ i - 1 \in DOMAIN s /\ Height(r, i) = Height(s, i - 1)
                      /\ r[i].contract = s[i - 1].contract /\ r[i].loop = s[i - 1].loop
                      /\ r[i].calls = s[i - 1].calls
                      /\ l \in Held(r[i]) => l \in Held(s[i - 1])
                      /\ l \in r[i].unbounded => l \in s[i - 1].unbounded
    OBVIOUS
  <2>1. i - 1 \in DOMAIN s /\ Height(r, i) = Height(s, i - 1)
    <3>1. i \in Int /\ 2 =< i /\ i =< Len(s) + 1
      BY <1>2, <1>3
    <3>2. i - 1 \in DOMAIN s
      BY <1>2, <3>1
    <3>3. Len(r) - i + 1 = Len(s) - (i - 1) + 1
      <4>1. Len(r) = Len(s) + 1 /\ Len(s) \in Nat
        BY <1>1, <1>2
      <4> QED
        BY <3>1, <4>1
    <3> QED
      BY <3>2, <3>3 DEF Height
  <2>2. CASE i = 2
    BY <1>1, <2>1, <2>2 DEF HandedOn
  <2>3. CASE i > 2
    BY <1>1, <2>1, <2>3
  <2> QED
    BY <1>3, <2>1, <2>2, <2>3
<1>5. \A i \in DOMAIN s : Height(s, i) \in Int /\ Height(s, i) =< Len(s) /\ Height(s, 1) = Len(s)
  BY <1>2 DEF Height
<1>6. \A i \in DOMAIN s : Height(s, i) > h /\ l \in Asked(q) =>
         l \in Asked(s[i].contract) /\ l \in Asked(s[1].contract) /\ l \notin s[1].unbounded
  <2> SUFFICES ASSUME NEW i \in DOMAIN s, Height(s, i) > h, l \in Asked(q)
               PROVE  l \in Asked(s[i].contract) /\ l \in Asked(s[1].contract)
                      /\ l \notin s[1].unbounded
    OBVIOUS
  <2>1. l \in Held(s[1]) /\ Height(s, 1) > h
    BY <1>2, <1>5 DEF HandedOn
  <2>2. l \in Asked(s[i].contract) /\ l \in Asked(s[1].contract)
    BY <1>2, <2>1 DEF Handed, AskedOnTheWay
  <2>3. l \notin s[1].unbounded
    BY <1>2, <1>5, <2>1 DEF Handed, UnboundedWhereTaken
  <2> QED
    BY <2>2, <2>3
<1>7. AskedOnTheWay(r, l, h)
  <2> SUFFICES ASSUME NEW i \in DOMAIN r, NEW j \in DOMAIN r, j =< i,
                      l \in Held(r[j]), Height(r, i) > h
               PROVE  l \in Asked(r[i].contract)
    BY DEF AskedOnTheWay
  <2>1. CASE i = 1
    BY <1>1, <1>3, <2>1 DEF HandedOn
  <2>2. CASE i # 1 /\ j = 1
    BY <1>1, <1>4, <1>6, <2>2 DEF HandedOn
  <2>3. CASE i # 1 /\ j # 1
    <3>1. j - 1 =< i - 1 /\ l \in Held(s[j - 1]) /\ Height(s, i - 1) > h
          /\ i - 1 \in DOMAIN s /\ j - 1 \in DOMAIN s
      BY <1>3, <1>4, <2>3
    <3>2. l \in Asked(s[i - 1].contract)
      BY <3>1 DEF Handed, AskedOnTheWay
    <3> QED
      BY <1>4, <2>3, <3>2
  <2> QED
    BY <2>1, <2>2, <2>3
<1>8. UnboundedWhereTaken(r, l, h)
  <2> SUFFICES ASSUME NEW i \in DOMAIN r, l \in r[i].unbounded PROVE Height(r, i) = h
    BY DEF UnboundedWhereTaken
  <2>1. i # 1
    BY <1>1 DEF HandedOn
  <2> QED
    BY <1>4, <2>1 DEF Handed, UnboundedWhereTaken
<1>9. MeasuresFall(r, l, h)
  <2> SUFFICES ASSUME NEW i \in DOMAIN r, NEW j \in DOMAIN r, j =< i, Height(r, i) > h,
                      ~r[i].loop, l \in Asked(r[i].contract), l \in Asked(r[j].contract)
               PROVE  /\ l \in DOMAIN r[i].calls =>
                           l \in DOMAIN r[j].calls /\ r[j].calls[l] =< r[i].calls[l]
                      /\ j < i /\ ~r[j].loop =>
                           l \in DOMAIN r[j].calls /\ Check(r[i].calls, l, r[j].calls[l])
    BY DEF MeasuresFall
  <2>0. \A k \in DOMAIN r : \A x \in DOMAIN r[k].calls : r[k].calls[x] \in Int
    BY <1>3, MeasuresAreNumbers
  <2>1. CASE i = 1
    BY <1>3, <2>0, <2>1
  <2>2. CASE i # 1 /\ j # 1
    <3>1. j - 1 =< i - 1 /\ Height(s, i - 1) > h /\ i - 1 \in DOMAIN s /\ j - 1 \in DOMAIN s
          /\ (j < i => j - 1 < i - 1)
      BY <1>3, <1>4, <2>2
    <3>2. /\ r[i].calls = s[i - 1].calls /\ r[j].calls = s[j - 1].calls
          /\ r[i].loop = s[i - 1].loop /\ r[j].loop = s[j - 1].loop
          /\ r[i].contract = s[i - 1].contract /\ r[j].contract = s[j - 1].contract
      BY <1>4, <2>2
    <3> QED
      BY <3>1, <3>2 DEF Handed, MeasuresFall
  <2>3. CASE i # 1 /\ j = 1
    <3> DEFINE k == i - 1
    <3>1. /\ k \in DOMAIN s /\ 1 =< k /\ Height(s, k) > h
          /\ r[i].calls = s[k].calls /\ r[i].loop = s[k].loop
      BY <1>2, <1>4, <2>3
    <3> HIDE DEF k
    <3>2. l \in Asked(q) /\ r[1] = a
      BY <1>1, <2>3 DEF HandedOn
    <3>3. l \in Asked(s[k].contract) /\ l \in Asked(s[1].contract) /\ l \notin s[1].unbounded
      BY <1>6, <3>1, <3>2
    <3>4. l \in DOMAIN s[k].calls => l \in DOMAIN s[1].calls /\ s[1].calls[l] =< s[k].calls[l]
      BY <1>2, <3>1, <3>3 DEF Handed, MeasuresFall
    <3>5. CASE a.loop /\ a.calls = s[1].calls
      BY <2>3, <3>1, <3>2, <3>4, <3>5
    <3>6. CASE ~a.loop
      <4>1. l \in DOMAIN a.calls /\ Check(s[1].calls, l, a.calls[l])
        BY <3>2, <3>3, <3>6 DEF HandedOn
      <4>2. l \in DOMAIN s[k].calls => a.calls[l] < s[k].calls[l]
        <5>1. \A x \in DOMAIN s[1].calls : s[1].calls[x] \in Int
          BY <1>2, MeasuresAreNumbers
        <5>2. \A x \in DOMAIN s[k].calls : s[k].calls[x] \in Int
          BY <2>0, <3>1
        <5>3. a.calls[l] \in Int
          BY <4>1, MeasuresAreNumbers
        <5> QED
          BY <3>4, <4>1, <5>1, <5>2, <5>3 DEF Check
      <4>3. l \in DOMAIN s[k].calls => a.calls[l] =< s[k].calls[l] /\ s[k].calls[l] > a.calls[l]
        <5>1. \A x \in DOMAIN s[k].calls : s[k].calls[x] \in Int
          BY <2>0, <3>1
        <5>2. a.calls[l] \in Int
          BY <4>1, MeasuresAreNumbers
        <5> QED
          BY <4>2, <5>1, <5>2
      <4>4. Check(s[k].calls, l, a.calls[l])
        BY <4>3 DEF Check
      <4> QED
        BY <2>3, <3>1, <3>2, <4>1, <4>3, <4>4
    <3> QED
      BY <3>5, <3>6 DEF HandedOn
  <2> QED
    BY <2>1, <2>2, <2>3
<1> QED
  BY <1>7, <1>8, <1>9 DEF r, Handed

\* The height at which the lock was taken, when s[1] ends: it may have been taken there.
Lowered(s, h) == IF h > Len(s) - 1 THEN Len(s) - 1 ELSE h

LEMMA HandedPop ==
    ASSUME NEW s \in Seq(Context), Len(s) > 1, NEW l, NEW h \in Int, Handed(s, l, h),
           NEW b \in Context,
           b.contract = s[2].contract, b.loop = s[2].loop, b.calls = s[2].calls,
           Held(b) = Held(s[1]) \cup Held(s[2]),
           b.unbounded \subseteq s[1].unbounded \cup s[2].unbounded
    PROVE  Handed(<<b>> \o Tail(Tail(s)), l, Lowered(s, h))
<1> DEFINE r == <<b>> \o Tail(Tail(s))
<1>1. Len(r) = Len(s) - 1 /\ r \in Seq(Context) /\ r[1] = b
      /\ \A i \in DOMAIN r : i # 1 => i + 1 \in DOMAIN s /\ r[i] = s[i + 1]
  BY PopTop, SMTT(30)
<1>2. DOMAIN s = 1 .. Len(s) /\ Len(s) \in Nat \ {0} /\ 1 \in DOMAIN s /\ 2 \in DOMAIN s
  OBVIOUS
<1> HIDE DEF r
<1>3. DOMAIN r = 1 .. Len(s) - 1
  BY <1>1, <1>2
<1>4. \A i \in DOMAIN r :
         /\ i + 1 \in DOMAIN s /\ Height(r, i) = Height(s, i + 1)
         /\ r[i].contract = s[i + 1].contract /\ r[i].loop = s[i + 1].loop
         /\ r[i].calls = s[i + 1].calls
         /\ Height(r, i) \in Int /\ Height(r, i) =< Len(s) - 1
  <2> SUFFICES ASSUME NEW i \in DOMAIN r
               PROVE  /\ i + 1 \in DOMAIN s /\ Height(r, i) = Height(s, i + 1)
                      /\ r[i].contract = s[i + 1].contract /\ r[i].loop = s[i + 1].loop
                      /\ r[i].calls = s[i + 1].calls
                      /\ Height(r, i) \in Int /\ Height(r, i) =< Len(s) - 1
    OBVIOUS
  <2>1. i + 1 \in DOMAIN s /\ Height(r, i) = Height(s, i + 1)
        /\ Height(r, i) \in Int /\ Height(r, i) =< Len(s) - 1
    BY <1>1, <1>2, <1>3 DEF Height
  <2>2. CASE i = 1
    BY <1>1, <2>1, <2>2
  <2>3. CASE i # 1
    BY <1>1, <2>1, <2>3
  <2> QED
    BY <2>1, <2>2, <2>3
<1>5. \A i \in DOMAIN r : Height(r, i) > Lowered(s, h) => Height(s, i + 1) > h
  BY <1>2, <1>4 DEF Lowered
<1>6. \A j \in DOMAIN r : l \in Held(r[j]) =>
         l \in Held(s[j + 1]) \/ (j = 1 /\ l \in Held(s[1]))
  BY <1>1
<1>7. AskedOnTheWay(r, l, Lowered(s, h))
  <2> SUFFICES ASSUME NEW i \in DOMAIN r, NEW j \in DOMAIN r, j =< i,
                      l \in Held(r[j]), Height(r, i) > Lowered(s, h)
               PROVE  l \in Asked(r[i].contract)
    BY DEF AskedOnTheWay
  <2>1. i + 1 \in DOMAIN s /\ j + 1 \in DOMAIN s /\ j + 1 =< i + 1 /\ 1 =< i + 1
        /\ Height(s, i + 1) > h
    BY <1>2, <1>3, <1>4, <1>5
  <2>2. l \in Asked(s[i + 1].contract)
    BY <1>2, <1>6, <2>1 DEF Handed, AskedOnTheWay
  <2> QED
    BY <1>4, <2>2
<1>8. UnboundedWhereTaken(r, l, Lowered(s, h))
  <2> SUFFICES ASSUME NEW i \in DOMAIN r, l \in r[i].unbounded
               PROVE  Height(r, i) = Lowered(s, h)
    BY DEF UnboundedWhereTaken
  <2>1. CASE l \in s[i + 1].unbounded
    BY <1>2, <1>4, <2>1 DEF Handed, UnboundedWhereTaken, Lowered
  <2>2. CASE i = 1 /\ l \in s[1].unbounded
    <3>1. h = Len(s) /\ Height(r, 1) = Len(s) - 1
      BY <1>1, <1>2, <2>2 DEF Handed, UnboundedWhereTaken, Height
    <3> QED
      BY <1>2, <2>2, <3>1 DEF Lowered
  <2> QED
    BY <1>1, <2>1, <2>2
<1>9. MeasuresFall(r, l, Lowered(s, h))
  <2> SUFFICES ASSUME NEW i \in DOMAIN r, NEW j \in DOMAIN r, j =< i,
                      Height(r, i) > Lowered(s, h),
                      ~r[i].loop, l \in Asked(r[i].contract), l \in Asked(r[j].contract)
               PROVE  /\ l \in DOMAIN r[i].calls =>
                           l \in DOMAIN r[j].calls /\ r[j].calls[l] =< r[i].calls[l]
                      /\ j < i /\ ~r[j].loop =>
                           l \in DOMAIN r[j].calls /\ Check(r[i].calls, l, r[j].calls[l])
    BY DEF MeasuresFall
  <2>1. i + 1 \in DOMAIN s /\ j + 1 \in DOMAIN s /\ j + 1 =< i + 1 /\ Height(s, i + 1) > h
        /\ (j < i => j + 1 < i + 1)
    BY <1>2, <1>3, <1>4, <1>5
  <2>2. /\ r[i].calls = s[i + 1].calls /\ r[j].calls = s[j + 1].calls
        /\ r[i].loop = s[i + 1].loop /\ r[j].loop = s[j + 1].loop
        /\ r[i].contract = s[i + 1].contract /\ r[j].contract = s[j + 1].contract
    BY <1>4
  <2> QED
    BY <2>1, <2>2 DEF Handed, MeasuresFall
<1> QED
  BY <1>7, <1>8, <1>9 DEF r, Handed

\* A lock that has just been taken is where it was taken.
LEMMA HandedFresh ==
    ASSUME NEW s \in Seq(Context), s # <<>>, NEW l, l \notin HeldBy(s), NEW c \in Context
    PROVE  Handed(<<c>> \o Tail(s), l, Len(s))
<1> DEFINE r == <<c>> \o Tail(s)
<1>1. Len(r) = Len(s) /\ DOMAIN r = DOMAIN s /\ r[1] = c
      /\ \A i \in DOMAIN r : i # 1 => r[i] = s[i]
  BY ReplaceTop
<1>2. DOMAIN s = 1 .. Len(s) /\ Len(s) \in Nat \ {0} /\ 1 \in DOMAIN s
  BY EmptySeq
<1> HIDE DEF r
<1>3. \A i \in DOMAIN r : ~ (Height(r, i) > Len(s)) /\ Height(r, 1) = Len(s)
  BY <1>1, <1>2 DEF Height
<1>4. \A i \in DOMAIN r : l \in r[i].unbounded => i = 1
  BY <1>1 DEF HeldBy, Held
<1> QED
  BY <1>3, <1>4 DEF r, Handed, AskedOnTheWay, UnboundedWhereTaken, MeasuresFall

LEMMA HandedFirst ==
    ASSUME ObligationsAssumption, NEW c \in Context, NEW l,
           Held(c) = Asked(c.contract), c.unbounded = {}
    PROVE  Handed(<<c>>, l, 0)
<1> DEFINE s == <<c>>
<1>1. DOMAIN s = {1} /\ s[1] = c
  OBVIOUS
<1> HIDE DEF s
<1>2. \A x \in DOMAIN c.calls : c.calls[x] \in Int
  BY MeasuresAreNumbers
<1>3. MeasuresFall(s, l, 0)
  <2>1. \A i \in DOMAIN s : i = 1
    BY <1>1
  <2>2. l \in DOMAIN c.calls => c.calls[l] =< c.calls[l]
    BY <1>2
  <2> QED
    BY <1>1, <2>1, <2>2 DEF MeasuresFall
<1>4. AskedOnTheWay(s, l, 0) /\ UnboundedWhereTaken(s, l, 0)
  BY <1>1 DEF AskedOnTheWay, UnboundedWhereTaken
<1> QED
  BY <1>3, <1>4 DEF s, Handed

LEMMA HandedEmpty == \A l, h : Handed(<<>>, l, h)
BY DEF Handed, AskedOnTheWay, UnboundedWhereTaken, MeasuresFall

\* What remains of a lock's way when only the stack of its thread has changed, and
\* nothing has been taken or released.
LEMMA HandedKeeps ==
    ASSUME StacksHeld, LocksHanded, UNCHANGED <<owner, taken>>,
           NEW t \in Threads, NEW r, stack' = [stack EXCEPT ![t] = r],
           \A l \in Locks : owner[l] = t => Handed(r, l, taken[l])
    PROVE  LocksHanded'
<1>1. stack'[t] = r /\ \A u \in Threads : u # t => stack'[u] = stack[u]
  BY DEF StacksHeld
<1> QED
  BY <1>1 DEF LocksHanded

LEMMA HandedStack ==
    ASSUME StacksHeld, LocksHanded, NEW t \in Threads, stack[t] # <<>>
    PROVE  /\ stack[t] \in Seq(Context) /\ Len(stack[t]) \in Nat
           /\ Top(t) = stack[t][1]
           /\ \A l \in Locks : taken[l] \in Int
           /\ \A l \in Locks : owner[l] = t => Handed(stack[t], l, taken[l])
BY Running DEF LocksHanded

LEMMA HandedBecomes ==
    ASSUME StacksHeld, LocksHanded, UNCHANGED <<owner, taken>>,
           NEW t \in Threads, stack[t] # <<>>, NEW c, Becomes(t, c),
           c.loop = Top(t).loop, c.calls = Top(t).calls,
           Held(c) \subseteq Held(Top(t)), c.unbounded \subseteq Top(t).unbounded,
           \/ c.contract = Top(t).contract
           \/ c.loop /\ Held(c) = Asked(c.contract)
    PROVE  LocksHanded'
<1>1. c \in Context /\ stack' = [stack EXCEPT ![t] = <<c>> \o Tail(@)]
  BY DEF Becomes
<1>2. \A l \in Locks : owner[l] = t => Handed(<<c>> \o Tail(stack[t]), l, taken[l])
  BY <1>1, HandedStack, HandedReplace
<1> QED
  BY <1>1, <1>2, HandedKeeps

LEMMA HandedEnters ==
    ASSUME ObligationsAssumption, StacksHeld, LocksHanded,
           NEW t \in Threads, stack[t] # <<>>, NEW q, NEW a, NEW b, Enters(t, q, a, b)
    PROVE  LocksHanded'
<1>1. /\ stack' = [stack EXCEPT ![t] = <<a, b>> \o Tail(@)] /\ UNCHANGED <<owner, taken>>
      /\ a \in Context /\ b \in Context
  BY DEF Enters
<1>2. \A l : HandedOn(stack[t], q, a, b, l)
  BY HandedStack DEF Enters, HandedOn, SameFrame
<1>3. \A l \in Locks : owner[l] = t => Handed(<<a, b>> \o Tail(stack[t]), l, taken[l])
  BY <1>1, <1>2, HandedStack, HandedPush
<1> QED
  BY <1>1, <1>3, HandedKeeps

\* A context ends and its thread with it, or what it has is handed back.
LEMMA HandedLower ==
    ASSUME StacksHeld, LocksHanded, UNCHANGED owner,
           NEW t \in Threads, stack[t] # <<>>, Lower(t, Len(stack[t]) - 1),
           NEW r, stack' = [stack EXCEPT ![t] = r],
           \A l \in Locks : owner[l] = t => Handed(r, l, Lowered(stack[t], taken[l]))
    PROVE  LocksHanded'
<1>1. stack'[t] = r /\ \A u \in Threads : u # t => stack'[u] = stack[u]
  BY DEF StacksHeld
<1>2. \A l \in Locks : owner[l] = t => taken'[l] = Lowered(stack[t], taken[l])
  BY DEF Lower, Lowered
<1>3. \A l \in Locks : owner[l] # t => taken'[l] = taken[l]
  BY DEF Lower
<1>4. taken' \in [Locks -> Int]
  BY HandedStack DEF Lower
<1>5. ASSUME NEW u \in Threads, NEW l \in Locks, owner[l] = u
      PROVE  Handed(stack'[u], l, taken'[l])
  <2>1. CASE u = t
    BY <1>1, <1>2, <1>5, <2>1
  <2>2. CASE u # t
    BY <1>1, <1>3, <1>5, <2>2 DEF LocksHanded
  <2> QED
    BY <2>1, <2>2
<1> QED
  BY <1>4, <1>5 DEF LocksHanded

LEMMA HandedEnds ==
    ASSUME StacksHeld, LocksHanded, NEW t \in Threads, stack[t] # <<>>, NEW b, Ends(t, b)
    PROVE  LocksHanded'
<1>1. /\ Len(stack[t]) > 1 /\ stack' = [stack EXCEPT ![t] = <<b>> \o Tail(Tail(@))]
      /\ Lower(t, Len(stack[t]) - 1) /\ UNCHANGED owner
      /\ b \in Context /\ b.contract = stack[t][2].contract
      /\ b.loop = stack[t][2].loop /\ b.calls = stack[t][2].calls
      /\ Held(b) = Held(stack[t][1]) \cup Held(stack[t][2])
      /\ b.unbounded \subseteq stack[t][1].unbounded \cup stack[t][2].unbounded
  BY HandedStack DEF Ends, SameFrame
<1>2. \A l \in Locks : owner[l] = t =>
         Handed(<<b>> \o Tail(Tail(stack[t])), l, Lowered(stack[t], taken[l]))
  BY <1>1, HandedStack, HandedPop
<1> QED
  BY <1>1, <1>2, HandedLower

LEMMA HandedObtain ==
    ASSUME ObligationsAssumption, StacksHeld, LocksHanded,
           NEW t \in Threads, NEW l \in Locks, ObtainLock(t, l)
    PROVE  LocksHanded'
<1>1. /\ stack[t] # <<>> /\ owner[l] = Nobody
      /\ owner' = [owner EXCEPT ![l] = t]
      /\ taken' = [taken EXCEPT ![l] = Len(stack[t])]
  BY LockIsObtained
<1>2. PICK c : /\ Becomes(t, c) /\ SameFrame(c, Top(t)) /\ Held(c) = Held(Top(t)) \cup {l}
               /\ c.unbounded = Top(t).unbounded \cup {l}
  BY LockIsObtained
<1>3. c \in Context /\ stack' = [stack EXCEPT ![t] = <<c>> \o Tail(@)]
  BY <1>2 DEF Becomes
<1>4. stack'[t] = <<c>> \o Tail(stack[t]) /\ \A u \in Threads : u # t => stack'[u] = stack[u]
  BY <1>3 DEF StacksHeld
<1>5. taken' \in [Locks -> Int] /\ taken'[l] = Len(stack[t])
      /\ \A k \in Locks : k # l => taken'[k] = taken[k]
  BY <1>1, HandedStack DEF LocksHanded
<1>6. owner'[l] = t /\ \A k \in Locks : k # l => owner'[k] = owner[k]
  BY <1>1 DEF StacksHeld
<1>7. Handed(<<c>> \o Tail(stack[t]), l, Len(stack[t]))
  <2>1. l \notin HeldBy(stack[t])
    BY <1>1 DEF StacksHeld, ObligationsAssumption
  <2> QED
    BY <1>1, <1>3, <2>1, HandedStack, HandedFresh
<1>8. ASSUME NEW k \in Locks, k # l, owner[k] = t
      PROVE  Handed(<<c>> \o Tail(stack[t]), k, taken[k])
  <2>1. /\ c.loop = stack[t][1].loop /\ c.calls = stack[t][1].calls
        /\ c.contract = stack[t][1].contract
        /\ k \in Held(c) => k \in Held(stack[t][1])
        /\ k \in c.unbounded => k \in stack[t][1].unbounded
    BY <1>1, <1>2, <1>8, HandedStack DEF SameFrame
  <2> QED
    BY <1>1, <1>3, <1>8, <2>1, HandedStack, HandedReplace
<1>9. ASSUME NEW u \in Threads, NEW k \in Locks, owner'[k] = u
      PROVE  Handed(stack'[u], k, taken'[k])
  <2>1. CASE k = l
    BY <1>4, <1>5, <1>6, <1>7, <1>9, <2>1
  <2>2. CASE k # l /\ u = t
    BY <1>4, <1>5, <1>6, <1>8, <1>9, <2>2
  <2>3. CASE k # l /\ u # t
    BY <1>4, <1>5, <1>6, <1>9, <2>3 DEF LocksHanded
  <2> QED
    BY <2>1, <2>2, <2>3
<1> QED
  BY <1>5, <1>9 DEF LocksHanded

LEMMA HandedRelease ==
    ASSUME ObligationsAssumption, StacksHeld, LocksHanded,
           NEW t \in Threads, NEW l \in Locks, ReleaseLock(t, l)
    PROVE  LocksHanded'
<1>1. /\ stack[t] # <<>>
      /\ owner' = [owner EXCEPT ![l] = Nobody]
      /\ taken' = [taken EXCEPT ![l] = 0]
  BY LockIsReleased
<1>2. PICK c : /\ Becomes(t, c) /\ SameFrame(c, Top(t)) /\ Held(c) \subseteq Held(Top(t))
               /\ c.unbounded \subseteq Top(t).unbounded
  BY LockIsReleased
<1>3. c \in Context /\ stack' = [stack EXCEPT ![t] = <<c>> \o Tail(@)]
  BY <1>2 DEF Becomes
<1>4. stack'[t] = <<c>> \o Tail(stack[t]) /\ \A u \in Threads : u # t => stack'[u] = stack[u]
  BY <1>3 DEF StacksHeld
<1>5. taken' \in [Locks -> Int] /\ \A k \in Locks : k # l => taken'[k] = taken[k]
  BY <1>1 DEF LocksHanded
<1>6. owner'[l] = Nobody /\ \A k \in Locks : k # l => owner'[k] = owner[k]
  BY <1>1 DEF StacksHeld
<1>7. ASSUME NEW k \in Locks, owner[k] = t
      PROVE  Handed(<<c>> \o Tail(stack[t]), k, taken[k])
  <2>1. /\ c.loop = stack[t][1].loop /\ c.calls = stack[t][1].calls
        /\ c.contract = stack[t][1].contract
        /\ k \in Held(c) => k \in Held(stack[t][1])
        /\ k \in c.unbounded => k \in stack[t][1].unbounded
    BY <1>1, <1>2, HandedStack DEF SameFrame
  <2> QED
    BY <1>1, <1>3, <1>7, <2>1, HandedStack, HandedReplace
<1>8. ASSUME NEW u \in Threads, NEW k \in Locks, owner'[k] = u
      PROVE  Handed(stack'[u], k, taken'[k])
  <2>1. k # l
    BY <1>6, <1>8 DEF ObligationsAssumption
  <2>2. CASE u = t
    BY <1>4, <1>5, <1>6, <1>7, <1>8, <2>1, <2>2
  <2>3. CASE u # t
    BY <1>4, <1>5, <1>6, <1>8, <2>1, <2>3 DEF LocksHanded
  <2> QED
    BY <2>2, <2>3
<1> QED
  BY <1>5, <1>8 DEF LocksHanded

LEMMA HandedFork ==
    ASSUME ObligationsAssumption, StacksHeld, LocksHanded,
           NEW t \in Threads, NEW u \in Threads, NEW q \in Contracts, Fork(t, u, q)
    PROVE  LocksHanded'
<1>1. /\ stack[t] # <<>> /\ stack[u] = <<>> /\ u # t /\ q \in Terms
      /\ owner' = [l \in Locks |-> IF l \in Asked(q) THEN u ELSE owner[l]]
      /\ taken' = [l \in Locks |-> IF l \in Asked(q) THEN 0 ELSE taken[l]]
  BY ThreadIsForked
<1>2. PICK c \in Context :
        /\ stack' = [stack EXCEPT ![t] = <<c>> \o Tail(@), ![u] = <<MethodBody(q)>>]
        /\ SameFrame(c, Top(t)) /\ Held(c) \subseteq Held(Top(t))
        /\ c.unbounded \subseteq Top(t).unbounded
  BY ThreadIsForked
<1> DEFINE body == MethodBody(q)
<1>3. body \in Context /\ Held(body) = Asked(body.contract) /\ body.contract = q
      /\ body.unbounded = {}
  BY <1>1, BodyStarts DEF MethodBody
<1>4. stack'[t] = <<c>> \o Tail(stack[t]) /\ stack'[u] = <<body>>
      /\ \A v \in Threads : v # t /\ v # u => stack'[v] = stack[v]
  BY <1>1, <1>2 DEF StacksHeld
<1> HIDE DEF body
<1>5. taken' \in [Locks -> Int]
  BY <1>1 DEF LocksHanded
<1>6. \A l \in Locks : Handed(<<body>>, l, 0)
  BY <1>3, HandedFirst
<1>7. ASSUME NEW l \in Locks, owner[l] = t
      PROVE  Handed(<<c>> \o Tail(stack[t]), l, taken[l])
  <2>1. /\ c.loop = stack[t][1].loop /\ c.calls = stack[t][1].calls
        /\ c.contract = stack[t][1].contract
        /\ l \in Held(c) => l \in Held(stack[t][1])
        /\ l \in c.unbounded => l \in stack[t][1].unbounded
    BY <1>1, <1>2, HandedStack DEF SameFrame
  <2> QED
    BY <1>1, <1>2, <1>7, <2>1, HandedStack, HandedReplace
<1>8. \A l \in Locks : owner[l] # u
  BY <1>1 DEF StacksHeld, HeldBy
<1>9. ASSUME NEW v \in Threads, NEW l \in Locks, owner'[l] = v
      PROVE  Handed(stack'[v], l, taken'[l])
  <2>1. CASE l \in Asked(q)
    BY <1>1, <1>4, <1>6, <1>9, <2>1
  <2>2. CASE l \notin Asked(q)
    <3>1. owner[l] = v /\ taken'[l] = taken[l] /\ v # u
      BY <1>1, <1>8, <1>9, <2>2
    <3>2. CASE v = t
      BY <1>4, <1>7, <3>1, <3>2
    <3>3. CASE v # t
      BY <1>4, <3>1, <3>3 DEF LocksHanded
    <3> QED
      BY <3>2, <3>3
  <2> QED
    BY <2>1, <2>2
<1> QED
  BY <1>5, <1>9 DEF LocksHanded

LEMMA HandedStep ==
    ASSUME ObligationsAssumption, StacksHeld, LocksHanded, [Next]_vars
    PROVE  LocksHanded'
<1>1. ASSUME NEW t \in Threads, NEW l \in Locks, RequestLock(t, l) PROVE LocksHanded'
  BY <1>1 DEF RequestLock, LocksHanded
<1>2. ASSUME NEW t \in Threads, NEW l \in Locks, ObtainLock(t, l) PROVE LocksHanded'
  BY <1>2, HandedObtain
<1>3. ASSUME NEW t \in Threads, NEW l \in Locks, ReleaseLock(t, l) PROVE LocksHanded'
  BY <1>3, HandedRelease
<1>4. ASSUME NEW t \in Threads, NEW q \in Contracts, Call(t, q) PROVE LocksHanded'
  BY <1>4, CallEnters, HandedEnters
<1>5. ASSUME NEW t \in Threads, Return(t) PROVE LocksHanded'
  <2>1. stack[t] # <<>>
    BY <1>5, MethodEnds
  <2>2. CASE \E b : Ends(t, b)
    BY <2>1, <2>2, HandedEnds
  <2>3. CASE /\ stack' = [stack EXCEPT ![t] = <<>>]
             /\ Lower(t, Len(stack[t]) - 1) /\ UNCHANGED <<waiting, owner, started>>
    BY <2>1, <2>3, HandedEmpty, HandedLower
  <2> QED
    BY <1>5, <2>2, <2>3, MethodEnds
<1>6. ASSUME NEW t \in Threads, NEW q \in Invariants, EnterLoop(t, q) PROVE LocksHanded'
  BY <1>6, LoopEnters, HandedEnters
<1>7. ASSUME NEW t \in Threads, NEW q \in Invariants, SkipLoop(t, q) PROVE LocksHanded'
  <2>1. PICK c : /\ Becomes(t, c) /\ SameFrame(c, Top(t)) /\ Held(c) = Held(Top(t))
                 /\ c.unbounded \subseteq Top(t).unbounded
    BY <1>7, LoopIsSkipped
  <2>2. stack[t] # <<>> /\ UNCHANGED <<owner, taken>>
    BY <1>7, LoopIsSkipped
  <2> QED
    BY <2>1, <2>2, HandedBecomes DEF SameFrame
<1>8. ASSUME NEW t \in Threads, NEW q \in Invariants, Iterate(t, q) PROVE LocksHanded'
  <2>1. PICK a : /\ Becomes(t, a) /\ a.contract = q /\ a.loop /\ a.calls = Top(t).calls
                 /\ Held(a) = Asked(q) /\ a.unbounded = {}
    BY <1>8, IterationFollows
  <2>2. stack[t] # <<>> /\ UNCHANGED <<owner, taken>> /\ Top(t).loop
        /\ Held(Top(t)) = Asked(q)
    BY <1>8, IterationFollows
  <2>3. Top(t).loop = TRUE /\ a.loop = TRUE
    BY <2>1, <2>2, Running DEF Becomes, Context
  <2> QED
    BY <2>1, <2>2, <2>3, HandedBecomes
<1>9. ASSUME NEW t \in Threads, NEW q \in Invariants, LeaveLoop(t, q) PROVE LocksHanded'
  BY <1>9, LoopEnds, HandedEnds
<1>10. ASSUME NEW t \in Threads, NEW u \in Threads, NEW q \in Contracts, Fork(t, u, q)
       PROVE  LocksHanded'
  BY <1>10, HandedFork
<1>11. ASSUME NEW t \in Threads, NEW u \in Threads, RequestJoin(t, u) PROVE LocksHanded'
  BY <1>11 DEF RequestJoin, LocksHanded
<1>12. ASSUME NEW t \in Threads, NEW u \in Threads, CompleteJoin(t, u) PROVE LocksHanded'
  <2>1. PICK c : /\ Becomes(t, c) /\ SameFrame(c, Top(t)) /\ Held(c) = Held(Top(t))
                 /\ c.unbounded = Top(t).unbounded
    BY <1>12, ThreadIsJoined
  <2>2. stack[t] # <<>> /\ UNCHANGED <<owner, taken>>
    BY <1>12, ThreadIsJoined
  <2> QED
    BY <2>1, <2>2, HandedBecomes DEF SameFrame
<1>13. CASE UNCHANGED vars
  BY <1>13 DEF vars, LocksHanded
<1> QED
  BY <1>1, <1>2, <1>3, <1>4, <1>5, <1>6, <1>7, <1>8, <1>9, <1>10, <1>11, <1>12, <1>13 DEF Next

LEMMA HandedInvariant == Spec => [](StacksHeld /\ LocksHanded)
<1>1. ObligationsAssumption
  BY ObligationsAssumption
<1>2. Init => LocksHanded
  <2> SUFFICES ASSUME Init PROVE LocksHanded
    OBVIOUS
  <2>1. taken \in [Locks -> Int] /\ \A t \in Threads, l \in Locks : owner[l] # t
    BY <1>1 DEF Init, ObligationsAssumption
  <2> QED
    BY <2>1 DEF LocksHanded
<1>3. StacksHeld /\ LocksHanded /\ [Next]_vars => LocksHanded'
  BY <1>1, HandedStep
<1> QED
  BY <1>2, <1>3, StacksInvariant, PTL DEF Spec

\* The obligation to release a lock is handed from call to call with smaller and
\* smaller measures.
THEOREM HandingOverIsWellFounded == Spec => []ReleaseMeasuresDecrease
<1>1. ASSUME StacksHeld, LocksHanded PROVE ReleaseMeasuresDecrease
  <2> SUFFICES ASSUME NEW t \in Threads, NEW l \in Locks,
                      NEW i \in DOMAIN stack[t], NEW j \in DOMAIN stack[t],
                      owner[l] = t, j < i, Len(stack[t]) - i + 1 > taken[l],
                      Asks(stack[t][i], l), Asks(stack[t][j], l)
               PROVE  /\ l \in DOMAIN stack[t][j].calls
                      /\ Check(stack[t][i].calls, l, stack[t][j].calls[l])
    BY DEF ReleaseMeasuresDecrease
  <2>1. /\ ~stack[t][i].loop /\ l \in Asked(stack[t][i].contract)
        /\ ~stack[t][j].loop /\ l \in Asked(stack[t][j].contract)
    BY DEF Asks, Asked
  <2>2. MeasuresFall(stack[t], l, taken[l])
    BY <1>1 DEF LocksHanded, Handed
  <2>3. j =< i /\ Height(stack[t], i) > taken[l]
    <3>1. stack[t] \in Seq(Context)
      BY <1>1 DEF StacksHeld
    <3>2. i \in Int /\ j \in Int
      BY <3>1
    <3> QED
      BY <3>2 DEF Height
  <2> QED
    BY <2>1, <2>2, <2>3 DEF MeasuresFall
<1> QED
  BY <1>1, HandedInvariant, PTL

\* Neither termination nor the release of a lock is put off for ever: the measures of
\* both decrease along the calls of every thread.
THEOREM MeasuresAreWellFounded == Spec => []MeasuresDecrease
BY TerminationIsWellFounded, HandingOverIsWellFounded, PTL DEF MeasuresDecrease
=============================================================================
