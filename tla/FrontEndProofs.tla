---------------------------- MODULE FrontEndProofs ----------------------------
(***************************************************************************)
(* Two of the front end's tasks, whatever the program: the order in which  *)
(* modules are executed, and the soundness of the domains of algebraic     *)
(* data types.                                                             *)
(*                                                                         *)
(* The translated global code and Python go through the modules of a       *)
(* program in the same order.  Both are runs of one deterministic machine, *)
(* whose steps do not look at the names defined so far: its control is the *)
(* stack of the modules being executed, the set of those begun and the     *)
(* order in which they began.  Where a run is is described without         *)
(* counting steps: it is in every set of controls that holds the start     *)
(* and, with a control, the next one.                                      *)
(*                                                                         *)
(* For every algebraic type and all numbers, objects, elements and         *)
(* references, the axioms hold of Python's named tuples, and what holds in *)
(* an interpretation of them is what Python does.                          *)
(***************************************************************************)
EXTENDS ModuleExecution, AlgebraicTypes, SequenceTheorems, TLAPS

(* The order of modules *)

Mods(p) == DOMAIN p.code

Frames(p) == [mod : Mods(p), pc : Nat \ {0}]

Controls(p) == [stack : Seq(Frames(p)), loaded : SUBSET Mods(p), trace : Seq(Mods(p))]

EncControl == [stack |-> Enc.stack, loaded |-> Enc.defined, trace |-> Enc.trace]

PyControl == [stack |-> Py.stack, loaded |-> Py.loaded, trace |-> Py.trace]

Start == [stack |-> <<[mod |-> Main, pc |-> 1]>>, loaded |-> {Main}, trace |-> <<Main>>]

Ended(p, c) == Top(c).pc > Len(p.code[Top(c).mod])

At(p, c) == p.code[Top(c).mod][Top(c).pc]

Begins(p, c) == IsImport(At(p, c)) /\ At(p, c).mod \notin c.loaded

Begun(c, m) ==
    [stack |-> Append(c.stack, [mod |-> m, pc |-> 1]),
     loaded |-> c.loaded \cup {m}, trace |-> Append(c.trace, m)]

Step(p, c) ==
    IF Ended(p, c) THEN [c EXCEPT !.stack = Front(@)]
    ELSE IF Begins(p, c) THEN Begun(c, At(p, c).mod)
    ELSE [c EXCEPT !.stack = Advanced(@)]

Closed(p, S) == \A c \in S : c.stack # <<>> => Step(p, c) \in S

\* A run of the machine that is at c comes to d.
Leads(p, c, d) ==
    \A S \in SUBSET Controls(p) : Closed(p, S) /\ c \in S => d \in S

----------------------------------------------------------------------------
(* The machine.                                                            *)

LEMMA StepsAreTyped ==
    ASSUME NEW p, IsProgram(p), NEW c \in Controls(p), c.stack # <<>>
    PROVE  Step(p, c) \in Controls(p)
<1>1. /\ c.stack \in Seq(Frames(p)) /\ c.loaded \in SUBSET Mods(p) /\ c.trace \in Seq(Mods(p))
      /\ c = [stack |-> c.stack, loaded |-> c.loaded, trace |-> c.trace]
  BY DEF Controls
<1>2. /\ Len(c.stack) \in Nat \ {0} /\ Len(c.stack) \in 1 .. Len(c.stack)
      /\ Top(c) \in Frames(p)
  BY <1>1, EmptySeq DEF Top, Last
<1>3. Top(c).mod \in Mods(p) /\ Top(c).pc \in Nat \ {0}
  BY <1>2 DEF Frames
<1>4. CASE Ended(p, c)
  <2>1. Front(c.stack) \in Seq(Frames(p))
    BY <1>1, <1>2, SubSeqProperties DEF Front
  <2> QED
    BY <1>1, <1>4, <2>1 DEF Step, Controls
<1>5. CASE ~ Ended(p, c) /\ Begins(p, c)
  <2>1. Top(c).pc \in 1 .. Len(p.code[Top(c).mod])
    BY <1>3, <1>5 DEF Ended, IsProgram, Mods
  <2>2. At(p, c).mod \in Mods(p)
    BY <1>3, <1>5, <2>1 DEF Begins, At, IsProgram, Mods
  <2>3. [mod |-> At(p, c).mod, pc |-> 1] \in Frames(p)
    BY <2>2 DEF Frames
  <2>4. /\ Append(c.stack, [mod |-> At(p, c).mod, pc |-> 1]) \in Seq(Frames(p))
        /\ Append(c.trace, At(p, c).mod) \in Seq(Mods(p))
        /\ c.loaded \cup {At(p, c).mod} \in SUBSET Mods(p)
    BY <1>1, <2>2, <2>3, AppendProperties
  <2> QED
    BY <1>5, <2>4 DEF Step, Begun, Controls
<1>6. CASE ~ Ended(p, c) /\ ~ Begins(p, c)
  <2>1. [Top(c) EXCEPT !.pc = @ + 1] \in Frames(p)
    BY <1>2 DEF Frames
  <2>2. Advanced(c.stack) = [c.stack EXCEPT ![Len(c.stack)] = [Top(c) EXCEPT !.pc = @ + 1]]
    BY DEF Advanced, Top, Last
  <2>3. Advanced(c.stack) \in Seq(Frames(p))
    BY <1>1, <1>2, <2>1, <2>2, ExceptSeq
  <2> QED
    BY <1>1, <1>6, <2>3 DEF Step, Controls
<1> QED
  BY <1>4, <1>5, <1>6

LEMMA LeadsOn ==
    ASSUME NEW p, NEW c, NEW d, Leads(p, c, d), d.stack # <<>>
    PROVE  Leads(p, c, Step(p, d))
BY DEF Leads, Closed

\* The machine is deterministic: where it stops depends on where it starts.
LEMMA OneEnd ==
    ASSUME NEW p, IsProgram(p), NEW s \in Controls(p), NEW a, NEW b \in Controls(p),
           Leads(p, s, a), Leads(p, s, b), a.stack = <<>>, b.stack = <<>>
    PROVE  a = b
<1> DEFINE T == {c \in Controls(p) : Leads(p, c, a)}
<1>1. T \in SUBSET Controls(p) /\ s \in T
  OBVIOUS
<1>2. ASSUME NEW c \in T, c.stack # <<>>
      PROVE  Step(p, c) \in T
  <2>1. c \in Controls(p) /\ Leads(p, c, a)
    OBVIOUS
  <2>2. Step(p, c) \in Controls(p)
    BY <1>2, <2>1, StepsAreTyped
  <2>3. ASSUME NEW S \in SUBSET Controls(p), Closed(p, S), Step(p, c) \in S
        PROVE  a \in S
    <3>1. Closed(p, S \cup {c}) /\ S \cup {c} \in SUBSET Controls(p)
      BY <2>1, <2>3 DEF Closed
    <3>2. a \in S \cup {c}
      BY <2>1, <3>1 DEF Leads
    <3> QED
      BY <1>2, <3>2
  <2> QED
    BY <2>2, <2>3 DEF Leads
<1>3. Closed(p, T)
  BY <1>2 DEF Closed
<1>4. b \in T
  <2> HIDE DEF T
  <2> QED
    BY <1>1, <1>3 DEF Leads
<1>5. Closed(p, {b}) /\ {b} \in SUBSET Controls(p)
  BY DEF Closed
<1> QED
  BY <1>4, <1>5 DEF Leads

----------------------------------------------------------------------------
(* The two executions as runs of the machine.                              *)

Recorded ==
    /\ state = [enc |-> Enc, py |-> Py]
    /\ Enc = [stack |-> Enc.stack, defined |-> Enc.defined, failed |-> Enc.failed,
              names |-> Enc.names, trace |-> Enc.trace]
    /\ Py = [stack |-> Py.stack, loaded |-> Py.loaded, raised |-> Py.raised,
             made |-> Py.made, ns |-> Py.ns, trace |-> Py.trace]

TypeOK ==
    /\ IsProgram(Program)
    /\ Recorded
    /\ EncControl \in Controls(Program)
    /\ PyControl \in Controls(Program)

RunsOfTheMachine ==
    /\ Leads(Program, Start, EncControl)
    /\ Leads(Program, Start, PyControl)

EachModuleOnce ==
    /\ \A i \in DOMAIN Enc.trace : Enc.trace[i] \in Enc.defined
    /\ \A i, j \in DOMAIN Enc.trace : Enc.trace[i] = Enc.trace[j] => i = j

Inv == TypeOK /\ RunsOfTheMachine /\ EachModuleOnce

LEMMA InitInv ==
    ASSUME ProgramsAssumption, Init
    PROVE  Inv
<1>1. PICK p : IsProgram(p) /\ task = [of |-> "modules", program |-> p]
                /\ state = [enc |-> InitialEncoding(p), py |-> InitialPython(p)]
  BY DEF Init, ProgramsAssumption
<1>2. Program = p /\ Enc = InitialEncoding(p) /\ Py = InitialPython(p)
  BY <1>1 DEF Program, Enc, Py
<1>3. EncControl = Start /\ PyControl = Start /\ Recorded /\ Enc.defined = {Main} /\ Enc.trace = <<Main>>
  BY <1>1, <1>2 DEF EncControl, PyControl, Start, Recorded, InitialEncoding, InitialPython
<1>4. Start \in Controls(p)
  <2>1. Main \in Mods(p)
    BY <1>1 DEF IsProgram, Mods
  <2>2. [mod |-> Main, pc |-> 1] \in Frames(p)
    BY <2>1 DEF Frames
  <2> QED
    BY <2>1, <2>2 DEF Start, Controls
<1> QED
  BY <1>1, <1>2, <1>3, <1>4 DEF Inv, TypeOK, RunsOfTheMachine, EachModuleOnce, Leads

\* What a step of the translated code does to its control.
EncMoves ==
    /\ UNCHANGED task /\ Recorded' /\ Py' = Py
    /\ \/ EncControl' = EncControl
       \/ Enc.stack # <<>> /\ EncControl' = Step(Program, EncControl)
    /\ \/ Enc'.trace = Enc.trace /\ Enc'.defined = Enc.defined
       \/ \E m : /\ m \notin Enc.defined
                /\ Enc'.trace = Append(Enc.trace, m) /\ Enc'.defined = Enc.defined \cup {m}

\* And one of Python to Python's.
PyMoves ==
    /\ UNCHANGED task /\ Recorded' /\ Enc' = Enc
    /\ \/ PyControl' = PyControl
       \/ Py.stack # <<>> /\ PyControl' = Step(Program, PyControl)

LEMMA VerifyStatementMoves == ASSUME Inv, VerifyStatement PROVE EncMoves
<1> DEFINE s == Current(Enc)
<1>1. /\ UNCHANGED task /\ Enc.stack # <<>> /\ ~ AtEnd(Enc)
      /\ state' = [state EXCEPT !.enc = EncodedStatement(Program, Enc, s)]
  BY DEF VerifyStatement, Runnable, Enc
<1>2. Recorded
  BY DEF Inv, TypeOK
<1>3. Enc' = EncodedStatement(Program, Enc, s) /\ Py' = Py /\ state' = [enc |-> Enc', py |-> Py']
  BY <1>1, <1>2 DEF Recorded, Enc, Py
<1>4. /\ EncControl.stack = Enc.stack /\ EncControl.loaded = Enc.defined
      /\ ~ Ended(Program, EncControl) /\ At(Program, EncControl) = s
  BY <1>1 DEF EncControl, AtEnd, Ended, At, Current, Top
<1>5. CASE ExecutesModule(Enc, s)
  <2>1. Enc' = [stack |-> Append(Enc.stack, [mod |-> s.mod, pc |-> 1]),
                defined |-> Enc.defined \cup {s.mod}, failed |-> Enc.failed,
                names |-> Enc.names, trace |-> Append(Enc.trace, s.mod)]
    BY <1>2, <1>3, <1>5 DEF EncodedStatement, Recorded
  <2>2. Begins(Program, EncControl) /\ s.mod \notin Enc.defined
    BY <1>4, <1>5 DEF Begins, ExecutesModule
  <2>3. EncControl' = Step(Program, EncControl)
    BY <1>4, <2>1, <2>2 DEF EncControl, Step, Begun
  <2>4. Recorded'
    BY <1>2, <1>3, <2>1 DEF Recorded
  <2>5. Enc'.trace = Append(Enc.trace, s.mod) /\ Enc'.defined = Enc.defined \cup {s.mod}
    BY <2>1
  <2> HIDE DEF s
  <2> QED
    BY <1>1, <1>3, <2>2, <2>3, <2>4, <2>5, <1>4 DEF EncMoves
<1>6. CASE ~ ExecutesModule(Enc, s) /\ ~ Asserted(Program, Enc.names, Top(Enc).mod, s)
  <2>1. Enc' = [stack |-> Enc.stack, defined |-> Enc.defined, failed |-> TRUE,
                names |-> Enc.names, trace |-> Enc.trace]
    BY <1>2, <1>3, <1>6 DEF EncodedStatement, Recorded
  <2>2. Recorded'
    BY <1>2, <1>3, <2>1 DEF Recorded
  <2>3. EncControl' = EncControl /\ Enc'.trace = Enc.trace /\ Enc'.defined = Enc.defined
    BY <2>1 DEF EncControl
  <2> QED
    BY <1>1, <1>3, <2>2, <2>3 DEF EncMoves
<1>7. CASE ~ ExecutesModule(Enc, s) /\ Asserted(Program, Enc.names, Top(Enc).mod, s)
  <2> DEFINE named == [Enc.names EXCEPT ![Top(Enc).mod] = @ \cup Added(Program, Enc.names, s)]
  <2>1. Enc' = [Enc EXCEPT !.stack = Advanced(@), !.names = named]
    BY <1>3, <1>7 DEF EncodedStatement
  <2> HIDE DEF named
  <2>2. Enc' = [stack |-> Advanced(Enc.stack), defined |-> Enc.defined, failed |-> Enc.failed,
                names |-> named, trace |-> Enc.trace]
    BY <1>2, <2>1 DEF Recorded
  <2>3. ~ Begins(Program, EncControl)
    BY <1>4, <1>7 DEF Begins, ExecutesModule
  <2>4. EncControl' = Step(Program, EncControl)
    BY <1>4, <2>2, <2>3 DEF EncControl, Step
  <2> QED
    BY <1>1, <1>2, <1>3, <2>2, <2>4 DEF EncMoves, Recorded
<1> QED
  BY <1>5, <1>6, <1>7

LEMMA VerifyModuleEndMoves == ASSUME Inv, VerifyModuleEnd PROVE EncMoves
<1>1. /\ UNCHANGED task /\ Enc.stack # <<>> /\ AtEnd(Enc)
      /\ state' = [state EXCEPT !.enc = [Enc EXCEPT !.stack = Front(@)]]
  BY DEF VerifyModuleEnd, Runnable, Enc
<1>2. Recorded
  BY DEF Inv, TypeOK
<1>3. Enc' = [Enc EXCEPT !.stack = Front(@)] /\ Py' = Py /\ state' = [enc |-> Enc', py |-> Py']
  BY <1>1, <1>2 DEF Recorded, Enc, Py
<1>4. Enc' = [stack |-> Front(Enc.stack), defined |-> Enc.defined, failed |-> Enc.failed,
              names |-> Enc.names, trace |-> Enc.trace]
  BY <1>2, <1>3 DEF Recorded
<1>5. EncControl' = Step(Program, EncControl)
  BY <1>1, <1>4 DEF EncControl, AtEnd, Ended, Step, Top
<1> QED
  BY <1>1, <1>2, <1>3, <1>4, <1>5 DEF EncMoves, Recorded

LEMMA RunStatementMoves == ASSUME Inv, RunStatement PROVE PyMoves
<1> DEFINE s == Current(Py)
<1>1. /\ UNCHANGED task /\ Py.stack # <<>> /\ ~ AtEnd(Py)
      /\ state' = [state EXCEPT !.py = PythonStatement(Program, Py, s)]
  BY DEF RunStatement, Runnable, Py
<1>2. Recorded
  BY DEF Inv, TypeOK
<1>3. Py' = PythonStatement(Program, Py, s) /\ Enc' = Enc /\ state' = [enc |-> Enc', py |-> Py']
  BY <1>1, <1>2 DEF Recorded, Enc, Py
<1>4. /\ PyControl.stack = Py.stack /\ PyControl.loaded = Py.loaded
      /\ ~ Ended(Program, PyControl) /\ At(Program, PyControl) = s
  BY <1>1 DEF PyControl, AtEnd, Ended, At, Current, Top
<1>5. CASE IsImport(s) /\ s.mod \notin Py.loaded
  <2>1. Py' = [stack |-> Append(Py.stack, [mod |-> s.mod, pc |-> 1]),
               loaded |-> Py.loaded \cup {s.mod}, raised |-> Py.raised, made |-> Py.made,
               ns |-> Py.ns, trace |-> Append(Py.trace, s.mod)]
    BY <1>2, <1>3, <1>5 DEF PythonStatement, Recorded
  <2>2. PyControl' = Step(Program, PyControl)
    BY <1>4, <1>5, <2>1 DEF PyControl, Step, Begun, Begins
  <2> QED
    BY <1>1, <1>2, <1>3, <2>1, <2>2 DEF PyMoves, Recorded
<1>6. CASE ~ (IsImport(s) /\ s.mod \notin Py.loaded) /\ PythonRaises(Program, Py, Top(Py).mod, s)
  <2>1. Py' = [stack |-> Py.stack, loaded |-> Py.loaded, raised |-> TRUE, made |-> Py.made,
               ns |-> Py.ns, trace |-> Py.trace]
    BY <1>2, <1>3, <1>6 DEF PythonStatement, Recorded
  <2>2. Recorded'
    BY <1>2, <1>3, <2>1 DEF Recorded
  <2>3. PyControl' = PyControl
    BY <2>1 DEF PyControl
  <2> QED
    BY <1>1, <1>3, <2>2, <2>3 DEF PyMoves
<1>7. CASE ~ (IsImport(s) /\ s.mod \notin Py.loaded) /\ ~ PythonRaises(Program, Py, Top(Py).mod, s)
  <2> DEFINE bound == [Py.ns EXCEPT ![Top(Py).mod] = Bound(Py, s) @@ @]
             classes == IF s.op = "class" THEN Py.made \cup {s.name} ELSE Py.made
  <2>1. Py' = [Py EXCEPT !.stack = Advanced(@), !.ns = bound, !.made = classes]
    BY <1>3, <1>7 DEF PythonStatement
  <2> HIDE DEF bound, classes
  <2>2. Py' = [stack |-> Advanced(Py.stack), loaded |-> Py.loaded, raised |-> Py.raised,
               made |-> classes, ns |-> bound, trace |-> Py.trace]
    BY <1>2, <2>1 DEF Recorded
  <2>3. PyControl' = Step(Program, PyControl)
    BY <1>4, <1>7, <2>2 DEF PyControl, Step, Begins
  <2> QED
    BY <1>1, <1>2, <1>3, <2>2, <2>3 DEF PyMoves, Recorded
<1> QED
  BY <1>5, <1>6, <1>7

LEMMA RunModuleEndMoves == ASSUME Inv, RunModuleEnd PROVE PyMoves
<1>1. /\ UNCHANGED task /\ Py.stack # <<>> /\ AtEnd(Py)
      /\ state' = [state EXCEPT !.py = [Py EXCEPT !.stack = Front(@)]]
  BY DEF RunModuleEnd, Runnable, Py
<1>2. Recorded
  BY DEF Inv, TypeOK
<1>3. Py' = [Py EXCEPT !.stack = Front(@)] /\ Enc' = Enc /\ state' = [enc |-> Enc', py |-> Py']
  BY <1>1, <1>2 DEF Recorded, Enc, Py
<1>4. Py' = [stack |-> Front(Py.stack), loaded |-> Py.loaded, raised |-> Py.raised,
             made |-> Py.made, ns |-> Py.ns, trace |-> Py.trace]
  BY <1>2, <1>3 DEF Recorded
<1>5. PyControl' = Step(Program, PyControl)
  BY <1>1, <1>4 DEF PyControl, AtEnd, Ended, Step, Top
<1> QED
  BY <1>1, <1>2, <1>3, <1>4, <1>5 DEF PyMoves, Recorded

----------------------------------------------------------------------------
(* The invariant.                                                          *)

LEMMA EncMovesKeepInv == ASSUME Inv, EncMoves PROVE Inv'
<1>1. /\ IsProgram(Program) /\ Program' = Program /\ Recorded' /\ PyControl' = PyControl
      /\ EncControl \in Controls(Program) /\ PyControl \in Controls(Program)
      /\ Leads(Program, Start, EncControl) /\ Leads(Program, Start, PyControl)
  BY DEF Inv, TypeOK, RunsOfTheMachine, EncMoves, Program, PyControl
<1>2. EncControl.stack = Enc.stack
  BY DEF EncControl
<1>3. EncControl' \in Controls(Program) /\ Leads(Program, Start, EncControl')
  BY <1>1, <1>2, StepsAreTyped, LeadsOn DEF EncMoves
<1>4. EachModuleOnce'
  <2>1. CASE Enc'.trace = Enc.trace /\ Enc'.defined = Enc.defined
    BY <2>1 DEF Inv, EachModuleOnce
  <2>2. ASSUME NEW m, m \notin Enc.defined, Enc'.trace = Append(Enc.trace, m),
               Enc'.defined = Enc.defined \cup {m}
        PROVE  EachModuleOnce'
    <3>1. Enc.trace \in Seq(Mods(Program)) /\ Enc'.trace \in Seq(Mods(Program))
      <4>1. EncControl.trace = Enc.trace /\ EncControl'.trace = Enc'.trace
        BY DEF EncControl
      <4> QED
        BY <1>1, <1>3, <4>1 DEF Controls
    <3> QED
      BY <2>2, <3>1 DEF Inv, EachModuleOnce
  <2> QED
    BY <2>1, <2>2 DEF EncMoves
<1> QED
  BY <1>1, <1>3, <1>4 DEF Inv, TypeOK, RunsOfTheMachine

LEMMA PyMovesKeepInv == ASSUME Inv, PyMoves PROVE Inv'
<1>1. /\ IsProgram(Program) /\ Program' = Program /\ Recorded' /\ EncControl' = EncControl
      /\ EncControl \in Controls(Program) /\ PyControl \in Controls(Program)
      /\ Leads(Program, Start, EncControl) /\ Leads(Program, Start, PyControl)
  BY DEF Inv, TypeOK, RunsOfTheMachine, PyMoves, Program, EncControl
<1>2. PyControl.stack = Py.stack
  BY DEF PyControl
<1>3. PyControl' \in Controls(Program) /\ Leads(Program, Start, PyControl')
  BY <1>1, <1>2, StepsAreTyped, LeadsOn DEF PyMoves
<1> QED
  BY <1>1, <1>3 DEF Inv, TypeOK, RunsOfTheMachine, EachModuleOnce, PyMoves

LEMMA NextInv == ASSUME Inv, [Next]_vars PROVE Inv'
<1>1. CASE VerifyStatement
  BY <1>1, VerifyStatementMoves, EncMovesKeepInv
<1>2. CASE VerifyModuleEnd
  BY <1>2, VerifyModuleEndMoves, EncMovesKeepInv
<1>3. CASE RunStatement
  BY <1>3, RunStatementMoves, PyMovesKeepInv
<1>4. CASE RunModuleEnd
  BY <1>4, RunModuleEndMoves, PyMovesKeepInv
<1>5. CASE UNCHANGED vars
  BY <1>5 DEF vars, Inv, TypeOK, Recorded, RunsOfTheMachine, EachModuleOnce, EncControl,
              PyControl, Program, Enc, Py
<1> QED
  BY <1>1, <1>2, <1>3, <1>4, <1>5 DEF Next

LEMMA InvOrders == Inv => ModulesRunInPythonsOrder
<1> SUFFICES ASSUME Inv PROVE ModulesRunInPythonsOrder
  OBVIOUS
<1>1. ASSUME Enc.stack = <<>>, Py.stack = <<>> PROVE Enc.trace = Py.trace
  <2>1. EncControl.stack = <<>> /\ PyControl.stack = <<>>
    BY <1>1 DEF EncControl, PyControl
  <2>2. Start \in Controls(Program)
    <3>1. Main \in Mods(Program)
      BY DEF Inv, TypeOK, IsProgram, Mods
    <3>2. [mod |-> Main, pc |-> 1] \in Frames(Program)
      BY <3>1 DEF Frames
    <3> QED
      BY <3>1, <3>2 DEF Start, Controls
  <2>3. EncControl = PyControl
    BY <2>1, <2>2, OneEnd DEF Inv, TypeOK, RunsOfTheMachine
  <2> QED
    BY <2>3 DEF EncControl, PyControl
<1> QED
  BY <1>1 DEF Inv, EachModuleOnce, ModulesRunInPythonsOrder, Accepted

\* Whatever the modules of a program are and however they import each other, no
\* module is verified twice, and a program that is accepted has been verified in
\* the order in which Python runs its modules.
THEOREM ModulesAreVerifiedInOrder ==
    ASSUME ProgramsAssumption
    PROVE  Spec => []ModulesRunInPythonsOrder
<1>1. Init => Inv
  BY InitInv
<1>2. Inv /\ [Next]_vars => Inv'
  BY NextInv
<1>3. Inv => ModulesRunInPythonsOrder
  BY InvOrders
<1> QED
  BY <1>1, <1>2, <1>3, PTL DEF Spec

-----------------------------------------------------------------------------
(* Algebraic data types *)

AdtHere == Adt.kind = "adt" /\ IsAdt(Adt)

-----------------------------------------------------------------------------
(* Constructors and their arguments *)

\* The fields of a constructor are a sequence; their types are one of three.
LEMMA FieldsAreTyped ==
  ASSUME AdtHere, NEW c \in Tags, NEW i \in DOMAIN FieldsOf(c)
  PROVE  FieldsOf(c)[i].typ \in {"int", "self", "C"}
BY DEF AdtHere, IsAdt, Tags, FieldsOf

\* What a field of a type can be; "self" is the only type that depends on the elements.
LEMMA FieldValues ==
  ASSUME NEW S
  PROVE  ValuesOf("int", S) = Numbers /\ ValuesOf("self", S) = S /\ ValuesOf("C", S) = AdtObjects
BY DEF ValuesOf

LEMMA OtherFieldValues ==
  ASSUME AdtHere, NEW S, NEW T, NEW c \in Tags, NEW i \in DOMAIN FieldsOf(c), ~ IsSelf(FieldsOf(c)[i])
  PROVE  /\ ValuesOf(FieldsOf(c)[i].typ, S) = ValuesOf(FieldsOf(c)[i].typ, T)
         /\ ValuesOf(FieldsOf(c)[i].typ, S) \subseteq Numbers \cup AdtObjects
BY FieldsAreTyped, FieldValues DEF IsSelf

\* Constructors are told apart by the types of their fields (program.py
\* _create_adt_func_constructors declares one function for each).
LEMMA ConstructorsDiffer ==
  ASSUME Distinct, NEW c \in Tags, NEW d \in Tags, DOMAIN FieldsOf(c) = DOMAIN FieldsOf(d),
         \A i \in DOMAIN FieldsOf(c) : FieldsOf(c)[i].typ = FieldsOf(d)[i].typ
  PROVE  c = d
<1>1. FieldTypes(c) = FieldTypes(d)
  BY DEF FieldTypes
<1> QED BY <1>1 DEF Distinct

\* What an application of a constructor consists of.
LEMMA ApplicationParts ==
  ASSUME NEW S, NEW v \in Applications(S)
  PROVE  /\ v.c \in Tags /\ v.args \in ArgumentsOf(v.c, S)
         /\ v = [c |-> v.c, args |-> v.args]
         /\ v.args = [i \in DOMAIN FieldsOf(v.c) |-> v.args[i]]
         /\ DOMAIN v.args = DOMAIN FieldsOf(v.c)
         /\ \A i \in DOMAIN FieldsOf(v.c) : v.args[i] \in ValuesOf(FieldsOf(v.c)[i].typ, S)
<1>1. PICK c \in Tags : v \in {[c |-> c, args |-> args] : args \in ArgumentsOf(c, S)}
  BY DEF Applications
<1>2. PICK args \in ArgumentsOf(c, S) : v = [c |-> c, args |-> args]
  BY <1>1
<1> QED BY <1>2 DEF ArgumentsOf

LEMMA SelfArguments ==
  ASSUME NEW S, NEW v \in Applications(S), NEW i \in DOMAIN FieldsOf(v.c), IsSelf(FieldsOf(v.c)[i])
  PROVE  v.args[i] \in S
<1>1. v.args[i] \in ValuesOf(FieldsOf(v.c)[i].typ, S)
  BY ApplicationParts
<1>2. FieldsOf(v.c)[i].typ = "self"
  BY DEF IsSelf
<1> QED BY <1>1, <1>2, FieldValues

LEMMA SelfArgumentsOf ==
  ASSUME NEW S, NEW v \in Applications(S)
  PROVE  \A i \in DOMAIN v.args : IsSelf(FieldsOf(v.c)[i]) => v.args[i] \in S
<1>1. DOMAIN v.args = DOMAIN FieldsOf(v.c)
  BY ApplicationParts
<1> QED BY <1>1, SelfArguments

LEMMA IsApplication ==
  ASSUME NEW S, NEW c \in Tags, NEW args \in ArgumentsOf(c, S)
  PROVE  [c |-> c, args |-> args] \in Applications(S)
BY DEF Applications

\* More elements, more applications.
LEMMA ApplicationsGrow ==
  ASSUME AdtHere, NEW S, NEW T, S \subseteq T
  PROVE  Applications(S) \subseteq Applications(T)
<1> SUFFICES ASSUME NEW v \in Applications(S) PROVE v \in Applications(T)
  OBVIOUS
<1>1. v.c \in Tags /\ v.args \in ArgumentsOf(v.c, S) /\ v = [c |-> v.c, args |-> v.args]
  BY ApplicationParts
<1>2. \A i \in DOMAIN FieldsOf(v.c) : v.args[i] \in ValuesOf(FieldsOf(v.c)[i].typ, T)
  <2> SUFFICES ASSUME NEW i \in DOMAIN FieldsOf(v.c) PROVE v.args[i] \in ValuesOf(FieldsOf(v.c)[i].typ, T)
    OBVIOUS
  <2>1. v.args[i] \in ValuesOf(FieldsOf(v.c)[i].typ, S)
    BY ApplicationParts
  <2>2. CASE IsSelf(FieldsOf(v.c)[i])
    BY <2>2, SelfArguments, FieldValues DEF IsSelf
  <2>3. CASE ~ IsSelf(FieldsOf(v.c)[i])
    BY <1>1, <2>1, <2>3, OtherFieldValues
  <2> QED BY <2>2, <2>3
<1>3. v.args \in ArgumentsOf(v.c, T)
  BY <1>1, <1>2 DEF ArgumentsOf
<1> QED BY <1>1, <1>3, IsApplication

-----------------------------------------------------------------------------
(* Python's values *)

LEMMA PyValuesGrow ==
  ASSUME AdtHere
  PROVE  PyValues1 \subseteq PyValues2 /\ PyValues2 \subseteq PyValues3 /\ PyValues3 \subseteq PyValues4
<1>1. PyValues1 \subseteq PyValues2
  BY ApplicationsGrow DEF PyValues1, PyValues2
<1>2. PyValues2 \subseteq PyValues3
  BY <1>1, ApplicationsGrow DEF PyValues2, PyValues3
<1>3. PyValues3 \subseteq PyValues4
  BY <1>2, ApplicationsGrow DEF PyValues3, PyValues4
<1> QED BY <1>1, <1>2, <1>3

\* Values with the same types of fields and the same components are the same.
LEMMA SameComponents ==
  ASSUME Distinct, NEW S, NEW v \in Applications(S), NEW w \in Applications(S), DOMAIN v.args = DOMAIN w.args,
         \A i \in DOMAIN v.args : FieldsOf(v.c)[i].typ = FieldsOf(w.c)[i].typ /\ v.args[i] = w.args[i]
  PROVE  v = w
<1>1. v.c = w.c
  <2>1. v.c \in Tags /\ DOMAIN v.args = DOMAIN FieldsOf(v.c)
    BY ApplicationParts
  <2>2. w.c \in Tags /\ DOMAIN w.args = DOMAIN FieldsOf(w.c)
    BY ApplicationParts
  <2>3. \A i \in DOMAIN FieldsOf(v.c) : FieldsOf(v.c)[i].typ = FieldsOf(w.c)[i].typ
    BY <2>1
  <2> QED BY <2>1, <2>2, <2>3, ConstructorsDiffer
<1>2. v = [c |-> v.c, args |-> v.args] /\ w = [c |-> w.c, args |-> w.args]
  BY ApplicationParts
<1>3. /\ v.args = [i \in DOMAIN FieldsOf(v.c) |-> v.args[i]] /\ DOMAIN v.args = DOMAIN FieldsOf(v.c)
      /\ w.args = [i \in DOMAIN FieldsOf(w.c) |-> w.args[i]]
  BY ApplicationParts
<1>4. v.args = w.args
  BY <1>1, <1>3
<1> QED BY <1>1, <1>2, <1>4

\* Python's equality of nested tuples is equality, for values nested up to four times.
LEMMA PyEqualIsEquality1 ==
  ASSUME Distinct, NEW v \in PyValues1, NEW w \in PyValues1
  PROVE  PyEqual1(v, w) <=> v = w
<1>1. v \in Applications({}) /\ w \in Applications({})
  BY DEF PyValues1
<1>2. \A i \in DOMAIN v.args : ~ IsSelf(FieldsOf(v.c)[i])
  BY <1>1, SelfArgumentsOf
<1>3. ASSUME PyEqual1(v, w) PROVE v = w
  BY <1>1, <1>2, <1>3, SameComponents DEF PyEqual1, SameTuple
<1>4. ASSUME v = w PROVE PyEqual1(v, w)
  BY <1>2, <1>4 DEF PyEqual1, SameTuple
<1> QED BY <1>3, <1>4

LEMMA PyEqualIsEquality2 ==
  ASSUME Distinct, NEW v \in PyValues2, NEW w \in PyValues2
  PROVE  PyEqual2(v, w) <=> v = w
<1>1. v \in Applications(PyValues1) /\ w \in Applications(PyValues1)
  BY DEF PyValues2
<1>2. \A i \in DOMAIN v.args : IsSelf(FieldsOf(v.c)[i]) => v.args[i] \in PyValues1
  BY <1>1, SelfArgumentsOf
<1>3. \A i \in DOMAIN w.args : IsSelf(FieldsOf(w.c)[i]) => w.args[i] \in PyValues1
  BY <1>1, SelfArgumentsOf
<1>4. ASSUME PyEqual2(v, w) PROVE v = w
  <2>1. /\ DOMAIN v.args = DOMAIN w.args
        /\ \A i \in DOMAIN v.args : /\ FieldsOf(v.c)[i].typ = FieldsOf(w.c)[i].typ
                                    /\ IF IsSelf(FieldsOf(v.c)[i]) THEN PyEqual1(v.args[i], w.args[i])
                                       ELSE v.args[i] = w.args[i]
    BY <1>4 DEF PyEqual2, SameTuple
  <2>2. \A i \in DOMAIN v.args : v.args[i] = w.args[i]
    <3> SUFFICES ASSUME NEW i \in DOMAIN v.args PROVE v.args[i] = w.args[i]
      OBVIOUS
    <3>1. CASE IsSelf(FieldsOf(v.c)[i])
      <4>1. IsSelf(FieldsOf(w.c)[i])
        BY <2>1, <3>1 DEF IsSelf
      <4> QED BY <2>1, <3>1, <4>1, <1>2, <1>3, PyEqualIsEquality1
    <3>2. CASE ~ IsSelf(FieldsOf(v.c)[i])
      BY <2>1, <3>2
    <3> QED BY <3>1, <3>2
  <2> QED BY <1>1, <2>1, <2>2, SameComponents
<1>5. ASSUME v = w PROVE PyEqual2(v, w)
  <2>1. \A i \in DOMAIN v.args : IsSelf(FieldsOf(v.c)[i]) => PyEqual1(v.args[i], v.args[i])
    BY <1>2, PyEqualIsEquality1
  <2> QED BY <1>5, <2>1 DEF PyEqual2, SameTuple
<1> QED BY <1>4, <1>5

LEMMA PyEqualIsEquality3 ==
  ASSUME Distinct, NEW v \in PyValues3, NEW w \in PyValues3
  PROVE  PyEqual3(v, w) <=> v = w
<1>1. v \in Applications(PyValues2) /\ w \in Applications(PyValues2)
  BY DEF PyValues3
<1>2. \A i \in DOMAIN v.args : IsSelf(FieldsOf(v.c)[i]) => v.args[i] \in PyValues2
  BY <1>1, SelfArgumentsOf
<1>3. \A i \in DOMAIN w.args : IsSelf(FieldsOf(w.c)[i]) => w.args[i] \in PyValues2
  BY <1>1, SelfArgumentsOf
<1>4. ASSUME PyEqual3(v, w) PROVE v = w
  <2>1. /\ DOMAIN v.args = DOMAIN w.args
        /\ \A i \in DOMAIN v.args : /\ FieldsOf(v.c)[i].typ = FieldsOf(w.c)[i].typ
                                    /\ IF IsSelf(FieldsOf(v.c)[i]) THEN PyEqual2(v.args[i], w.args[i])
                                       ELSE v.args[i] = w.args[i]
    BY <1>4 DEF PyEqual3, SameTuple
  <2>2. \A i \in DOMAIN v.args : v.args[i] = w.args[i]
    <3> SUFFICES ASSUME NEW i \in DOMAIN v.args PROVE v.args[i] = w.args[i]
      OBVIOUS
    <3>1. CASE IsSelf(FieldsOf(v.c)[i])
      <4>1. IsSelf(FieldsOf(w.c)[i])
        BY <2>1, <3>1 DEF IsSelf
      <4> QED BY <2>1, <3>1, <4>1, <1>2, <1>3, PyEqualIsEquality2
    <3>2. CASE ~ IsSelf(FieldsOf(v.c)[i])
      BY <2>1, <3>2
    <3> QED BY <3>1, <3>2
  <2> QED BY <1>1, <2>1, <2>2, SameComponents
<1>5. ASSUME v = w PROVE PyEqual3(v, w)
  <2>1. \A i \in DOMAIN v.args : IsSelf(FieldsOf(v.c)[i]) => PyEqual2(v.args[i], v.args[i])
    BY <1>2, PyEqualIsEquality2
  <2> QED BY <1>5, <2>1 DEF PyEqual3, SameTuple
<1> QED BY <1>4, <1>5

LEMMA PyEqualIsEquality4 ==
  ASSUME Distinct, NEW v \in PyValues4, NEW w \in PyValues4
  PROVE  PyEqual(v, w) <=> v = w
<1>1. v \in Applications(PyValues3) /\ w \in Applications(PyValues3)
  BY DEF PyValues4
<1>2. \A i \in DOMAIN v.args : IsSelf(FieldsOf(v.c)[i]) => v.args[i] \in PyValues3
  BY <1>1, SelfArgumentsOf
<1>3. \A i \in DOMAIN w.args : IsSelf(FieldsOf(w.c)[i]) => w.args[i] \in PyValues3
  BY <1>1, SelfArgumentsOf
<1>4. ASSUME PyEqual(v, w) PROVE v = w
  <2>1. /\ DOMAIN v.args = DOMAIN w.args
        /\ \A i \in DOMAIN v.args : /\ FieldsOf(v.c)[i].typ = FieldsOf(w.c)[i].typ
                                    /\ IF IsSelf(FieldsOf(v.c)[i]) THEN PyEqual3(v.args[i], w.args[i])
                                       ELSE v.args[i] = w.args[i]
    BY <1>4 DEF PyEqual, SameTuple
  <2>2. \A i \in DOMAIN v.args : v.args[i] = w.args[i]
    <3> SUFFICES ASSUME NEW i \in DOMAIN v.args PROVE v.args[i] = w.args[i]
      OBVIOUS
    <3>1. CASE IsSelf(FieldsOf(v.c)[i])
      <4>1. IsSelf(FieldsOf(w.c)[i])
        BY <2>1, <3>1 DEF IsSelf
      <4> QED BY <2>1, <3>1, <4>1, <1>2, <1>3, PyEqualIsEquality3
    <3>2. CASE ~ IsSelf(FieldsOf(v.c)[i])
      BY <2>1, <3>2
    <3> QED BY <3>1, <3>2
  <2> QED BY <1>1, <2>1, <2>2, SameComponents
<1>5. ASSUME v = w PROVE PyEqual(v, w)
  <2>1. \A i \in DOMAIN v.args : IsSelf(FieldsOf(v.c)[i]) => PyEqual3(v.args[i], v.args[i])
    BY <1>2, PyEqualIsEquality3
  <2> QED BY <1>5, <2>1 DEF PyEqual, SameTuple
<1> QED BY <1>4, <1>5

-----------------------------------------------------------------------------
(* Interpretations *)

TypesInterpreted(I) ==
  /\ DOMAIN I = DOMAIN Uninterpreted
  /\ DOMAIN I.ctype = AdtElements /\ TypeAxioms(I)
ConstructorsInterpreted(I) ==
  /\ TypesInterpreted(I)
  /\ DOMAIN I.table \subseteq Applications(AdtElements) /\ \A t \in DOMAIN I.table : I.table[t] \in AdtElements
  /\ TableAxioms(I)
  /\ \A c \in Tags : I.decons[c] \in [AdtElements -> ArgumentsOf(c, AdtElements)] /\ DeconstructorAxioms(I, c, I.decons[c])
BoxesInterpreted(I) ==
  /\ ConstructorsInterpreted(I)
  /\ I.box \in [AdtElements -> Refs] /\ I.unbox \in [Refs -> AdtElements] /\ DOMAIN I.typeof = Refs
  /\ BoxAxioms(I) /\ UnboxAxioms(I)

\* Each element is of exactly one constructor.
LEMMA OneTag ==
  ASSUME NEW I, TypesInterpreted(I), NEW x \in AdtElements
  PROVE  TagOf(I, x) \in Tags /\ \A c \in Tags : c \in I.is[x] <=> c = TagOf(I, x)
<1>1. PICK d \in Tags : I.ctype[x] = I.const[d]
  BY DEF TypesInterpreted, TypeAxioms, ConstrainConsType
<1>2. \A c \in Tags : c \in I.is[x] <=> I.ctype[x] = I.const[c]
  BY DEF TypesInterpreted, TypeAxioms, AssociateWithBool
<1>3. \A c \in Tags : c \in I.is[x] <=> c = d
  BY <1>1, <1>2 DEF TypesInterpreted, TypeAxioms, ConstructorTypes
<1>4. TagOf(I, x) \in Tags /\ TagOf(I, x) \in I.is[x]
  BY <1>3 DEF TagOf
<1> QED BY <1>3, <1>4

\* The components of an element are those of its constructor.
LEMMA ComponentsAreTyped ==
  ASSUME AdtHere, NEW I, ConstructorsInterpreted(I), NEW x \in AdtElements, NEW i \in DOMAIN FieldsOf(TagOf(I, x))
  PROVE  /\ Component(I, x, i) \in ValuesOf(FieldsOf(TagOf(I, x))[i].typ, AdtElements)
         /\ IsSelf(FieldsOf(TagOf(I, x))[i]) => Component(I, x, i) \in AdtElements
<1>1. TagOf(I, x) \in Tags
  BY OneTag DEF ConstructorsInterpreted
<1>2. I.decons[TagOf(I, x)][x] \in ArgumentsOf(TagOf(I, x), AdtElements)
  BY <1>1 DEF ConstructorsInterpreted
<1>3. Component(I, x, i) \in ValuesOf(FieldsOf(TagOf(I, x))[i].typ, AdtElements)
  BY <1>2 DEF ArgumentsOf, Component
<1>4. ASSUME IsSelf(FieldsOf(TagOf(I, x))[i]) PROVE Component(I, x, i) \in AdtElements
  <2>1. FieldsOf(TagOf(I, x))[i].typ = "self"
    BY <1>4 DEF IsSelf
  <2> QED BY <1>3, <2>1, FieldValues
<1> QED BY <1>3, <1>4

\* An element with fields is the application of its constructor to its components.
LEMMA ElementsAreConstructed ==
  ASSUME NEW I, ConstructorsInterpreted(I), NEW x \in AdtElements, FieldsOf(TagOf(I, x)) # <<>>
  PROVE  LET t == [c |-> TagOf(I, x), args |-> I.decons[TagOf(I, x)][x]]
         IN  t \in DOMAIN I.table /\ I.table[t] = x
<1>1. TagOf(I, x) \in Tags /\ TagOf(I, x) \in I.is[x]
  BY OneTag DEF ConstructorsInterpreted
<1>2. ConstructorsOverDeconstructors(I, TagOf(I, x), I.decons[TagOf(I, x)])
  BY <1>1 DEF ConstructorsInterpreted, DeconstructorAxioms
<1>3. x \in DOMAIN I.decons[TagOf(I, x)]
  BY <1>1 DEF ConstructorsInterpreted
<1> QED BY <1>1, <1>2, <1>3 DEF ConstructorsOverDeconstructors

\* The application of a constructor is of that constructor, and has its arguments.
LEMMA ApplicationsAreTaken ==
  ASSUME NEW I, ConstructorsInterpreted(I), NEW t \in DOMAIN I.table, I.table[t] \in AdtElements
  PROVE  TagOf(I, I.table[t]) = t.c /\ I.decons[t.c][I.table[t]] = t.args
<1>1. t.c \in Tags
  BY ApplicationParts DEF ConstructorsInterpreted
<1>2. I.ctype[I.table[t]] = I.const[t.c]
  BY DEF ConstructorsInterpreted, TableAxioms, AssociateWithConst
<1>3. t.c \in I.is[I.table[t]]
  BY <1>1, <1>2 DEF ConstructorsInterpreted, TypesInterpreted, TypeAxioms, AssociateWithBool
<1>4. TagOf(I, I.table[t]) = t.c
  BY <1>1, <1>3, OneTag DEF ConstructorsInterpreted
<1>5. I.decons[t.c][I.table[t]] = t.args
  BY <1>1 DEF ConstructorsInterpreted, DeconstructorAxioms, DeconstructorsOverConstructors
<1> QED BY <1>4, <1>5

-----------------------------------------------------------------------------
(* Meanings *)

IsPartOf(m, n) == DOMAIN m \subseteq DOMAIN n /\ \A x \in DOMAIN m : m[x] = n[x]

LEMMA MeaningsGrow ==
  ASSUME NEW I, NEW m, NEW n, IsPartOf(m, n)
  PROVE  IsPartOf(MadeOf(I, m), MadeOf(I, n))
<1>1. Grounded(I, m) \subseteq Grounded(I, n)
  BY DEF Grounded, IsPartOf
<1>2. ASSUME NEW x \in Grounded(I, m) PROVE MadeOf(I, m)[x] = MadeOf(I, n)[x]
  <2> DEFINE fields == FieldsOf(TagOf(I, x))
  <2>1. \A i \in DOMAIN fields : IsSelf(fields[i]) => m[Component(I, x, i)] = n[Component(I, x, i)]
    BY <1>2 DEF Grounded, IsPartOf
  <2>2. [i \in DOMAIN fields |-> IF IsSelf(fields[i]) THEN m[Component(I, x, i)] ELSE Component(I, x, i)]
          = [i \in DOMAIN fields |-> IF IsSelf(fields[i]) THEN n[Component(I, x, i)] ELSE Component(I, x, i)]
    BY <2>1
  <2>3. x \in Grounded(I, n)
    BY <1>1
  <2> QED BY <2>2, <2>3 DEF MadeOf
<1> QED BY <1>1, <1>2 DEF IsPartOf, MadeOf

\* What an element stands for is made of what its components stand for.
LEMMA MeaningsAreMadeOfMeanings ==
  ASSUME NEW I
  PROVE  IsPartOf(Meanings(I), MadeOf(I, Meanings(I)))
<1> DEFINE m1 == MadeOf(I, NoMeaning)
           m2 == MadeOf(I, m1)
           m3 == MadeOf(I, m2)
<1>1. IsPartOf(NoMeaning, m1)
  BY DEF IsPartOf, NoMeaning
<1> HIDE DEF m1
<1>2. IsPartOf(m1, m2)
  BY <1>1, MeaningsGrow DEF m1
<1> HIDE DEF m2
<1>3. IsPartOf(m2, m3)
  BY <1>2, MeaningsGrow DEF m2
<1> HIDE DEF m3
<1>4. IsPartOf(m3, MadeOf(I, m3))
  BY <1>3, MeaningsGrow DEF m3
<1> QED BY <1>4 DEF m1, m2, m3, Meanings

\* One level: elements made of values that are nested in S are applications to these.
LEMMA MadeOfValues ==
  ASSUME AdtHere, NEW I, ConstructorsInterpreted(I), NEW m, NEW S, \A y \in DOMAIN m : m[y] \in S
  PROVE  \A x \in DOMAIN MadeOf(I, m) : MadeOf(I, m)[x] \in Applications(S)
<1> SUFFICES ASSUME NEW x \in Grounded(I, m) PROVE MadeOf(I, m)[x] \in Applications(S)
  BY DEF MadeOf
<1> DEFINE c == TagOf(I, x)
           args == [i \in DOMAIN FieldsOf(c) |-> IF IsSelf(FieldsOf(c)[i]) THEN m[Component(I, x, i)] ELSE Component(I, x, i)]
<1>1. x \in AdtElements /\ \A i \in DOMAIN FieldsOf(c) : IsSelf(FieldsOf(c)[i]) => Component(I, x, i) \in DOMAIN m
  BY DEF Grounded
<1>2. c \in Tags
  BY <1>1, OneTag DEF ConstructorsInterpreted
<1>3. ASSUME NEW i \in DOMAIN FieldsOf(c)
      PROVE  args[i] \in ValuesOf(FieldsOf(c)[i].typ, S) /\ args[i] \in Numbers \cup AdtObjects \cup S
  <2>1. CASE IsSelf(FieldsOf(c)[i])
    <3>1. args[i] \in S
      BY <1>1, <2>1
    <3>2. FieldsOf(c)[i].typ = "self"
      BY <2>1 DEF IsSelf
    <3> QED BY <3>1, <3>2, FieldValues
  <2>2. CASE ~ IsSelf(FieldsOf(c)[i])
    <3>1. args[i] = Component(I, x, i)
      BY <2>2
    <3>2. Component(I, x, i) \in ValuesOf(FieldsOf(c)[i].typ, AdtElements)
      BY <1>1, ComponentsAreTyped
    <3>3. ValuesOf(FieldsOf(c)[i].typ, AdtElements) = ValuesOf(FieldsOf(c)[i].typ, S)
          /\ ValuesOf(FieldsOf(c)[i].typ, S) \subseteq Numbers \cup AdtObjects
      BY <1>2, <2>2, OtherFieldValues
    <3> QED BY <3>1, <3>2, <3>3
  <2> QED BY <2>1, <2>2
<1>4. args \in ArgumentsOf(c, S)
  BY <1>3 DEF ArgumentsOf
<1>5. MadeOf(I, m)[x] = [c |-> c, args |-> args]
  BY DEF MadeOf
<1> HIDE DEF c, args
<1> QED BY <1>2, <1>4, <1>5, IsApplication

LEMMA MeaningsAreValues ==
  ASSUME AdtHere, NEW I, ConstructorsInterpreted(I)
  PROVE  DOMAIN Meanings(I) \subseteq AdtElements /\ \A x \in DOMAIN Meanings(I) : Meanings(I)[x] \in PyValues3
<1> DEFINE m1 == MadeOf(I, NoMeaning)
           m2 == MadeOf(I, m1)
           m3 == MadeOf(I, m2)
<1>1. \A x \in DOMAIN NoMeaning : NoMeaning[x] \in {}
  BY DEF NoMeaning
<1>2. \A x \in DOMAIN m1 : m1[x] \in PyValues1
  BY <1>1, MadeOfValues DEF PyValues1
<1> HIDE DEF m1
<1>3. \A x \in DOMAIN m2 : m2[x] \in PyValues2
  BY <1>2, MadeOfValues DEF PyValues2
<1> HIDE DEF m2
<1>4. \A x \in DOMAIN m3 : m3[x] \in PyValues3
  BY <1>3, MadeOfValues DEF PyValues3
<1>5. DOMAIN m3 \subseteq AdtElements
  BY DEF MadeOf, Grounded
<1> QED BY <1>4, <1>5 DEF m1, m2, Meanings

-----------------------------------------------------------------------------
(* Different elements stand for different values, if all constructors have   *)
(* fields                                                                     *)

TellsApart(m) == \A x, y \in DOMAIN m : m[x] = m[y] => x = y

LEMMA MadeOfTellsApart ==
  ASSUME AdtHere, NEW I, ConstructorsInterpreted(I), Decided, NEW m, TellsApart(m)
  PROVE  TellsApart(MadeOf(I, m))
<1> SUFFICES ASSUME NEW x \in Grounded(I, m), NEW y \in Grounded(I, m), MadeOf(I, m)[x] = MadeOf(I, m)[y]
             PROVE  x = y
  BY DEF TellsApart, MadeOf
<1> DEFINE args(z) == [i \in DOMAIN FieldsOf(TagOf(I, z)) |->
                         IF IsSelf(FieldsOf(TagOf(I, z))[i]) THEN m[Component(I, z, i)] ELSE Component(I, z, i)]
<1>1. x \in AdtElements /\ y \in AdtElements
  BY DEF Grounded
<1>2. TagOf(I, x) = TagOf(I, y) /\ args(x) = args(y)
  BY DEF MadeOf
<1>3. TagOf(I, x) \in Tags
  BY <1>1, OneTag DEF ConstructorsInterpreted
<1>4. ASSUME NEW i \in DOMAIN FieldsOf(TagOf(I, x)) PROVE Component(I, x, i) = Component(I, y, i)
  <2>1. args(x)[i] = args(y)[i]
    BY <1>2
  <2>2. CASE IsSelf(FieldsOf(TagOf(I, x))[i])
    <3>1. m[Component(I, x, i)] = m[Component(I, y, i)]
      BY <1>2, <2>1, <2>2
    <3>2. Component(I, x, i) \in DOMAIN m /\ Component(I, y, i) \in DOMAIN m
      BY <1>2, <2>2 DEF Grounded
    <3> QED BY <3>1, <3>2 DEF TellsApart
  <2>3. CASE ~ IsSelf(FieldsOf(TagOf(I, x))[i])
    BY <1>2, <2>1, <2>3
  <2> QED BY <2>2, <2>3
<1>5. I.decons[TagOf(I, x)][x] = I.decons[TagOf(I, y)][y]
  <2>1. I.decons[TagOf(I, x)][x] \in ArgumentsOf(TagOf(I, x), AdtElements)
    BY <1>1, <1>3 DEF ConstructorsInterpreted
  <2>2. I.decons[TagOf(I, x)][y] \in ArgumentsOf(TagOf(I, x), AdtElements)
    BY <1>1, <1>3 DEF ConstructorsInterpreted
  <2>3. \A i \in DOMAIN FieldsOf(TagOf(I, x)) : I.decons[TagOf(I, x)][x][i] = I.decons[TagOf(I, x)][y][i]
    BY <1>2, <1>4 DEF Component
  <2> QED BY <1>2, <2>1, <2>2, <2>3 DEF ArgumentsOf
<1>6. FieldsOf(TagOf(I, x)) # <<>>
  BY <1>3 DEF Decided
<1>7. I.table[[c |-> TagOf(I, x), args |-> I.decons[TagOf(I, x)][x]]] = x
  BY <1>1, <1>6, ElementsAreConstructed
<1>8. I.table[[c |-> TagOf(I, y), args |-> I.decons[TagOf(I, y)][y]]] = y
  BY <1>1, <1>2, <1>6, ElementsAreConstructed
<1>9. TagOf(I, x) = TagOf(I, y)
  BY <1>2
<1> QED BY <1>5, <1>7, <1>8, <1>9

LEMMA MeaningsTellApart ==
  ASSUME AdtHere, NEW I, ConstructorsInterpreted(I), Decided
  PROVE  TellsApart(Meanings(I))
<1> DEFINE m1 == MadeOf(I, NoMeaning)
           m2 == MadeOf(I, m1)
           m3 == MadeOf(I, m2)
<1>1. TellsApart(NoMeaning)
  BY DEF NoMeaning, TellsApart
<1>2. TellsApart(m1)
  BY <1>1, MadeOfTellsApart
<1> HIDE DEF m1
<1>3. TellsApart(m2)
  BY <1>2, MadeOfTellsApart
<1> HIDE DEF m2
<1>4. TellsApart(m3)
  BY <1>3, MadeOfTellsApart
<1> QED BY <1>4 DEF m1, m2, Meanings

-----------------------------------------------------------------------------
(* What holds in an interpretation is what Python does *)

\* References to values of the type, and what they stand for.
Understood(I, m) == {r \in Refs : HasType(I.typeof[r]) /\ HasMeaning(I, m, r)}

LEMMA BoxesAreReferences ==
  ASSUME NEW I, BoxesInterpreted(I)
  PROVE  /\ \A x \in AdtElements : I.box[x] \in Refs /\ I.unbox[I.box[x]] = x
         /\ \A r \in Refs : HasType(I.typeof[r]) => I.unbox[r] \in AdtElements /\ I.box[I.unbox[r]] = r
BY DEF BoxesInterpreted, UnboxAxioms, UnboxOfBox, UnboxFunction

\* isinstance and the fields after a cast (expression.py translate_adt_decons).
LEMMA Inspects ==
  ASSUME AdtHere, NEW I, BoxesInterpreted(I), NEW m, m = Meanings(I), NEW env \in [Known -> Understood(I, m)],
         NEW py, py = [n \in Known |-> MeaningOf(I, m, env[n])]
  PROVE  InspectsLikePython(I, m, env, py)
<1> SUFFICES ASSUME NEW n \in Known, NEW c \in Tags
             PROVE  /\ (I.typeof[env[n]] = c) <=> (py[n].c = c)
                    /\ py[n].c = c => \A i \in DOMAIN FieldsOf(c) :
                         LET found == TranslateDecons(I, env[n], c, i)
                         IN  IF IsSelf(FieldsOf(c)[i]) THEN HasMeaning(I, m, found) /\ py[n].args[i] = MeaningOf(I, m, found)
                             ELSE py[n].args[i] = found
  BY DEF InspectsLikePython
<1> DEFINE x == I.unbox[env[n]]
<1>1. env[n] \in Refs /\ HasType(I.typeof[env[n]]) /\ x \in DOMAIN m
  BY DEF Understood, HasMeaning
<1>2. x \in AdtElements /\ I.box[x] = env[n]
  BY <1>1, BoxesAreReferences
<1>3. py[n] = m[x]
  BY DEF MeaningOf
<1>4. IsPartOf(m, MadeOf(I, m))
  BY MeaningsAreMadeOfMeanings
<1>5. x \in Grounded(I, m) /\ m[x] = MadeOf(I, m)[x]
  BY <1>1, <1>4 DEF IsPartOf, MadeOf
<1>6. m[x].c = TagOf(I, x)
  BY <1>5 DEF MadeOf
<1>7. c \in I.is[x] <=> c = TagOf(I, x)
  BY <1>2, OneTag DEF BoxesInterpreted, ConstructorsInterpreted
<1>8. c \in I.is[x] <=> I.typeof[env[n]] = c
  BY <1>2 DEF BoxesInterpreted, BoxAxioms, BoxFunction
<1>9. (I.typeof[env[n]] = c) <=> (py[n].c = c)
  BY <1>3, <1>6, <1>7, <1>8
<1>10. ASSUME py[n].c = c, NEW i \in DOMAIN FieldsOf(c)
       PROVE  LET found == TranslateDecons(I, env[n], c, i)
              IN  IF IsSelf(FieldsOf(c)[i]) THEN HasMeaning(I, m, found) /\ py[n].args[i] = MeaningOf(I, m, found)
                  ELSE py[n].args[i] = found
  <2>1. TagOf(I, x) = c
    BY <1>3, <1>6, <1>10
  <2>2. I.decons[c][x][i] = Component(I, x, i)
    BY <2>1 DEF Component
  <2>3. m[x].args[i] = IF IsSelf(FieldsOf(c)[i]) THEN m[Component(I, x, i)] ELSE Component(I, x, i)
    BY <1>5, <2>1 DEF MadeOf
  <2>4. CASE IsSelf(FieldsOf(c)[i])
    <3>1. Component(I, x, i) \in DOMAIN m
      BY <1>5, <2>1, <2>4 DEF Grounded
    <3>2. Component(I, x, i) \in AdtElements
      BY <3>1, MeaningsAreValues DEF BoxesInterpreted
    <3>3. TranslateDecons(I, env[n], c, i) = I.box[Component(I, x, i)]
      BY <2>2, <2>4 DEF TranslateDecons
    <3>4. I.unbox[TranslateDecons(I, env[n], c, i)] = Component(I, x, i)
      BY <3>2, <3>3, BoxesAreReferences
    <3> QED BY <1>3, <2>3, <2>4, <3>1, <3>4 DEF HasMeaning, MeaningOf
  <2>5. CASE ~ IsSelf(FieldsOf(c)[i])
    <3>1. TranslateDecons(I, env[n], c, i) = Component(I, x, i)
      BY <2>2, <2>5 DEF TranslateDecons
    <3> QED BY <1>3, <2>3, <2>5, <3>1
  <2> QED BY <2>4, <2>5
<1> QED BY <1>9, <1>10

LEMMA ConstructionParts ==
  ASSUME NEW e \in Constructions
  PROVE  /\ e.op = "cons" /\ e.c \in Tags /\ DOMAIN e.args = DOMAIN FieldsOf(e.c)
         /\ \A i \in DOMAIN FieldsOf(e.c) : e.args[i] \in Atoms(FieldsOf(e.c)[i])
<1>1. PICK c \in Tags : e \in {[op |-> "cons", c |-> c, args |-> args] : args \in ConsArguments(c)}
  BY DEF Constructions
<1>2. PICK args \in ConsArguments(c) : e = [op |-> "cons", c |-> c, args |-> args]
  BY <1>1
<1> QED BY <1>2 DEF ConsArguments

\* An argument is a variable, if the field is of the type itself, and a value otherwise.
LEMMA ConsOperands ==
  ASSUME NEW e \in Constructions, NEW i \in DOMAIN FieldsOf(e.c)
  PROVE  /\ IsSelf(FieldsOf(e.c)[i]) => \E n \in Known : \A env : Operand(env, e.args[i]) = env[n]
         /\ ~ IsSelf(FieldsOf(e.c)[i]) => /\ e.args[i].v \in ValuesOf(FieldsOf(e.c)[i].typ, {})
                                          /\ \A env : Operand(env, e.args[i]) = e.args[i].v
<1>1. e.args[i] \in Atoms(FieldsOf(e.c)[i])
  BY ConstructionParts
<1>2. CASE IsSelf(FieldsOf(e.c)[i])
  <2>1. PICK n \in Known : e.args[i] = VarExpr(n)
    BY <1>1, <1>2 DEF Atoms
  <2> QED BY <1>2, <2>1 DEF VarExpr, Operand
<1>3. CASE ~ IsSelf(FieldsOf(e.c)[i])
  <2>1. PICK v \in ValuesOf(FieldsOf(e.c)[i].typ, {}) : e.args[i] = ValExpr(v)
    BY <1>1, <1>3 DEF Atoms
  <2> QED BY <1>3, <2>1 DEF ValExpr, Operand
<1> QED BY <1>2, <1>3

\* What a construction applies a constructor to stands for what Python applies it to.
LEMMA ArgumentsMeanOperands ==
  ASSUME NEW I, NEW m, NEW env \in [Known -> Understood(I, m)], NEW e \in Constructions,
         NEW py, py = [n \in Known |-> MeaningOf(I, m, env[n])], NEW i \in DOMAIN FieldsOf(e.c)
  PROVE  IF IsSelf(FieldsOf(e.c)[i])
         THEN Application(I, env, e).args[i] \in DOMAIN m /\ m[Application(I, env, e).args[i]] = PyCons(py, e).args[i]
         ELSE Application(I, env, e).args[i] = PyCons(py, e).args[i]
<1>1. PyCons(py, e).args[i] = Operand(py, e.args[i])
  BY DEF PyCons
<1>2. CASE IsSelf(FieldsOf(e.c)[i])
  <2>1. PICK n \in Known : \A vs : Operand(vs, e.args[i]) = vs[n]
    BY <1>2, ConsOperands
  <2>2. Operand(env, e.args[i]) = env[n] /\ Operand(py, e.args[i]) = py[n]
    BY <2>1
  <2>3. Application(I, env, e).args[i] = I.unbox[env[n]]
    BY <1>2, <2>2 DEF Application
  <2>4. I.unbox[env[n]] \in DOMAIN m /\ py[n] = m[I.unbox[env[n]]]
    BY DEF Understood, HasMeaning, MeaningOf
  <2> QED BY <1>1, <1>2, <2>2, <2>3, <2>4
<1>3. CASE ~ IsSelf(FieldsOf(e.c)[i])
  <2>1. Operand(env, e.args[i]) = Operand(py, e.args[i])
    BY <1>3, ConsOperands
  <2>2. Application(I, env, e).args[i] = Operand(env, e.args[i])
    BY <1>3 DEF Application
  <2> QED BY <1>1, <1>3, <2>1, <2>2
<1> QED BY <1>2, <1>3

\* What an element of the constructor with these components stands for.
LEMMA ConstructedMeaning ==
  ASSUME NEW I, NEW m, m = Meanings(I), NEW env \in [Known -> Understood(I, m)], NEW e \in Constructions,
         NEW py, py = [n \in Known |-> MeaningOf(I, m, env[n])], NEW y \in DOMAIN m,
         TagOf(I, y) = e.c, I.decons[e.c][y] = Application(I, env, e).args
  PROVE  m[y] = PyCons(py, e)
<1> DEFINE args == [i \in DOMAIN FieldsOf(e.c) |-> IF IsSelf(FieldsOf(e.c)[i]) THEN m[Component(I, y, i)] ELSE Component(I, y, i)]
<1>1. IsPartOf(m, MadeOf(I, m))
  BY MeaningsAreMadeOfMeanings
<1>2. y \in Grounded(I, m) /\ m[y] = MadeOf(I, m)[y]
  BY <1>1 DEF IsPartOf, MadeOf
<1>3. m[y] = [c |-> e.c, args |-> args]
  BY <1>2 DEF MadeOf
<1>4. \A i \in DOMAIN FieldsOf(e.c) : args[i] = PyCons(py, e).args[i]
  <2> SUFFICES ASSUME NEW i \in DOMAIN FieldsOf(e.c) PROVE args[i] = PyCons(py, e).args[i]
    OBVIOUS
  <2>1. Component(I, y, i) = Application(I, env, e).args[i]
    BY DEF Component
  <2> QED BY <2>1, ArgumentsMeanOperands
<1>5. PyCons(py, e) = [c |-> e.c, args |-> [i \in DOMAIN FieldsOf(e.c) |-> PyCons(py, e).args[i]]]
  BY DEF PyCons
<1> QED BY <1>3, <1>4, <1>5

\* Construction (call.py translate_adt_cons).
LEMMA Constructs ==
  ASSUME NEW I, BoxesInterpreted(I), NEW m, m = Meanings(I), NEW env \in [Known -> Understood(I, m)],
         NEW py, py = [n \in Known |-> MeaningOf(I, m, env[n])]
  PROVE  ConstructsLikePython(I, m, env, py)
<1> SUFFICES ASSUME NEW e \in Constructions, IsPresent(I, env, e), HasMeaning(I, m, TranslateCons(I, env, e))
             PROVE  MeaningOf(I, m, TranslateCons(I, env, e)) = PyCons(py, e)
  BY DEF ConstructsLikePython
<1> DEFINE t == Application(I, env, e)
           y == I.table[t]
<1>1. e.op = "cons"
  BY ConstructionParts
<1>2. t \in DOMAIN I.table /\ y \in AdtElements
  BY <1>1 DEF IsPresent, BoxesInterpreted, ConstructorsInterpreted
<1>3. I.unbox[TranslateCons(I, env, e)] = y
  BY <1>2, BoxesAreReferences DEF TranslateCons
<1>4. y \in DOMAIN m
  BY <1>3 DEF HasMeaning
<1>5. t.c = e.c
  BY DEF Application
<1>6. TagOf(I, y) = e.c /\ I.decons[e.c][y] = t.args
  BY <1>2, <1>5, ApplicationsAreTaken DEF BoxesInterpreted
<1>7. m[y] = PyCons(py, e)
  BY <1>4, <1>6, ConstructedMeaning
<1> QED BY <1>3, <1>7 DEF MeaningOf

\* The tuple a construction makes in Python is one of Python's values.
LEMMA PyConsIsAValue ==
  ASSUME AdtHere, NEW py, NEW e \in Constructions, \A n \in Known : py[n] \in PyValues3
  PROVE  PyCons(py, e) \in PyValues4
<1> DEFINE args == [i \in DOMAIN FieldsOf(e.c) |-> Operand(py, e.args[i])]
<1>1. e.c \in Tags
  BY ConstructionParts
<1>2. ASSUME NEW i \in DOMAIN FieldsOf(e.c)
      PROVE  args[i] \in ValuesOf(FieldsOf(e.c)[i].typ, PyValues3) /\ args[i] \in Numbers \cup AdtObjects \cup PyValues3
  <2>1. CASE IsSelf(FieldsOf(e.c)[i])
    <3>1. args[i] \in PyValues3
      BY <2>1, ConsOperands
    <3>2. FieldsOf(e.c)[i].typ = "self"
      BY <2>1 DEF IsSelf
    <3> QED BY <3>1, <3>2, FieldValues
  <2>2. CASE ~ IsSelf(FieldsOf(e.c)[i])
    <3>1. args[i] \in ValuesOf(FieldsOf(e.c)[i].typ, {})
      BY <2>2, ConsOperands
    <3>2. /\ ValuesOf(FieldsOf(e.c)[i].typ, {}) = ValuesOf(FieldsOf(e.c)[i].typ, PyValues3)
          /\ ValuesOf(FieldsOf(e.c)[i].typ, {}) \subseteq Numbers \cup AdtObjects
      BY <1>1, <2>2, OtherFieldValues
    <3> QED BY <3>1, <3>2
  <2> QED BY <2>1, <2>2
<1>3. args \in ArgumentsOf(e.c, PyValues3)
  BY <1>2 DEF ArgumentsOf
<1>4. PyCons(py, e) = [c |-> e.c, args |-> args]
  BY DEF PyCons
<1> HIDE DEF args
<1> QED BY <1>1, <1>3, <1>4, IsApplication DEF PyValues4

\* An element that stands for what Python constructs has the components that the
\* translation applies the constructor to.
LEMMA ComponentsAreDetermined ==
  ASSUME AdtHere, NEW I, ConstructorsInterpreted(I), Decided, NEW m, m = Meanings(I),
         NEW env \in [Known -> Understood(I, m)], NEW e \in Constructions,
         NEW py, py = [n \in Known |-> MeaningOf(I, m, env[n])],
         NEW z \in DOMAIN m, m[z] = PyCons(py, e)
  PROVE  TagOf(I, z) = e.c /\ I.decons[e.c][z] = Application(I, env, e).args
<1>1. IsPartOf(m, MadeOf(I, m))
  BY MeaningsAreMadeOfMeanings
<1>2. z \in Grounded(I, m) /\ m[z] = MadeOf(I, m)[z]
  BY <1>1 DEF IsPartOf, MadeOf
<1>3. TagOf(I, z) = e.c
  BY <1>2 DEF MadeOf, PyCons
<1>4. e.c \in Tags /\ z \in AdtElements
  BY <1>2, ConstructionParts DEF Grounded
<1>5. I.decons[e.c][z] \in ArgumentsOf(e.c, AdtElements)
  BY <1>4 DEF ConstructorsInterpreted
<1>6. ASSUME NEW i \in DOMAIN FieldsOf(e.c) PROVE I.decons[e.c][z][i] = Application(I, env, e).args[i]
  <2>1. I.decons[e.c][z][i] = Component(I, z, i)
    BY <1>3 DEF Component
  <2>2. PyCons(py, e).args[i] = IF IsSelf(FieldsOf(e.c)[i]) THEN m[Component(I, z, i)] ELSE Component(I, z, i)
    BY <1>2, <1>3 DEF MadeOf
  <2>3. CASE IsSelf(FieldsOf(e.c)[i])
    <3>1. Application(I, env, e).args[i] \in DOMAIN m /\ m[Application(I, env, e).args[i]] = PyCons(py, e).args[i]
      BY <2>3, ArgumentsMeanOperands
    <3>2. Component(I, z, i) \in DOMAIN m
      BY <1>2, <1>3, <2>3 DEF Grounded
    <3>3. TellsApart(m)
      BY MeaningsTellApart
    <3> QED BY <2>1, <2>2, <2>3, <3>1, <3>2, <3>3 DEF TellsApart
  <2>4. CASE ~ IsSelf(FieldsOf(e.c)[i])
    BY <2>1, <2>2, <2>4, ArgumentsMeanOperands
  <2> QED BY <2>3, <2>4
<1>7. DOMAIN Application(I, env, e).args = DOMAIN FieldsOf(e.c)
      /\ Application(I, env, e).args = [i \in DOMAIN FieldsOf(e.c) |-> Application(I, env, e).args[i]]
  BY DEF Application
<1>8. I.decons[e.c][z] = [i \in DOMAIN FieldsOf(e.c) |-> I.decons[e.c][z][i]]
  BY <1>5 DEF ArgumentsOf
<1> QED BY <1>3, <1>6, <1>7, <1>8

\* Equality with a variable (expression.py _translate_primitive_operation).
LEMMA Compares ==
  ASSUME AdtHere, NEW I, BoxesInterpreted(I), NEW m, m = Meanings(I), NEW env \in [Known -> Understood(I, m)],
         NEW py, py = [n \in Known |-> MeaningOf(I, m, env[n])]
  PROVE  ComparesLikePython(I, env, py)
<1> SUFFICES ASSUME NEW e \in Comparisons, Decided, IsPresent(I, env, e.l)
             PROVE  TranslateEquals(I, env, e) <=> PyEquals(py, e)
  BY DEF ComparesLikePython
<1>1. ConstructorsInterpreted(I)
  BY DEF BoxesInterpreted
<1>2. TellsApart(m) /\ Distinct
  BY <1>1, MeaningsTellApart DEF Decided
<1>3. ASSUME NEW n \in Known
      PROVE  /\ env[n] \in Refs /\ HasType(I.typeof[env[n]]) /\ I.unbox[env[n]] \in DOMAIN m
             /\ py[n] = m[I.unbox[env[n]]] /\ I.box[I.unbox[env[n]]] = env[n] /\ py[n] \in PyValues3
  <2>1. env[n] \in Refs /\ HasType(I.typeof[env[n]]) /\ I.unbox[env[n]] \in DOMAIN m
    BY DEF Understood, HasMeaning
  <2>2. py[n] = m[I.unbox[env[n]]]
    BY DEF MeaningOf
  <2>3. I.box[I.unbox[env[n]]] = env[n]
    BY <2>1, BoxesAreReferences
  <2>4. py[n] \in PyValues3
    BY <1>1, <2>1, <2>2, MeaningsAreValues
  <2> QED BY <2>1, <2>2, <2>3, <2>4
<1>4. PICK n \in Known : e.r = VarExpr(n)
  BY DEF Comparisons, Known
<1>5. TranslateValue(I, env, e.r) = env[n] /\ PyValue(py, e.r) = py[n]
  BY <1>4 DEF TranslateValue, PyValue, VarExpr, Operand
<1> DEFINE z == I.unbox[env[n]]
<1>6. e.l \in Constructions \/ e.l = VarExpr("x")
  BY DEF Comparisons
<1>7. CASE e.l = VarExpr("x")
  <2>1. "x" \in Known
    BY DEF Known
  <2>2. TranslateValue(I, env, e.l) = env["x"] /\ PyValue(py, e.l) = py["x"]
    BY <1>7 DEF TranslateValue, PyValue, VarExpr, Operand
  <2>3. py["x"] \in PyValues4 /\ py[n] \in PyValues4
    BY <1>3, <2>1, PyValuesGrow
  <2>4. PyEqual(py["x"], py[n]) <=> py["x"] = py[n]
    BY <1>2, <2>3, PyEqualIsEquality4
  <2>5. py["x"] = py[n] <=> I.unbox[env["x"]] = I.unbox[env[n]]
    BY <1>2, <1>3, <2>1 DEF TellsApart
  <2>6. env["x"] = env[n] <=> I.unbox[env["x"]] = I.unbox[env[n]]
    BY <1>3, <2>1
  <2> QED BY <1>5, <2>2, <2>4, <2>5, <2>6 DEF TranslateEquals, PyEquals
<1>8. CASE e.l \in Constructions
  <2> DEFINE t == Application(I, env, e.l)
             y == I.table[t]
  <2>1. e.l.op = "cons" /\ t.c = e.l.c
    BY <1>8, ConstructionParts DEF Application
  <2>2. t \in DOMAIN I.table /\ y \in AdtElements
    BY <2>1 DEF IsPresent, BoxesInterpreted, ConstructorsInterpreted
  <2>3. TranslateValue(I, env, e.l) = I.box[y] /\ PyValue(py, e.l) = PyCons(py, e.l)
    BY <2>1 DEF TranslateValue, TranslateCons, PyValue
  <2>4. I.box[y] = env[n] <=> y = z
    BY <1>3, <2>2, BoxesAreReferences
  <2>5. PyEqual(PyCons(py, e.l), py[n]) <=> PyCons(py, e.l) = m[z]
    <3>1. PyCons(py, e.l) \in PyValues4
      BY <1>3, <1>8, PyConsIsAValue
    <3>2. py[n] \in PyValues4
      BY <1>3, PyValuesGrow
    <3> QED BY <1>2, <1>3, <3>1, <3>2, PyEqualIsEquality4
  <2>6. ASSUME y = z PROVE PyCons(py, e.l) = m[z]
    <3>1. TagOf(I, y) = e.l.c /\ I.decons[e.l.c][y] = t.args
      BY <1>1, <2>1, <2>2, ApplicationsAreTaken
    <3>2. y \in DOMAIN m
      BY <1>3, <2>6
    <3>3. m[y] = PyCons(py, e.l)
      BY <1>8, <3>1, <3>2, ConstructedMeaning
    <3> QED BY <2>6, <3>3
  <2>7. ASSUME PyCons(py, e.l) = m[z] PROVE y = z
    <3>1. z \in DOMAIN m
      BY <1>3
    <3>2. TagOf(I, z) = e.l.c /\ I.decons[e.l.c][z] = t.args
      BY <1>1, <1>8, <2>7, <3>1, ComponentsAreDetermined
    <3>3. z \in AdtElements /\ FieldsOf(TagOf(I, z)) # <<>>
      BY <1>1, <1>8, <3>1, <3>2, MeaningsAreValues, ConstructionParts DEF Decided
    <3>4. I.table[[c |-> e.l.c, args |-> t.args]] = z
      BY <1>1, <3>2, <3>3, ElementsAreConstructed
    <3>5. t = [c |-> e.l.c, args |-> t.args]
      BY DEF Application
    <3> QED BY <3>4, <3>5
  <2> QED BY <1>5, <2>3, <2>4, <2>5, <2>6, <2>7 DEF TranslateEquals, PyEquals
<1> QED BY <1>6, <1>7, <1>8

-----------------------------------------------------------------------------
(* Python's named tuples *)

\* The axioms are consistent: Python's values, with themselves as boxes, satisfy them
\* (program.py create_adts_domains_and_functions).
LEMMA PythonModels ==
  ASSUME AdtHere
  PROVE  PythonIsAModel
<1> DEFINE I == PythonsInterpretation
           E == PyValues2
<1>1. \A v \in E : /\ v.c \in Tags /\ v = [c |-> v.c, args |-> v.args]
                   /\ \A i \in DOMAIN FieldsOf(v.c) : v.args[i] \in ValuesOf(FieldsOf(v.c)[i].typ, PyValues1)
  <2> SUFFICES ASSUME NEW v \in Applications(PyValues1)
               PROVE  /\ v.c \in Tags /\ v = [c |-> v.c, args |-> v.args]
                      /\ \A i \in DOMAIN FieldsOf(v.c) : v.args[i] \in ValuesOf(FieldsOf(v.c)[i].typ, PyValues1)
    BY DEF PyValues2
  <2> QED BY ApplicationParts
<1>2. /\ I.const = [c \in Tags |-> c] /\ I.ctype = [v \in E |-> v.c] /\ I.is = [v \in E |-> {v.c}]
      /\ I.table = [v \in E |-> v] /\ I.box = [v \in E |-> v] /\ I.unbox = [v \in E |-> v]
      /\ I.typeof = [v \in E |-> v.c]
      /\ I.decons = [c \in Tags |-> [v \in E |-> IF v.c = c THEN v.args ELSE DefaultOf(c, E)]]
  BY DEF PythonsInterpretation
<1> HIDE DEF I, E
<1>3. TypeAxioms(I)
  BY <1>1, <1>2 DEF TypeAxioms, ConstructorTypes, ConstrainConsType, AssociateWithBool
<1>4. TableAxioms(I)
  <2>1. EqualityAxiom(I)
    BY <1>1, <1>2 DEF EqualityAxiom
  <2>2. AssociateWithConst(I)
    BY <1>1, <1>2 DEF AssociateWithConst
  <2> QED BY <2>1, <2>2 DEF TableAxioms
<1>5. ASSUME NEW c \in Tags PROVE DeconstructorAxioms(I, c, I.decons[c])
  <2>1. I.decons[c] = [v \in E |-> IF v.c = c THEN v.args ELSE DefaultOf(c, E)]
    BY <1>2
  <2>2. DeconstructorsOverConstructors(I, c, I.decons[c])
    BY <1>2, <2>1 DEF DeconstructorsOverConstructors
  <2>3. DeconstructorTypes(c, I.decons[c])
    <3> SUFFICES ASSUME NEW x \in E, NEW i \in DOMAIN FieldsOf(c), FieldsOf(c)[i].typ = "C"
                 PROVE  I.decons[c][x][i] \in AdtObjects
      BY <2>1 DEF DeconstructorTypes
    <3>1. CASE x.c = c
      <4>1. x.args[i] \in ValuesOf("C", PyValues1)
        BY <1>1, <3>1
      <4> QED BY <2>1, <3>1, <4>1, FieldValues
    <3>2. CASE x.c # c
      <4> DEFINE S == ValuesOf(FieldsOf(c)[i].typ, E)
      <4>1. I.decons[c][x][i] = CHOOSE v \in S : TRUE
        <5>1. I.decons[c][x] = DefaultOf(c, E)
          BY <2>1, <3>2
        <5>2. DefaultOf(c, E)[i] = CHOOSE v \in S : TRUE
          BY DEF DefaultOf
        <5> QED BY <5>1, <5>2
      <4>2. S = AdtObjects
        BY FieldValues
      <4> HIDE DEF S
      <4>3. (CHOOSE v \in S : TRUE) \in S
        BY <4>2, AdtAssumption
      <4> QED BY <4>1, <4>2, <4>3
    <3> QED BY <3>1, <3>2
  <2>4. ConstructorsOverDeconstructors(I, c, I.decons[c])
    <3> SUFFICES ASSUME NEW x \in E, c \in I.is[x]
                 PROVE  LET t == [c |-> c, args |-> I.decons[c][x]] IN t \in DOMAIN I.table /\ I.table[t] = x
      BY <2>1 DEF ConstructorsOverDeconstructors
    <3>1. x.c = c
      BY <1>2
    <3>2. [c |-> c, args |-> I.decons[c][x]] = x
      BY <1>1, <2>1, <3>1
    <3> QED BY <1>2, <3>2
  <2> QED BY <2>2, <2>3, <2>4 DEF DeconstructorAxioms
<1>6. BoxAxioms(I)
  <2>1. ConsAreSubclasses(I)
    BY <1>1, <1>2 DEF ConsAreSubclasses
  <2>2. BoxFunction(I)
    BY <1>1, <1>2 DEF BoxFunction, HasType
  <2> QED BY <2>1, <2>2 DEF BoxAxioms
<1>7. UnboxAxioms(I)
  BY <1>2 DEF UnboxAxioms, UnboxOfBox, UnboxFunction
<1>8. ASSUME Distinct, NEW v \in DOMAIN I.is, NEW w \in DOMAIN I.is, PyEqual(v, w) PROVE v = w
  <2>1. v \in PyValues2 /\ w \in PyValues2
    BY <1>2 DEF E
  <2>2. v \in PyValues4 /\ w \in PyValues4
    BY <2>1, PyValuesGrow
  <2> QED BY <1>8, <2>2, PyEqualIsEquality4
<1> QED BY <1>3, <1>4, <1>5, <1>6, <1>7, <1>8 DEF PythonIsAModel, I

-----------------------------------------------------------------------------
(* The invariant: each stage keeps the axioms it has assumed *)

EnumInterpreted(I) ==
  /\ I.box \in [Adt.members -> Refs] /\ EnumBox(I)
AdtInv ==
  /\ task.of = "adt" /\ IsAdt(Adt)
  /\ (IsAt("adt", "written") \/ IsAt("adt", "translated")) => state.I = Uninterpreted
  /\ IsAt("adt", "typed") => TypesInterpreted(state.I)
  /\ IsAt("adt", "constructed") => ConstructorsInterpreted(state.I)
  /\ IsAt("adt", "interpreted") => BoxesInterpreted(state.I)
  /\ IsAt("enum", "interpreted") => EnumInterpreted(state.I)

LEMMA AdtInvSuffices == AdtInv => AlgebraicTypesAreDecidedLikePython
<1> SUFFICES ASSUME AdtInv PROVE AlgebraicTypesAreDecidedLikePython
  OBVIOUS
<1>1. ASSUME IsAt("adt", "translated") PROVE PythonIsAModel
  <2>1. AdtHere
    BY <1>1 DEF AdtInv, IsAt, AdtHere
  <2> QED BY <2>1, PythonModels
<1>2. ASSUME IsAt("adt", "interpreted") PROVE IsPythons(state.I, Meanings(state.I))
  <2>1. AdtHere /\ BoxesInterpreted(state.I)
    BY <1>2 DEF AdtInv, IsAt, AdtHere
  <2> DEFINE I == state.I
             m == Meanings(I)
  <2> HIDE DEF I, m
  <2> SUFFICES ASSUME NEW env \in [Known -> Understood(I, m)]
               PROVE  LET py == [n \in Known |-> MeaningOf(I, m, env[n])]
                      IN  /\ ConstructsLikePython(I, m, env, py) /\ InspectsLikePython(I, m, env, py)
                          /\ ComparesLikePython(I, env, py)
    BY DEF IsPythons, Understood, I, m
  <2> DEFINE py == [n \in Known |-> MeaningOf(I, m, env[n])]
  <2>2. BoxesInterpreted(I) /\ m = Meanings(I)
    BY <2>1 DEF I, m
  <2>3. py = [n \in Known |-> MeaningOf(I, m, env[n])]
    OBVIOUS
  <2> HIDE DEF py
  <2>4. ConstructsLikePython(I, m, env, py)
    BY <2>2, <2>3, Constructs
  <2>5. InspectsLikePython(I, m, env, py)
    BY <2>1, <2>2, <2>3, Inspects
  <2>6. ComparesLikePython(I, env, py)
    BY <2>1, <2>2, <2>3, Compares
  <2> QED BY <2>4, <2>5, <2>6 DEF py
<1>3. ASSUME IsAt("enum", "interpreted") PROVE EnumIsPythons(state.I)
  BY <1>3 DEF AdtInv, EnumInterpreted, EnumBox, EnumIsPythons
<1> QED BY <1>1, <1>2, <1>3 DEF AlgebraicTypesAreDecidedLikePython

LEMMA AdtInvHoldsAtFirst == AdtInit => AdtInv
<1> SUFFICES ASSUME AdtInit PROVE AdtInv
  OBVIOUS
<1>1. PICK i \in DOMAIN AdtTasks : \E a \in AdtTasks[i] :
        task = [of |-> "adt", adt |-> a] /\ state = [at |-> "written", I |-> Uninterpreted]
  BY DEF AdtInit
<1>2. PICK a \in AdtTasks[i] : task = [of |-> "adt", adt |-> a] /\ state = [at |-> "written", I |-> Uninterpreted]
  BY <1>1
<1>3. IsAdt(a)
  BY AdtAssumption
<1>4. IsAdt(Adt)
  BY <1>2, <1>3 DEF Adt
<1> QED BY <1>2, <1>4 DEF AdtInv, IsAt

\* The predicates speak of the task, which does not change, and of the interpretation.
LEMMA InterpretationsArePreserved ==
  ASSUME NEW J, task' = task, state'.I = J
  PROVE  /\ TypesInterpreted(J) => TypesInterpreted(state.I)'
         /\ ConstructorsInterpreted(J) => ConstructorsInterpreted(state.I)'
         /\ BoxesInterpreted(J) => BoxesInterpreted(state.I)'
         /\ EnumInterpreted(J) => EnumInterpreted(state.I)'
<1> USE DEF Tags, Adt, FieldsOf, HasType
<1>1. TypesInterpreted(J) => TypesInterpreted(state.I)'
  BY DEF TypesInterpreted, TypeAxioms, ConstructorTypes, ConstrainConsType, AssociateWithBool
<1>2. ConstructorsInterpreted(J) => ConstructorsInterpreted(state.I)'
  BY <1>1 DEF ConstructorsInterpreted, Applications, ArgumentsOf, TableAxioms, EqualityAxiom, AssociateWithConst,
     DeconstructorAxioms, DeconstructorsOverConstructors, DeconstructorTypes, ConstructorsOverDeconstructors
<1>3. BoxesInterpreted(J) => BoxesInterpreted(state.I)'
  BY <1>2 DEF BoxesInterpreted, BoxAxioms, UnboxAxioms, ConsAreSubclasses, BoxFunction, UnboxOfBox, UnboxFunction
<1>4. EnumInterpreted(J) => EnumInterpreted(state.I)'
  BY DEF EnumInterpreted, EnumBox
<1> QED BY <1>1, <1>2, <1>3, <1>4

LEMMA AdtInvIsKept == AdtInv /\ [AdtNext]_vars => AdtInv'
<1> SUFFICES ASSUME AdtInv, [AdtNext]_vars PROVE AdtInv'
  OBVIOUS
<1>1. CASE CreateDomain
  <2>1. task' = task /\ state'.I = Uninterpreted /\ state'.at \in {"translated", "rejected"}
    BY <1>1 DEF CreateDomain
  <2> QED BY <2>1 DEF AdtInv, IsAt, Adt, IsAdt, Uninterpreted
<1>2. CASE InterpretTypes
  <2>1. IsAt("adt", "translated") /\ state.I = Uninterpreted /\ task' = task
    BY <1>2 DEF InterpretTypes, AdtInv
  <2>2. PICK const \in [Tags -> Tags], ctype \in [AdtElements -> Tags] : \E is \in [AdtElements -> SUBSET Tags] :
          LET I == [state.I EXCEPT !.const = const, !.ctype = ctype, !.is = is]
          IN  TypeAxioms(I) /\ state' = [at |-> "typed", I |-> I]
    BY <1>2 DEF InterpretTypes
  <2>3. PICK is \in [AdtElements -> SUBSET Tags] :
          LET I == [state.I EXCEPT !.const = const, !.ctype = ctype, !.is = is]
          IN  TypeAxioms(I) /\ state' = [at |-> "typed", I |-> I]
    BY <2>2
  <2> DEFINE I == [state.I EXCEPT !.const = const, !.ctype = ctype, !.is = is]
  <2>4. DOMAIN I = DOMAIN Uninterpreted /\ I.ctype = ctype
    BY <2>1 DEF Uninterpreted
  <2>5. TypeAxioms(I) /\ state' = [at |-> "typed", I |-> I]
    BY <2>3
  <2> HIDE DEF I
  <2>6. TypesInterpreted(I)
    BY <2>4, <2>5 DEF TypesInterpreted
  <2>7. TypesInterpreted(state.I)'
    BY <2>1, <2>5, <2>6, InterpretationsArePreserved
  <2> QED BY <2>1, <2>5, <2>7 DEF AdtInv, IsAt, Adt, IsAdt
<1>3. CASE InterpretConstructors
  <2>1. IsAt("adt", "typed") /\ TypesInterpreted(state.I) /\ task' = task
    BY <1>3 DEF InterpretConstructors, AdtInv
  <2>2. PICK results \in [Applications(AdtElements) -> AdtElements \cup {None}] :
          LET applied == {t \in DOMAIN results : results[t] # None}
              T == [state.I EXCEPT !.table = [t \in applied |-> results[t]]]
          IN  /\ TableAxioms(T)
              /\ \E decons \in [Tags -> UNION {Deconstructors(T, c) : c \in Tags}] :
                   /\ \A c \in Tags : decons[c] \in Deconstructors(T, c)
                   /\ state' = [at |-> "constructed", I |-> [T EXCEPT !.decons = decons]]
    BY <1>3 DEF InterpretConstructors
  <2> DEFINE table == [t \in {t \in DOMAIN results : results[t] # None} |-> results[t]]
             T == [state.I EXCEPT !.table = table]
  <2>3. DOMAIN table \subseteq Applications(AdtElements) /\ \A t \in DOMAIN table : table[t] \in AdtElements
    OBVIOUS
  <2>4. PICK decons \in [Tags -> UNION {Deconstructors(T, c) : c \in Tags}] :
          /\ \A c \in Tags : decons[c] \in Deconstructors(T, c)
          /\ state' = [at |-> "constructed", I |-> [T EXCEPT !.decons = decons]]
    BY <2>2
  <2>5. TableAxioms(T)
    BY <2>2
  <2> HIDE DEF table
  <2> DEFINE I == [T EXCEPT !.decons = decons]
  <2>6. /\ DOMAIN I = DOMAIN Uninterpreted /\ I.const = state.I.const /\ I.ctype = state.I.ctype
        /\ I.is = state.I.is /\ I.table = table /\ I.decons = decons
        /\ T.is = state.I.is /\ T.table = table /\ T.ctype = state.I.ctype /\ T.const = state.I.const
    BY <2>1 DEF TypesInterpreted, Uninterpreted
  <2>7. state' = [at |-> "constructed", I |-> I]
    BY <2>4
  <2>8. \A c \in Tags : decons[c] \in [AdtElements -> ArgumentsOf(c, AdtElements)] /\ DeconstructorAxioms(T, c, decons[c])
    BY <2>4 DEF Deconstructors
  <2> HIDE DEF I, T
  <2>9. TypesInterpreted(I)
    BY <2>1, <2>6 DEF TypesInterpreted, TypeAxioms, ConstructorTypes, ConstrainConsType, AssociateWithBool
  <2>10. TableAxioms(I)
    BY <2>5, <2>6 DEF TableAxioms, EqualityAxiom, AssociateWithConst
  <2>11. \A c \in Tags : DeconstructorAxioms(I, c, decons[c])
    BY <2>6, <2>8 DEF DeconstructorAxioms, DeconstructorsOverConstructors, DeconstructorTypes,
                      ConstructorsOverDeconstructors
  <2>12. ConstructorsInterpreted(I)
    BY <2>3, <2>6, <2>8, <2>9, <2>10, <2>11 DEF ConstructorsInterpreted
  <2>13. ConstructorsInterpreted(state.I)'
    BY <2>1, <2>7, <2>12, InterpretationsArePreserved
  <2> QED BY <2>1, <2>7, <2>13 DEF AdtInv, IsAt, Adt, IsAdt
<1>4. CASE InterpretBoxes
  <2>1. IsAt("adt", "constructed") /\ ConstructorsInterpreted(state.I) /\ task' = task
    BY <1>4 DEF InterpretBoxes, AdtInv
  <2>2. PICK typeof \in [Refs -> Tags \cup {AdtClass, OtherClass}], box \in [AdtElements -> Refs] :
          LET B == [state.I EXCEPT !.box = box, !.typeof = typeof]
          IN  /\ BoxAxioms(B)
              /\ \E unbox \in [Refs -> AdtElements] :
                   LET I == [B EXCEPT !.unbox = unbox]
                   IN  UnboxAxioms(I) /\ state' = [at |-> "interpreted", I |-> I]
    BY <1>4 DEF InterpretBoxes
  <2> DEFINE B == [state.I EXCEPT !.box = box, !.typeof = typeof]
  <2>3. PICK unbox \in [Refs -> AdtElements] :
          LET I == [B EXCEPT !.unbox = unbox]
          IN  UnboxAxioms(I) /\ state' = [at |-> "interpreted", I |-> I]
    BY <2>2
  <2> DEFINE I == [B EXCEPT !.unbox = unbox]
  <2>4. BoxAxioms(B) /\ UnboxAxioms(I) /\ state' = [at |-> "interpreted", I |-> I]
    BY <2>2, <2>3
  <2>5. /\ DOMAIN I = DOMAIN Uninterpreted /\ I.const = state.I.const /\ I.ctype = state.I.ctype
        /\ I.is = state.I.is /\ I.table = state.I.table /\ I.decons = state.I.decons
        /\ I.box = box /\ I.unbox = unbox /\ I.typeof = typeof
        /\ B.is = state.I.is /\ B.box = box /\ B.typeof = typeof
    BY <2>1 DEF ConstructorsInterpreted, TypesInterpreted, Uninterpreted
  <2> HIDE DEF I, B
  <2>6. TypesInterpreted(I)
    BY <2>1, <2>5 DEF ConstructorsInterpreted, TypesInterpreted, TypeAxioms, ConstructorTypes, ConstrainConsType,
                      AssociateWithBool
  <2>7. TableAxioms(I) /\ \A c \in Tags : DeconstructorAxioms(I, c, I.decons[c])
    <3>1. TableAxioms(I)
      BY <2>1, <2>5 DEF ConstructorsInterpreted, TableAxioms, EqualityAxiom, AssociateWithConst
    <3>2. ASSUME NEW c \in Tags PROVE DeconstructorAxioms(I, c, I.decons[c])
      <4>1. DeconstructorAxioms(state.I, c, I.decons[c])
        BY <2>1, <2>5 DEF ConstructorsInterpreted
      <4> QED BY <2>5, <4>1 DEF DeconstructorAxioms, DeconstructorsOverConstructors, ConstructorsOverDeconstructors
    <3> QED BY <3>1, <3>2
  <2>8. ConstructorsInterpreted(I)
    BY <2>1, <2>5, <2>6, <2>7 DEF ConstructorsInterpreted
  <2>9. BoxAxioms(I)
    BY <2>4, <2>5 DEF BoxAxioms, ConsAreSubclasses, BoxFunction
  <2>10. BoxesInterpreted(I)
    BY <2>4, <2>5, <2>8, <2>9 DEF BoxesInterpreted
  <2>11. BoxesInterpreted(state.I)'
    BY <2>1, <2>4, <2>10, InterpretationsArePreserved
  <2> QED BY <2>1, <2>4, <2>11 DEF AdtInv, IsAt, Adt, IsAdt
<1>5. CASE InterpretEnum
  <2>1. IsAt("enum", "written") /\ task' = task
    BY <1>5 DEF InterpretEnum
  <2>2. PICK box \in [Adt.members -> Refs], int \in [Refs -> Adt.members \cup {None}], typeof \in [Refs -> {"enum", "other"}] :
          LET I == [box |-> box, int |-> int, typeof |-> typeof]
          IN  EnumBox(I) /\ EnumInt(I) /\ state' = [at |-> "interpreted", I |-> I]
    BY <1>5 DEF InterpretEnum
  <2> DEFINE I == [box |-> box, int |-> int, typeof |-> typeof]
  <2>3. EnumInterpreted(I) /\ state' = [at |-> "interpreted", I |-> I]
    BY <2>2 DEF EnumInterpreted
  <2> HIDE DEF I
  <2>4. EnumInterpreted(state.I)'
    BY <2>1, <2>3, InterpretationsArePreserved
  <2> QED BY <2>1, <2>3, <2>4 DEF AdtInv, IsAt, Adt, IsAdt
<1>6. CASE UNCHANGED vars
  <2>1. task' = task /\ state' = state
    BY <1>6 DEF vars
  <2> DEFINE I == state.I
  <2>2. state'.I = I
    BY <2>1
  <2> HIDE DEF I
  <2>3. /\ TypesInterpreted(I) => TypesInterpreted(state.I)'
        /\ ConstructorsInterpreted(I) => ConstructorsInterpreted(state.I)'
        /\ BoxesInterpreted(I) => BoxesInterpreted(state.I)'
        /\ EnumInterpreted(I) => EnumInterpreted(state.I)'
    BY <2>1, <2>2, InterpretationsArePreserved
  <2> QED BY <2>1, <2>3 DEF AdtInv, IsAt, Adt, IsAdt, Uninterpreted, I
<1> QED BY <1>1, <1>2, <1>3, <1>4, <1>5, <1>6 DEF AdtNext

-----------------------------------------------------------------------------

\* Whatever the type, the numbers, the objects, the elements and the references: the
\* axioms hold of Python's named tuples, and decide construction, isinstance, fields
\* and equality as Python does; a member of an enumeration is its value (program.py
\* create_adts_domains_and_functions, _create_enum_func_box_and_unbox).
THEOREM AlgebraicTypesAreSound == AdtSpec => []AlgebraicTypesAreDecidedLikePython
<1>1. AdtInit => AdtInv
  BY AdtInvHoldsAtFirst
<1>2. AdtInv /\ [AdtNext]_vars => AdtInv'
  BY AdtInvIsKept
<1>3. AdtInv => AlgebraicTypesAreDecidedLikePython
  BY AdtInvSuffices
<1> QED BY <1>1, <1>2, <1>3, PTL DEF AdtSpec
===============================================================================
