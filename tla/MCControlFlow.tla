---------------------------- MODULE MCControlFlow ----------------------------
(* Method bodies for TLC: up to Depth compound statements inside each other *)
(* around one leaf; for try and with statements, all of it in a loop as     *)
(* well.  A mark stands before and after every statement, so that one that  *)
(* is skipped or runs twice shows.                                          *)
EXTENDS ControlFlow

CONSTANT Depth

(* A frame is a compound statement with one block left open.  "call" in a  *)
(* name: the try body is a call, the open block is another one; "f": there  *)
(* is a finally-block besides.                                              *)
Loops      == {"while", "for"}
Shields    == {"try", "try_finally", "try_all", "try_catch", "with"}
Calling    == {"call_handler", "call_handler_f", "call_else", "call_else_f",
               "call_finally"}
Own        == {"call_handler_f", "call_else_f"}
Inert      == Loops \cup {"if", "while_else"}
Frames     == Loops \cup Shields \cup Calling
                \cup {"if", "while_else", "return_finally"}

Frame(k, b) ==
  CASE k = "if"             -> If(b, <<Mark>>)
    [] k = "while"          -> While(b, <<Mark>>)
    [] k = "for"            -> For(b, <<Mark>>)
    [] k = "while_else"     -> While(<<Mark>>, b)
    [] k = "try"            -> Try(b, <<Handler("E1", <<Show>>)>>, <<>>, <<>>)
    [] k = "try_finally"    -> Try(b, <<>>, <<>>, <<Mark>>)
    [] k = "try_all"        -> Try(b, <<Handler("E1", <<Show>>),
                                        Handler("Exception", <<Mark>>)>>,
                                   <<Mark>>, <<Mark>>)
    [] k = "try_catch"      -> Try(b, <<Handler("E1", <<Mark>>),
                                        Handler("Exception", <<Mark>>)>>,
                                   <<>>, <<Mark>>)
    [] k = "with"           -> With(b)
    [] k = "call_handler"   -> Try(<<Call>>, <<Handler("E1", b)>>, <<>>, <<>>)
    [] k = "call_handler_f" -> Try(<<Call>>, <<Handler("E1", b)>>, <<>>, <<Mark>>)
    [] k = "call_else"      -> Try(<<Call>>, <<Handler("E1", <<Mark>>)>>, b, <<>>)
    [] k = "call_else_f"    -> Try(<<Call>>, <<Handler("E1", <<Mark>>)>>, b, <<Mark>>)
    [] k = "call_finally"   -> Try(<<Call>>, <<>>, <<>>, b)
    [] k = "return_finally" -> Try(<<Return>>, <<>>, <<>>, b)

RECURSIVE Nest(_, _)
Nest(c, leaf) ==
  <<Mark, IF c = <<>> THEN leaf ELSE Frame(Head(c), Nest(Tail(c), leaf)), Mark>>

Leaves  == {Mark, Call, Raise("E1"), Return, Break, Continue}
Leaving == {Break, Continue}
Plain   == UNION {[1..n -> Frames] : n \in 0..Depth}
InALoop == {<<"while">> \o c : c \in [1..Depth -> Frames \ Inert]}
Chains  == Plain \cup InALoop

(* Python (and visit of Continue) accepts the nesting.                     *)
Accepted(c, leaf) ==
  leaf \in Leaving =>
    \E i \in DOMAIN c :
      /\ c[i] \in Loops
      /\ leaf = Continue =>
           \A j \in i + 1 .. Len(c) : c[j] \notin {"call_finally", "return_finally"}

-----------------------------------------------------------------------------
(* The nestings for which the encoding promises Python's behaviour.  Each   *)
(* restriction is a limit of the encoding that the README explains.         *)

Blocks(c, n) == {i \in 1..n : c[i] \in Shields}

(* Where exceptions are raised: after how many frames, and whether the call *)
(* is protected by a try block of its own as well.                          *)
Sources(c, leaf) ==
  {[depth |-> i - 1, own |-> TRUE] : i \in {j \in DOMAIN c : c[j] \in Calling}}
  \cup (IF leaf.op \in {"call", "raise"}
        THEN {[depth |-> Len(c), own |-> FALSE]} ELSE {})

(* Where return statements are, likewise.                                  *)
Returns(c, leaf) ==
  {[depth |-> i - 1, own |-> TRUE] :
     i \in {j \in DOMAIN c : c[j] = "return_finally"}}
  \cup (IF leaf = Return THEN {[depth |-> Len(c), own |-> FALSE]} ELSE {})

(* The error variable of the innermost block is the only one that is set:   *)
(* the next block must catch everything without reading its own.            *)
ErrorReaches(c, s) ==
  LET bs    == Blocks(c, s.depth)
      outer == IF s.own \/ bs = {} THEN bs ELSE bs \ {Max(bs)}
  IN outer # {} => c[Max(outer)] = "try_catch" /\ \A i \in bs : c[i] # "with"

(* Nothing may leave a handler or else-block whose try has a finally-block. *)
StaysInside(c, leaf) ==
  \A i \in DOMAIN c : c[i] \in Own =>
    /\ leaf \in Leaving => \E j \in i + 1 .. Len(c) : c[j] \in Loops
    /\ \A s \in Sources(c, leaf) \cup Returns(c, leaf) : s.depth < i

(* break and continue stay inside the blocks around their loop, and are not *)
(* written in the else-block of another loop.                               *)
LoopsInside(c, leaf) ==
  leaf \in Leaving =>
    LET inner == {i \in DOMAIN c : c[i] \in Loops}
        loop  == Max(inner)
        bs    == {i \in Blocks(c, Len(c)) : c[i] # "try"}
    IN /\ bs # {} => Max(bs) > loop
       /\ \A i \in bs : c[i] # "with"
       /\ \A i \in loop + 1 .. Len(c) : c[i] # "while_else"

(* A return through a with-block meets no other finally-block.             *)
WithAlone(c, leaf) ==
  \A s \in Returns(c, leaf) :
    LET bs == {i \in Blocks(c, s.depth) : c[i] # "try"}
    IN (\E i \in bs : c[i] = "with") => ~s.own /\ Cardinality(bs) = 1

(* A finally-block that a return passes neither loops nor raises.          *)
ResultKept(c, leaf) ==
  \A i \in DOMAIN c : c[i] = "return_finally" =>
    /\ \A j \in i + 1 .. Len(c) : c[j] \notin Loops \cup {"while_else"}
    /\ \A s \in Sources(c, leaf) : s.depth < i

Encodable(c, leaf) ==
  /\ \A s \in Sources(c, leaf) : ErrorReaches(c, s)
  /\ StaysInside(c, leaf)
  /\ LoopsInside(c, leaf)
  /\ WithAlone(c, leaf)
  /\ ResultKept(c, leaf)

Accepts   == {x \in Chains \X Leaves : Accepted(x[1], x[2])}
Encodables == {Nest(x[1], x[2]) : x \in {y \in Accepts : Encodable(y[1], y[2])}}
Withs     == {Nest(x[1], x[2]) : x \in {y \in Accepts :
                \E i \in DOMAIN y[1] : y[1][i] = "with"}}
=============================================================================
