---------------------------- MODULE ServerProofs ----------------------------
(***************************************************************************)
(* The replies of the ZeroMQ server, for every set of clients, every mix   *)
(* of files with and without obligations, and every setting.               *)
(***************************************************************************)
EXTENDS ServerLoop, SequenceTheorems, TLAPS

Handling == {"analyze", "encode", "verify", "send"}

\* Who is served, and whose results the two collections hold meanwhile: the
\* error manager keeps the last client's items until the next translation.
OneAtATime ==
    /\ inbox \in Seq(Clients)
    /\ reply \in [Clients -> SUBSET Clients]
    /\ serverPc \in Handling => serving \in Clients
    /\ serverPc \in {"analyze", "encode"} => items = {} /\ response = {}
    /\ serverPc = "verify" => items = {serving} /\ response = {}
    /\ serverPc = "send" => response = {serving}

RepliesInv == OneAtATime /\ RepliesAreOwn

LEMMA RepliesInitially == Init => RepliesInv
BY DEF Init, RepliesInv, OneAtATime, RepliesAreOwn, Handling

LEMMA RepliesStep == RepliesInv /\ [Next]_vars => RepliesInv'
<1> SUFFICES ASSUME RepliesInv, [Next]_vars PROVE RepliesInv'
  OBVIOUS
<1> USE DEF RepliesInv, OneAtATime, RepliesAreOwn, Handling
<1>1. ASSUME NEW c \in Clients, Send(c) PROVE RepliesInv'
  <2>1. inbox' \in Seq(Clients)
    BY <1>1 DEF Send
  <2> QED
    BY <1>1, <2>1 DEF Send
<1>2. CASE Receive
  <2>1. Head(inbox) \in Clients /\ Tail(inbox) \in Seq(Clients)
    BY <1>2, HeadTailProperties DEF Receive
  <2> QED
    BY <1>2, <2>1 DEF Receive, FreshResponse
<1>3. CASE Analyze \/ Raise
  BY <1>3 DEF Analyze, Raise
<1>4. CASE Encode
  BY <1>4 DEF Encode
<1>5. CASE FailTranslation
  BY <1>5 DEF FailTranslation, AnswerFailure
<1>6. CASE Verify
  BY <1>6 DEF Verify
<1>7. CASE Reply
  BY <1>7 DEF Reply
<1>8. CASE UNCHANGED vars
  BY <1>8 DEF vars
<1> QED
  BY <1>1, <1>2, <1>3, <1>4, <1>5, <1>6, <1>7, <1>8 DEF Next, ServerStep

\* No client is ever sent what belongs to another client's file, although one
\* error manager serves them all and is emptied only by the next translation.
THEOREM RepliesStayOwn == Spec => []RepliesAreOwn
<1>1. RepliesInv => RepliesAreOwn
  BY DEF RepliesInv
<1> QED
  BY <1>1, RepliesInitially, RepliesStep, PTL DEF Spec

=============================================================================
