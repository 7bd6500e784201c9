----------------------- MODULE MCVerificationService -----------------------
(* Small instances of the verification service for TLC.                    *)
EXTENDS ServicePromise, TLC

CONSTANTS r1, r2, r3, a, b, c1, k1

\* r1 and r2 verify the same document, r3 another one.
SharedToken == (r1 :> a) @@ (r2 :> a) @@ (r3 :> b)
OneToken == (r1 :> a) @@ (r2 :> NoToken)

NoArp == [r \in Requests |-> FALSE]

\* Only r2's program uses obligations.
SomeObligations == [r \in Requests |-> r = r2]

Concurrent == [backend |-> "silicon", viperServer |-> TRUE, sif |-> FALSE, size |-> 8]

ToCarbon == [c \in Configurers |-> [Concurrent EXCEPT !.backend = "carbon"]]
ToDirect16 ==
    [c \in Configurers |-> [Concurrent EXCEPT !.viperServer = FALSE, !.size = 16]]
NoOptions == [c \in Configurers |-> Concurrent]

CancelDocument == [k \in Cancellers |-> a]
CancelEverything == [k \in Cancellers |-> NoToken]

=============================================================================
