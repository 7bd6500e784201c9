---------------------------- MODULE MCServerLoop ----------------------------
(* Small instances of the ZeroMQ server loop for TLC.                      *)
EXTENDS ServerLoop

CONSTANTS c1, c2, c3

\* c2's file uses obligations, the others do not.
OneUsesObligations == [c \in Clients |-> c = c2]

=============================================================================
