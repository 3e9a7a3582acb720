------------------------------- MODULE MCTcp -------------------------------
(***************************************************************************)
(* A connection for TLC: numbers that wrap within the first bytes.         *)
(***************************************************************************)
EXTENDS Tcp

\* The caller's numbers wrap between its SYN and its second byte, the
\* listener's at its FIN.
Wrapping == [h \in Hosts |-> IF h = Caller THEN SEQ - 2 ELSE SEQ - 1]
=============================================================================
