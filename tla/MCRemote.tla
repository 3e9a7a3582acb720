------------------------------ MODULE MCRemote ------------------------------
(* Instances of Remote: two client programs.                                *)
EXTENDS Remote
CONSTANTS c1, c2
TwoClients == {c1, c2}
=============================================================================
