---------------------------- MODULE MCNetServer ----------------------------
(* Small instances of NetServer.                                           *)
EXTENDS NetServer, TLC

CONSTANTS a, b

Two == {a, b}
OnlyB == {b}
Roles == (a :> {"listen", "accept"}) @@ (b :> {"connect", "resolve", "close"})
=============================================================================
