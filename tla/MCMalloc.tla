------------------------------ MODULE MCMalloc ------------------------------
(* Instances of Malloc: classes of two and three units.                     *)
EXTENDS Malloc
SomeClasses == <<2, 3>>
=============================================================================
