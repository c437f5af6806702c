-------------------------------- MODULE MCAccess --------------------------------
(* Access for TLC: concurrent calls are interchangeable.                         *)
EXTENDS Access, TLC

CallsAreAlike == Permutations(Request)
================================================================================
