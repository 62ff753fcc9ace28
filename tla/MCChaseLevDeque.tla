-------------------------- MODULE MCChaseLevDeque --------------------------
(* Small instances of ChaseLevDeque.                                       *)
EXTENDS ChaseLevDeque

CONSTANTS p1, p2

Thieves2 == {p1, p2}
=============================================================================
