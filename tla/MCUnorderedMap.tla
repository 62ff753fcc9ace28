--------------------------- MODULE MCUnorderedMap --------------------------
(* A small instance of UnorderedMap: blocks of two bits, a map of two that *)
(* rehash may grow to four, two keys that collide and one of another list, *)
(* for which the larger map is searched backwards.                         *)
EXTENDS UnorderedMap, TLC

CONSTANTS t1, t2, k1, k2, k3

Threads2 == {t1, t2}
Keys3    == {k1, k2, k3}
Collide  == {k1 :> 0 @@ k2 :> 0 @@ k3 :> 17}
=============================================================================
