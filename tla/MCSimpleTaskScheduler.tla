----------------------- MODULE MCSimpleTaskScheduler -----------------------
(* Small instances of SimpleTaskScheduler.                                 *)
EXTENDS SimpleTaskScheduler, TLC

CONSTANTS w1, w2

Workers1 == {w1}
Workers2 == {w1, w2}
Actors1  == Workers1 \cup {Main}
Actors2  == Workers2 \cup {Main}
Sym      == Permutations(Workers)
=============================================================================
