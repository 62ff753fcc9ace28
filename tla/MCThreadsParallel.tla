------------------------- MODULE MCThreadsParallel -------------------------
(* Small pools and programs for TLC.                                       *)
EXTENDS ThreadsParallel

NoFault == [kind |-> "none", at |-> 0]
Pool(size, inPool, calls) ==
    [size |-> size, process |-> inPool, fault |-> NoFault, calls |-> calls,
     items |-> 3, chunk |-> 1, team |-> 1]

Faulty(inPool, kind, at) ==
    [Pool(3, inPool, << >>) EXCEPT !.fault = [kind |-> kind, at |-> at]]
TeamPool(size, inPool, team, items, chunk, calls) ==
    [Pool(size, inPool, calls) EXCEPT !.team = team, !.items = items, !.chunk = chunk]

(* Each kernel twice, or with another after it; teams of which the pool's  *)
(* fans are subtrees.                                                      *)
Programs ==
    {Pool(6, TRUE, <<"reduce", "for">>),
     Pool(3, FALSE, <<"team", "dynamic">>),
     [Pool(3, TRUE, <<"dynamic">>) EXCEPT !.items = 7, !.chunk = 2],
     Pool(3, FALSE, <<"graph_ready", "graph">>),
     TeamPool(5, TRUE, 2, 3, 1, <<"team", "for">>),
     TeamPool(4, TRUE, 2, 3, 2, <<"team_dynamic", "for">>)}
    \cup UNION {{Pool(4, inPool, <<"scan", "resize", "fence", "scan", "finalize">>),
                Pool(3, inPool, <<"wake", "sleep", "sleep", "wake", "finalize">>),
                TeamPool(4, inPool, 2, 3, 1, <<"team_reduce", "team_reduce">>)} : inPool \in BOOLEAN}
    \cup {Faulty(inPool, kind, at) : inPool \in BOOLEAN, kind \in {"create", "bind"}, at \in {1, 2}}

(* Teams of three, the second of which is not a subtree. *)
TeamsOfThree == {TeamPool(6, TRUE, 3, 2, 1, <<"team", "for">>)}

(* Row 0 before 1 and 2, and 1 before 2. *)
ThreeRows == [w \in 0..2 |-> CASE w = 0 -> <<1, 2>> [] w = 1 -> <<2>> [] OTHER -> << >>]
Threads == -1..5
=============================================================================
