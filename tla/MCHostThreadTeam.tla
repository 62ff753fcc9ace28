-------------------------- MODULE MCHostThreadTeam --------------------------
(* Small pools and programs for TLC.                                       *)
EXTENDS HostThreadTeam

Range(kind, dynamic, items, chunk) ==
    [kind |-> kind, team |-> 0, dynamic |-> dynamic, items |-> items, chunk |-> chunk,
     body |-> << >>, grows |-> FALSE]
Teams(kind, team, dynamic, items, chunk, body) ==
    [Range(kind, dynamic, items, chunk) EXCEPT !.team = team, !.body = body]
Grown(kernel) == [kernel EXCEPT !.grows = TRUE]

Op0(kind)    == [kind |-> kind, source |-> 0, global |-> FALSE]
Broadcast(s) == [Op0("broadcast") EXCEPT !.source = s]
ScanGlobal   == [Op0("scan") EXCEPT !.global = TRUE]

(* Dynamic schedules with chunks beyond the end, and after another kernel; *)
(* scans before and after the pool is built anew; teams that leave threads *)
(* over, two teams that steal from each other, and a second team kernel.   *)
Small ==
    {[size |-> 3, kernels |-> <<Range("for", TRUE, 7, 2), Range("reduce", TRUE, 3, 1)>>],
     [size |-> 3, kernels |-> <<Range("scan", FALSE, 4, 1), Grown(Range("scan", FALSE, 7, 2)),
                               Range("reduce", FALSE, 7, 2)>>],
     [size |-> 3, kernels |-> <<Range("reduce", FALSE, 3, 1),
                               Teams("reduce", 2, FALSE, 2, 1, <<Op0("scan"), Op0("barrier"), Op0("reduce")>>)>>],
     [size |-> 4, kernels |-> <<Teams("for", 2, TRUE, 3, 1, <<Broadcast(1), ScanGlobal>>)>>],
     [size |-> 4, kernels |-> <<Teams("for", 3, TRUE, 2, 1, <<Broadcast(2), Op0("reduce")>>),
                               Teams("for", 2, TRUE, 3, 2, << >>)>>],
     [size |-> 2, kernels |-> <<Teams("reduce", 1, TRUE, 3, 1, <<Broadcast(0), Op0("reduce"), Op0("scan")>>)>>]}

Threads4  == 0..3
Barriers4 == -1..3
=============================================================================
