--------------------------- MODULE HostThreadTeam ---------------------------
(***************************************************************************)
(* HostThreadTeamData and HostThreadTeamMember under the kernels of the    *)
(* OpenMP back end: parallel_for and parallel_reduce over ranges and over  *)
(* teams, with static and dynamic schedule, and parallel_scan.  The thread *)
(* of pool rank t is t.  The value of a reduction, or of a team collective *)
(* is the set of the contributions that were joined; a contribution is a   *)
(* triple <<sort, rank, item>>.                                            *)
(***************************************************************************)
EXTENDS HostBarrier, RangePolicy, Sequences

CONSTANTS Programs   \* each a pool size and a sequence of kernels

VARIABLES program,   \* which of the Programs runs
          k,         \* number of the kernel, and whether the master is in
          region,    \* its parallel region, "join"ing or "idle"
          th,        \* the locals of each thread
          data,      \* the HostThreadTeamData of each thread
          pool_reduce,   \* pool_reduce_local(): a value and a scan's base
          team_reduce,   \* team_reduce_local(): two values
          global,    \* what team_scan adds to
          result,    \* what a reduction or a scan with total returned
          ran        \* history: how often each item ran, of each team rank

dataVars == <<data, pool_reduce, team_reduce, global>>
hostVars == <<program, k, region>>
vars == <<barrierVars, dataVars, hostVars, th, result, ran>>

Ranks  == 0..(program.size - 1)
Kernel == program.kernels[k]
Pool   == -1                  \* the barrier of the pool; b >= 0 is a team's

(* Memory that nobody has written yet. *)
Garbage == {<<"garbage", 0, 0>>}
Unset   == -9

Item(rank, x) == <<"item", rank, x>>

(* Each item runs once in every member of a team. *)
Runs(kernel) == (0..(Max2(kernel.team, 1) - 1)) \X (0..(kernel.items - 1))
All == {Item(x[1], x[2]) : x \in Runs(Kernel)}
Items(range) == {x \in 0..(Kernel.items - 1) : range[1] <= x /\ x < range[2]}

(* What organize_pool leaves: each thread is its own team. *)
Alone(t, size) ==
    [m_work_range |-> <<-1, -1>>, m_work_end |-> 0, m_work_chunk |-> 0, m_steal_rank |-> 0,
     m_team_base |-> t, m_team_rank |-> 0, m_team_size |-> 1, m_team_alloc |-> 1,
     m_league_rank |-> t, m_league_size |-> size]

Local == [pc |-> "end", range |-> <<0, 0>>, w |-> <<-1, -1>>, j |-> 0, got |-> {}]

(* new HostThreadTeamData and organize_pool, which zeroes the rendezvous   *)
(* memory of the root; that of the other threads is not yet initialized.   *)
Zeroed == [b \in Barriers |-> IF b <= 0 THEN 0 ELSE Unset]
Organized(size) ==
    [data |-> [t \in 0..(size - 1) |-> Alone(t, size)],
     scratch |-> [t \in 0..(size - 1) |-> <<Garbage, Garbage>>],
     step |-> [b \in Barriers |-> [t \in Threads |-> 0]]]

Init ==
    /\ program \in Programs
    /\ k = 0 /\ region = "idle"
    /\ data = Organized(program.size).data
    /\ pool_reduce = Organized(program.size).scratch
    /\ team_reduce = Organized(program.size).scratch
    /\ arrived = Zeroed /\ master = Zeroed /\ released = Zeroed
    /\ step = Organized(program.size).step
    /\ rv = [t \in Threads |-> NoRendezvous]
    /\ th = [t \in Ranks |-> Local]
    /\ global = {} /\ result = {} /\ ran = << >>

-----------------------------------------------------------------------------
(* The master *)

(* execute() up to the parallel region.  resize_thread_data builds new     *)
(* objects if the kernel asks for more scratch memory than they have.      *)
Fork ==
    /\ region # "parallel" /\ k < Len(program.kernels)
    /\ k' = k + 1 /\ UNCHANGED program
    /\ region' = "parallel"
    /\ th' = [t \in Ranks |-> [Local EXCEPT !.pc = "begin"]]
    /\ ran' = [x \in Runs(Kernel') |-> 0]
    /\ result' = {} /\ global' = {}
    /\ IF Kernel'.grows
       THEN /\ data' = Organized(program.size).data
            /\ pool_reduce' = Organized(program.size).scratch
            /\ team_reduce' = Organized(program.size).scratch
            /\ arrived' = Zeroed /\ master' = Zeroed /\ released' = Zeroed
            /\ step' = Organized(program.size).step
       ELSE UNCHANGED <<data, pool_reduce, team_reduce, arrived, master, released, step>>
    /\ UNCHANGED rv

(* The end of the parallel region, and the reduction that follows it. *)
Join ==
    /\ region = "parallel"
    /\ \A t \in Ranks : th[t].pc = "end"
    /\ region' = "joined"
    /\ result' = IF Kernel.kind = "reduce" THEN UNION {pool_reduce[t][1] : t \in Ranks} ELSE result
    /\ UNCHANGED <<barrierVars, dataVars, program, k, th, ran>>

-----------------------------------------------------------------------------
(* Steps of a thread in the parallel region *)

At(t, pc) == th[t].pc = pc
Back(t)   == In(t, "out")     \* not inside of a rendezvous
Goto(t, l) == th' = [th EXCEPT ![t] = l]
Enter(t, b, size, lead) == rv' = [rv EXCEPT ![t] = Rendezvous(b, size, lead)]
PoolRendezvous(t) == Enter(t, Pool, program.size, t = 0)
TeamRendezvous(t, source) ==
    Enter(t, data[t].m_team_base, data[t].m_team_size, data[t].m_team_rank = source)

restBarrier == <<arrived, master, released, step>>

(* if (rendezvous()) rendezvous_release(); with nothing in between. *)
JustRelease(t) ==
    /\ th[t].pc \in {"organized", "work", "run"} /\ In(t, "lead")
    /\ Move(t, "release")
    /\ UNCHANGED <<restBarrier, dataVars, hostVars, th, result, ran>>

(* The next team to steal from, if it fits in the pool, or else the first. *)
NextTeam(d, base) ==
    IF base + d.m_team_alloc + d.m_team_size <= program.size THEN base + d.m_team_alloc ELSE 0

(* chunk_min is (length + max) / max. *)
MaxInt == 2147483647
set_work_partition(d, length, chunk) ==
    LET c    == Max2(chunk, 1 + length \div MaxInt)
        part == CeilDiv(CeilDiv(length, c), d.m_league_size)
    IN [d EXCEPT !.m_work_end = length, !.m_work_chunk = c,
                 !.m_work_range = <<part * d.m_league_rank, part * d.m_league_rank + part>>,
                 !.m_steal_rank = NextTeam(d, d.m_team_base)]

(* get_work_partition, and the chunk of get_work_stealing_chunk. *)
Clip(d, first, second) == <<first * d.m_work_chunk, Min2(second * d.m_work_chunk, d.m_work_end)>>

(* Mutant: the inactive threads of a team policy leave their value alone. *)
InitActive(t) ==
    IF Kernel.kind = "reduce" /\ data[t].m_team_rank >= 0
    THEN pool_reduce' = [pool_reduce EXCEPT ![t] = <<{}, @[2]>>] ELSE UNCHANGED pool_reduce

(* ValueInit::init of the thread's value. *)
InitValue(t) ==
    IF Kernel.kind = "reduce" THEN pool_reduce' = [pool_reduce EXCEPT ![t] = <<{}, @[2]>>]
    ELSE UNCHANGED pool_reduce

(* Mutant: without the rendezvous. *)
PartitionAlone(t) ==
    /\ IF data[t].m_team_rank >= 0
       THEN data' = [data EXCEPT ![t] = set_work_partition(@, Kernel.items, Kernel.chunk)]
       ELSE UNCHANGED data
    /\ UNCHANGED rv

(* Mutant: the threads without a team stay away from the rendezvous. *)
PartitionActive(t) ==
    IF data[t].m_team_rank >= 0
    THEN /\ data' = [data EXCEPT ![t] = set_work_partition(@, Kernel.items, Kernel.chunk)]
         /\ IF Kernel.dynamic THEN PoolRendezvous(t) ELSE UNCHANGED rv
    ELSE UNCHANGED <<data, rv>>

(* "Make sure work partition is set before stealing": the threads without  *)
(* a team take part in the rendezvous, too.                                *)
Partition(t) ==
    /\ IF data[t].m_team_rank >= 0
       THEN data' = [data EXCEPT ![t] = set_work_partition(@, Kernel.items, Kernel.chunk)]
       ELSE UNCHANGED data
    /\ IF Kernel.dynamic THEN PoolRendezvous(t) ELSE UNCHANGED rv

BeginRange(t) ==
    /\ At(t, "begin") /\ Kernel.team = 0 /\ Kernel.kind # "scan"
    /\ Partition(t) /\ InitValue(t)
    /\ Goto(t, [th[t] EXCEPT !.pc = "work"])
    /\ UNCHANGED <<restBarrier, team_reduce, global, hostVars, result, ran>>

(* The test of organize_team that no team is set. *)
NoTeam(t) == data[t] = [Alone(t, program.size) EXCEPT
                           !.m_work_range = data[t].m_work_range, !.m_work_end = data[t].m_work_end,
                           !.m_work_chunk = data[t].m_work_chunk, !.m_steal_rank = data[t].m_steal_rank]

(* The place of a thread among teams of the given size; -1 is its rank if  *)
(* it is left over, or belongs to a team that is not complete.             *)
Place(t, size) ==
    LET league == program.size \div size
        alloc  == program.size \div league
        base   == (t \div alloc) * alloc
    IN [data[t] EXCEPT
          !.m_team_base = base, !.m_team_size = size, !.m_team_alloc = alloc,
          !.m_league_rank = t \div alloc, !.m_league_size = league,
          !.m_team_rank = IF base + size <= program.size /\ t % alloc < size THEN t % alloc ELSE -1]

(* organize_team: the base thread zeroes the rendezvous memory of its team *)
(* before a rendezvous of the pool.  It throws when a team is set.         *)
OrganizeTeam(t) ==
    /\ At(t, "begin") /\ Kernel.team > 0
    /\ Goto(t, [th[t] EXCEPT !.pc = IF NoTeam(t) THEN "organized" ELSE "error"])
    /\ IF NoTeam(t) /\ Kernel.team > 1
       THEN LET d == Place(t, Kernel.team) IN
            /\ data' = [data EXCEPT ![t] = d]
            /\ step' = [step EXCEPT ![d.m_team_base][t] = 0]
            /\ IF d.m_team_base = t
               THEN /\ arrived' = [arrived EXCEPT ![t] = 0]
                    /\ master' = [master EXCEPT ![t] = 0]
                    /\ released' = [released EXCEPT ![t] = 0]
               ELSE UNCHANGED <<arrived, master, released>>
            /\ PoolRendezvous(t)
       ELSE UNCHANGED <<barrierVars, data>>
    /\ UNCHANGED <<pool_reduce, team_reduce, global, hostVars, result, ran>>

BeginTeam(t) ==
    /\ At(t, "organized") /\ Back(t)
    /\ Partition(t) /\ InitValue(t)
    /\ Goto(t, [th[t] EXCEPT !.pc = "work"])
    /\ UNCHANGED <<restBarrier, team_reduce, global, hostVars, result, ran>>

-----------------------------------------------------------------------------
(* get_work_stealing: the leader of a team takes an index for the team.    *)

Leading(t) == data[t].m_team_size = 1 \/ In(t, "lead")

(* Enter it with the given locals. *)
GetWork(t, l) ==
    /\ Goto(t, [l EXCEPT !.pc = "get", !.w = <<-1, -1>>])
    /\ IF data[t].m_team_size = 1 THEN UNCHANGED rv ELSE TeamRendezvous(t, 0)

(* The first call of it, or the one partition of a static schedule.        *)
Work(t) ==
    /\ At(t, "work") /\ Back(t)
    /\ \/ /\ data[t].m_team_rank < 0
          /\ Goto(t, [th[t] EXCEPT !.pc = "leave"])
          /\ UNCHANGED rv
       \/ /\ data[t].m_team_rank >= 0 /\ Kernel.dynamic
          /\ GetWork(t, th[t])
       \/ /\ data[t].m_team_rank >= 0 /\ ~Kernel.dynamic
          /\ LET r == data[t].m_work_range IN
               Goto(t, [th[t] EXCEPT !.pc = "run", !.range = Clip(data[t], r[1], r[2])])
          /\ UNCHANGED rv
    /\ UNCHANGED <<restBarrier, dataVars, hostVars, result, ran>>

(* With the index i, or -1, the thread goes on ... *)
Indexed(t, i) ==
    IF i < 0 THEN [th[t] EXCEPT !.pc = "leave", !.w = <<-1, -1>>]
    ELSE [th[t] EXCEPT !.pc = "run", !.range = Clip(data[t], i, i + 1), !.w = <<-1, -1>>]

(* ... after it has shared it with its team. *)
Took(t, i) ==
    IF data[t].m_team_size = 1 THEN Indexed(t, i)
    ELSE [th[t] EXCEPT !.pc = "share", !.w = <<i, i>>]

(* The own range has nothing left: steal, unless all have been visited. *)
NothingLeft(t) ==
    IF data[t].m_steal_rank # t THEN [th[t] EXCEPT !.pc = "steal", !.w = <<-1, -1>>]
    ELSE Took(t, -1)

TestOwn(t) ==
    /\ At(t, "get") /\ Leading(t)
    /\ Goto(t, IF data[t].m_work_range[1] < data[t].m_work_range[2]
               THEN [th[t] EXCEPT !.pc = "own"] ELSE NothingLeft(t))
    /\ UNCHANGED <<barrierVars, dataVars, hostVars, result, ran>>

(* Compare and exchange of the range of u: w to new.  The first w, which   *)
(* is never a range with work, makes it a query.                           *)
Exchange(u, w, new) ==
    data' = [data EXCEPT ![u].m_work_range = IF @ = w THEN new ELSE @]

(* From [w.first, w.second) to [w.first + 1, w.second). *)
TakeOwn(t) ==
    LET w == th[t].w
        r == data[t].m_work_range
    IN /\ At(t, "own")
       /\ Exchange(t, w, <<w[1] + 1, w[2]>>)
       /\ Goto(t, IF r[1] >= r[2] THEN NothingLeft(t)
                  ELSE IF r = w THEN Took(t, r[1]) ELSE [th[t] EXCEPT !.w = r])
       /\ UNCHANGED <<barrierVars, pool_reduce, team_reduce, global, hostVars, result, ran>>

(* From the end of another team's range: [w.first, w.second) to            *)
(* [w.first, w.second - 1); a range without work is left for the next.     *)
Steal(t) ==
    LET w == th[t].w
        v == data[t].m_steal_rank
        r == data[v].m_work_range
        n == NextTeam(data[t], v)
    IN /\ At(t, "steal")
       /\ \/ /\ r[1] < r[2]
             /\ Exchange(v, w, <<w[1], w[2] - 1>>)
             /\ Goto(t, IF r = w THEN Took(t, r[2] - 1) ELSE [th[t] EXCEPT !.w = r])
          \/ /\ r[1] >= r[2]
             /\ data' = [data EXCEPT ![v].m_work_range = IF @ = w THEN <<w[1], w[2] - 1>> ELSE @,
                                     ![t].m_steal_rank = n]
             /\ Goto(t, IF n # t THEN [th[t] EXCEPT !.w = <<-1, -1>>] ELSE Took(t, -1))
       /\ UNCHANGED <<barrierVars, pool_reduce, team_reduce, global, hostVars, result, ran>>

(* "Must share the work index": the leader stores it and releases the      *)
(* team, whose other members then read it.                                 *)
Share(t) ==
    \/ /\ At(t, "share") /\ In(t, "lead")
       /\ team_reduce' = [team_reduce EXCEPT ![t][1] = {<<"index", 0, th[t].w[1]>>}]
       /\ Move(t, "release")
       /\ Goto(t, Indexed(t, th[t].w[1]))
       /\ UNCHANGED <<restBarrier, data, pool_reduce, global, hostVars, result, ran>>
    \/ /\ At(t, "get") /\ Back(t) /\ data[t].m_team_size > 1
       /\ \E i \in {x[3] : x \in team_reduce[data[t].m_team_base][1]} : Goto(t, Indexed(t, i))
       /\ UNCHANGED <<barrierVars, dataVars, hostVars, result, ran>>

-----------------------------------------------------------------------------
(* Running the functor *)

Contribute(t, items) ==
    LET mine == {Item(data[t].m_team_rank, x) : x \in items} IN
    /\ ran' = [x \in DOMAIN ran |->
                  IF x[1] = data[t].m_team_rank /\ x[2] \in items THEN ran[x] + 1 ELSE ran[x]]
    /\ IF Kernel.kind = "reduce"
       THEN pool_reduce' = [pool_reduce EXCEPT ![t] = <<@[1] \cup mine, @[2]>>]
       ELSE UNCHANGED pool_reduce

(* exec_range, and the loop around it. *)
RunRange(t) ==
    /\ At(t, "run") /\ Back(t) /\ Kernel.team = 0
    /\ Contribute(t, Items(th[t].range))
    /\ IF Kernel.dynamic THEN GetWork(t, th[t])
       ELSE Goto(t, [th[t] EXCEPT !.pc = "leave"]) /\ UNCHANGED rv
    /\ UNCHANGED <<restBarrier, data, team_reduce, global, hostVars, result>>

(* exec_team: the functor is called with a member of the league rank. *)
RunTeam(t) ==
    /\ At(t, "run") /\ Back(t) /\ Kernel.team > 0
    /\ \/ /\ th[t].range[1] < th[t].range[2]
          /\ Contribute(t, {th[t].range[1]})
          /\ Goto(t, [th[t] EXCEPT !.pc = "functor", !.j = 0, !.got = {}])
          /\ UNCHANGED rv
       \/ /\ th[t].range[1] >= th[t].range[2]
          /\ IF Kernel.dynamic THEN GetWork(t, th[t])
             ELSE Goto(t, [th[t] EXCEPT !.pc = "leave"]) /\ UNCHANGED rv
          /\ UNCHANGED <<ran, pool_reduce>>
    /\ UNCHANGED <<restBarrier, data, team_reduce, global, hostVars, result>>

(* Mutant: without the rendezvous between two league ranks. *)
LapTeam(t) ==
    /\ At(t, "functor") /\ th[t].j = Len(Kernel.body)
    /\ Goto(t, [th[t] EXCEPT !.pc = "run", !.range[1] = @ + 1])
    /\ UNCHANGED <<barrierVars, dataVars, hostVars, result, ran>>

(* The functor returns.  "Don't allow team members to lap one another so   *)
(* that they don't overwrite shared memory."                               *)
NextRank(t) ==
    /\ At(t, "functor") /\ th[t].j = Len(Kernel.body)
    /\ Goto(t, [th[t] EXCEPT !.pc = "run", !.range[1] = @ + 1])
    /\ IF th[t].range[1] + 1 < th[t].range[2] THEN TeamRendezvous(t, 0) ELSE UNCHANGED rv
    /\ UNCHANGED <<restBarrier, dataVars, hostVars, result, ran>>

(* disband_team, and the end of the parallel region for this thread. *)
Leave(t) ==
    /\ At(t, "leave") /\ Back(t)
    /\ Goto(t, [Local EXCEPT !.pc = "end"])
    /\ data' = [data EXCEPT ![t].m_team_base = t, ![t].m_team_rank = 0, ![t].m_team_size = 1,
                            ![t].m_team_alloc = 1, ![t].m_league_rank = t,
                            ![t].m_league_size = program.size]
    /\ step' = [step EXCEPT ![data[t].m_team_base][t] = 0]
    /\ UNCHANGED <<arrived, master, released, rv, pool_reduce, team_reduce, global,
                   hostVars, result, ran>>

-----------------------------------------------------------------------------
(* Team collectives: the functor calls those of the kernel's body one      *)
(* after the other, each member with a value of its own.                   *)

Op(t)   == Kernel.body[th[t].j]
Tag(t)  == 10 * th[t].range[1] + th[t].j
Mine(t) == {Item(data[t].m_team_rank, Tag(t))}
Base(t) == data[t].m_team_base

(* What each does before the rendezvous.  A team of one needs none to      *)
(* broadcast or to reduce.                                                 *)
Call(t) ==
    LET l    == [th[t] EXCEPT !.pc = "collect", !.j = @ + 1]
        op   == Kernel.body[l.j]
        mine == {Item(data[t].m_team_rank, Tag(t) + 1)}
    IN /\ At(t, "functor") /\ th[t].j < Len(Kernel.body)
       /\ IF op.kind \in {"broadcast", "reduce"} /\ data[t].m_team_size = 1
          THEN Goto(t, [l EXCEPT !.pc = "functor", !.got = mine]) /\ UNCHANGED rv
          ELSE Goto(t, l) /\ TeamRendezvous(t, op.source)
       /\ team_reduce' =
             CASE op.kind = "reduce" /\ data[t].m_team_rank # 0 -> [team_reduce EXCEPT ![t][1] = mine]
               [] op.kind = "scan" /\ data[t].m_team_rank # 0 -> [team_reduce EXCEPT ![t][2] = mine]
               [] OTHER -> team_reduce
       /\ UNCHANGED <<restBarrier, data, pool_reduce, global, hostVars, result, ran>>

(* What the leader does while the others wait: team_broadcast stores its   *)
(* value, team_reduce joins those of the members, and team_scan gives each *)
(* member the sum of the ones before it and, if asked to, of all that was  *)
(* added to global before.                                                 *)
Lead(t) ==
    LET b    == Base(t)
        team == b..(b + data[t].m_team_size - 1)
        part(u) == IF u = t THEN Mine(t) ELSE team_reduce[u][2]
        old  == IF Op(t).global THEN global ELSE {}
    IN /\ At(t, "collect") /\ In(t, "lead")
       /\ \/ /\ Op(t).kind = "barrier"
             /\ UNCHANGED <<team_reduce, global, th>>
          \/ /\ Op(t).kind = "broadcast"
             /\ team_reduce' = [team_reduce EXCEPT ![b][1] = Mine(t)]
             /\ Goto(t, [th[t] EXCEPT !.got = Mine(t)])
             /\ UNCHANGED global
          \/ /\ Op(t).kind = "reduce"
             /\ LET sum == Mine(t) \cup UNION {team_reduce[u][1] : u \in team \ {t}} IN
                  /\ team_reduce' = [team_reduce EXCEPT ![b][1] = sum]
                  /\ Goto(t, [th[t] EXCEPT !.got = sum])
             /\ UNCHANGED global
          \/ /\ Op(t).kind = "scan"
             /\ team_reduce' = [u \in Ranks |->
                                   IF u \in team
                                   THEN <<old \cup UNION {part(v) : v \in b..(u - 1)}, part(u)>>
                                   ELSE team_reduce[u]]
             /\ global' = IF Op(t).global THEN global \cup UNION {part(v) : v \in team} ELSE global
             /\ UNCHANGED th
       /\ Move(t, "release")
       /\ UNCHANGED <<restBarrier, data, pool_reduce, hostVars, result, ran>>

(* Mutant: the result is read from the member's own memory. *)
ReturnOwn(t) ==
    /\ At(t, "collect") /\ Back(t)
    /\ Goto(t, [th[t] EXCEPT !.pc = "functor", !.got = team_reduce[t][1]])
    /\ UNCHANGED <<barrierVars, dataVars, hostVars, result, ran>>

(* What the call returns, to the leader when it has released the others.   *)
(* The one that broadcasts keeps its value.                                *)
Return(t) ==
    /\ At(t, "collect") /\ Back(t)
    /\ Goto(t, [th[t] EXCEPT !.pc = "functor",
                   !.got = CASE Op(t).kind = "barrier" -> {}
                             [] Op(t).kind = "scan" -> team_reduce[t][1]
                             [] OTHER -> IF rv[t].lead THEN @ ELSE team_reduce[Base(t)][1]])
    /\ UNCHANGED <<barrierVars, dataVars, hostVars, result, ran>>

-----------------------------------------------------------------------------
(* parallel_scan: the sum of each thread's part, the sums before each part *)
(* computed by the root between two rendezvous, and the final pass.        *)

MyItems(t) == {Item(0, x) : x \in Items(WorkRange(Kernel.items, Kernel.chunk, t, program.size))}

BeginScan(t) ==
    /\ At(t, "begin") /\ Kernel.kind = "scan"
    /\ pool_reduce' = [pool_reduce EXCEPT ![t] = <<MyItems(t), @[2]>>]
    /\ PoolRendezvous(t)
    /\ Goto(t, [th[t] EXCEPT !.pc = "scan"])
    /\ UNCHANGED <<restBarrier, data, team_reduce, global, hostVars, result, ran>>

LeadScan(t) ==
    /\ At(t, "scan") /\ In(t, "lead")
    /\ pool_reduce' = [u \in Ranks |->
                          <<pool_reduce[u][1], UNION {pool_reduce[v][1] : v \in 0..(u - 1)}>>]
    /\ Move(t, "release")
    /\ UNCHANGED <<restBarrier, data, team_reduce, global, hostVars, th, result, ran>>

(* The last thread has the total when it is done. *)
FinalScan(t) ==
    LET total == pool_reduce[t][2] \cup MyItems(t) IN
    /\ At(t, "scan") /\ Back(t)
    /\ ran' = [x \in DOMAIN ran |-> IF Item(0, x[2]) \in MyItems(t) THEN ran[x] + 1 ELSE ran[x]]
    /\ pool_reduce' = [pool_reduce EXCEPT ![t] = <<@[1], total>>]
    /\ result' = IF t = program.size - 1 THEN total ELSE result
    /\ Goto(t, [th[t] EXCEPT !.pc = "end"])
    /\ UNCHANGED <<barrierVars, data, team_reduce, global, hostVars>>

-----------------------------------------------------------------------------
ThreadStep(t) ==
    \/ BarrierStep(t) /\ UNCHANGED <<dataVars, hostVars, th, result, ran>>
    \/ JustRelease(t) \/ BeginRange(t) \/ OrganizeTeam(t) \/ BeginTeam(t) \/ Work(t)
    \/ TestOwn(t) \/ TakeOwn(t) \/ Steal(t) \/ Share(t)
    \/ RunRange(t) \/ RunTeam(t) \/ NextRank(t) \/ Leave(t)
    \/ Call(t) \/ Lead(t) \/ Return(t)
    \/ BeginScan(t) \/ LeadScan(t) \/ FinalScan(t)

Next == Fork \/ Join \/ \E t \in Ranks : ThreadStep(t)

Spec == Init /\ [][Next]_vars

(* The master and the threads of the pool are scheduled again and again. *)
FairSpec ==
    /\ Spec /\ WF_vars(Fork \/ Join)
    /\ \A t \in Threads : WF_vars(t \in Ranks /\ ThreadStep(t))

-----------------------------------------------------------------------------
(* Every item runs exactly once, in every member of the team that has it:  *)
(* the owner of a range takes from its beginning while thieves take from   *)
(* its end, threads may be left over by the teams, and the last chunks may *)
(* lie beyond the end.                                                     *)
WorkIsDoneOnce ==
    \A x \in DOMAIN ran : ran[x] <= 1 /\ (region = "joined" => ran[x] = 1)

(* parallel_reduce returns each contribution of this kernel and nothing    *)
(* else, also if threads had no part in it; parallel_scan gives each       *)
(* thread the sum of all items before the end of its part, and the total.  *)
ResultsAreExact ==
    region = "joined" =>
       /\ Kernel.kind # "for" => result = All
       /\ Kernel.kind = "scan" =>
             \A t \in Ranks : pool_reduce[t][2] = UNION {MyItems(u) : u \in 0..t}

(* What a collective that returned should have returned. *)
Expected(t) ==
    LET members == 0..(data[t].m_team_size - 1)
    IN CASE Op(t).kind = "barrier" -> {}
         [] Op(t).kind = "broadcast" -> {Item(Op(t).source, Tag(t))}
         [] Op(t).kind = "reduce" -> {Item(i, Tag(t)) : i \in members}
         [] OTHER -> {Item(i, Tag(t)) : i \in 0..(data[t].m_team_rank - 1)}

(* Every member of a team gets from a collective what the members put into *)
(* this very call: the next collective, or the next index that the leader  *)
(* shares, does not overwrite the memory before everyone has read it.  The *)
(* part that team_scan takes from global is made of whole teams.           *)
CollectivesAgree ==
    \A t \in Ranks :
       At(t, "functor") /\ th[t].j > 0 =>
          IF Op(t).global
          THEN LET before == {x \in th[t].got : x[3] # Tag(t)} IN
               /\ th[t].got \ before = Expected(t)
               /\ \A x \in before, i \in 0..(data[t].m_team_size - 1) : Item(i, x[3]) \in before
          ELSE th[t].got = Expected(t)

(* Members of a team are never inside of the functor with different league *)
(* ranks, where they could overwrite each other's team scratch memory.     *)
TeamsDoNotLap ==
    \A t, u \in Ranks :
       /\ th[t].pc \in {"functor", "collect"} /\ th[u].pc \in {"functor", "collect"}
       /\ data[t].m_team_base = data[u].m_team_base
       => th[t].range[1] = th[u].range[1]

(* Every parallel region ends: no thread waits for ever for one that has   *)
(* left, has no team or counts the rendezvous differently.                 *)
RegionsEnd == <>[](region = "joined" /\ k = Len(program.kernels))
=============================================================================
