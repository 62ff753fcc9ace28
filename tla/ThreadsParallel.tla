-------------------------- MODULE ThreadsParallel --------------------------
(***************************************************************************)
(* The functions that parallel_for, parallel_reduce and parallel_scan run  *)
(* on the thread pool: over a range with static or dynamic schedule, over  *)
(* teams with static or dynamic schedule, and over a work graph.  Range    *)
(* and league are the items 0 .. items-1; the functor is its effect on     *)
(* ran, and adds the item to the value of a reduction or a scan.           *)
(***************************************************************************)
EXTENDS ThreadsExec, WorkGraphPolicy, RangePolicy

VARIABLES m_work_range,            \* of each thread, as a pair <<first, second>>
          m_current_steal_target,
          m_stealing,
          m_team_work_index,
          ran,                     \* history: how often each item ran in this kernel
          prefix,                  \* history: the value a scan's final pass gave each item
          stale                    \* history: threads whose range is of an earlier kernel

stealVars == <<m_work_range, m_current_steal_target, m_stealing, m_team_work_index, stale>>
userVars  == <<ran, prefix>>
workVars  == <<stealVars, userVars>>
restVars  == <<config, process, s_threads_exec, s_current_function, global_lock>>
vars == <<poolVars, graphVars, workVars>>

None == -1

(* m_work_range is uninitialized, which matters only when a team policy    *)
(* leaves threads over: otherwise it is set before it is read.             *)
Uninitialized == IF Size % config.team = 0 THEN {<<0, 0>>} ELSE {<<0, 0>>, <<0, 1>>}

Init ==
    /\ ExecInit /\ GraphInit
    /\ \E r \in Uninitialized : m_work_range = [t \in Ids |-> r]
    /\ m_current_steal_target = [t \in Ids |-> 0]
    /\ m_stealing = [t \in Ids |-> FALSE]
    /\ m_team_work_index = [t \in Ids |-> 0]
    /\ ran = Zero
    /\ prefix = [x \in Items |-> Zero]
    /\ stale = Ids

(* The kernel's execute(): the history begins anew. *)
Execute(kernel) ==
    /\ Start(kernel)
    /\ ran' = Zero /\ stale' = Ids
    /\ prefix' = [x \in Items |-> Zero]
    /\ UNCHANGED <<m_work_range, m_current_steal_target, m_stealing, m_team_work_index, graphVars>>

-----------------------------------------------------------------------------
MyRange(t) == WorkRange(config.items, config.chunk, Rank(t), Size)
Between(r) == {x \in Items : r[1] <= x /\ x < r[2]}

(* exec_range over the thread's own part, into its reduce_memory. *)
RunRange(t, then) ==
    LET mine == Between(MyRange(t)) IN
    /\ ran' = Join(ran, Own(mine))
    /\ reduce_memory' = [reduce_memory EXCEPT ![t].value = Own(mine)]
    /\ Goto(t, then)
    /\ UNCHANGED <<restVars, m_pool_state, stealVars, prefix, graphVars>>

(* Mutant: without fan_in(). *)
ForWithoutFanIn(t) ==
    /\ At(t, "begin") /\ Runs(t, "for")
    /\ RunRange(t, [self[t] EXCEPT !.pc = "return"])

For(t) ==
    /\ At(t, "begin") /\ Runs(t, "for")
    /\ RunRange(t, Enter(t, self[t], "fan_in", "return"))

Reduce(t) ==
    /\ At(t, "begin") /\ Runs(t, "reduce")
    /\ RunRange(t, Enter(t, self[t], "fan_in_reduce", "return"))

(* The first pass, with final = false, only computes the value. *)
Scan(t) ==
    /\ At(t, "begin") /\ Runs(t, "scan")
    /\ reduce_memory' = [reduce_memory EXCEPT ![t].value = Own(Between(MyRange(t)))]
    /\ Goto(t, Enter(t, self[t], "scan", "final"))
    /\ UNCHANGED <<restVars, m_pool_state, workVars, graphVars>>

(* The final pass: each item sees the scan value of the thread and the     *)
(* items of the thread before it.                                          *)
Final(t) ==
    LET mine == Between(MyRange(t))
        update == reduce_memory[t].value
    IN /\ At(t, "final")
       /\ ran' = Join(ran, Own(mine))
       /\ prefix' = [x \in Items |-> IF x \in mine THEN Join(update, Own({y \in mine : y < x}))
                                     ELSE prefix[x]]
       /\ reduce_memory' = [reduce_memory EXCEPT ![t].value = Join(update, Own(mine))]
       /\ Goto(t, Enter(t, self[t], "fan_in", "return"))
       /\ UNCHANGED <<restVars, m_pool_state, stealVars, graphVars>>

-----------------------------------------------------------------------------
(* Dynamic schedule: set_work_range and reset_steal_target, barrier(), and *)
(* then chunks from the own range and from those of others.                *)

set_work_range(begin, end) ==
    LET first == CeilDiv(begin, config.chunk)
    IN <<first, IF end > 0 THEN CeilDiv(end, config.chunk) ELSE first>>

(* Mutant: without the barrier. *)
DynamicWithoutBarrier(t) ==
    /\ At(t, "begin") /\ Runs(t, "dynamic")
    /\ LET r == MyRange(t) IN
         m_work_range' = [m_work_range EXCEPT ![t] = set_work_range(r[1], r[2])]
    /\ m_current_steal_target' = [m_current_steal_target EXCEPT ![t] = (Rank(t) + 1) % Size]
    /\ m_stealing' = [m_stealing EXCEPT ![t] = FALSE]
    /\ stale' = stale \ {t}
    /\ reduce_memory' = [reduce_memory EXCEPT ![t].value = Zero]
    /\ Goto(t, [self[t] EXCEPT !.pc = "get"])
    /\ UNCHANGED <<restVars, m_pool_state, m_team_work_index, userVars, graphVars>>

Dynamic(t) ==
    /\ At(t, "begin") /\ Runs(t, "dynamic")
    /\ LET r == MyRange(t) IN
         m_work_range' = [m_work_range EXCEPT ![t] = set_work_range(r[1], r[2])]
    /\ m_current_steal_target' = [m_current_steal_target EXCEPT ![t] = (Rank(t) + 1) % Size]
    /\ m_stealing' = [m_stealing EXCEPT ![t] = FALSE]
    /\ stale' = stale \ {t}
    /\ reduce_memory' = [reduce_memory EXCEPT ![t].value = Zero]
    /\ Goto(t, Enter(t, self[t], "barrier", "get"))
    /\ UNCHANGED <<restVars, m_pool_state, m_team_work_index, userVars, graphVars>>

(* get_work_index: the own range first, unless it has been found empty.    *)
(* The fields of a range are not read together; only the owner changes the *)
(* first, and only thieves the second.                                     *)
GetWorkIndex(t) ==
    /\ At(t, "get")
    /\ LET r == m_work_range[t] IN
         IF ~m_stealing[t] /\ r[1] < r[2]
         THEN Goto(t, [self[t] EXCEPT !.pc = "claim", !.old = r]) /\ UNCHANGED m_stealing
         ELSE /\ Goto(t, [self[t] EXCEPT !.pc = "target"])
              /\ m_stealing' = [m_stealing EXCEPT ![t] = TRUE]
    /\ UNCHANGED <<restVars, m_pool_state, reduce_memory, m_work_range, m_current_steal_target,
                   m_team_work_index, stale, userVars, graphVars>>

(* What get_work_index returns goes to the team, or to the thread. *)
Got(t, index) ==
    /\ m_team_work_index' = [m_team_work_index EXCEPT ![t] = index]
    /\ Goto(t, IF Runs(t, "team_dynamic")
               THEN Enter(t, self[t], "team", "team_index")
               ELSE IF index = None THEN Enter(t, self[t], "fan_in_reduce", "return")
               ELSE [self[t] EXCEPT !.pc = "run"])

(* get_work_index_begin: compare-exchange the pair; on failure the value   *)
(* found is tried, unless it is empty.                                     *)
ClaimBegin(t) ==
    /\ At(t, "claim") /\ ~m_stealing[t]
    /\ LET old == self[t].old
           now == m_work_range[t]
       IN \/ /\ now = old
             /\ m_work_range' = [m_work_range EXCEPT ![t] = <<old[1] + 1, old[2]>>]
             /\ Got(t, old[1])
             /\ UNCHANGED m_stealing
          \/ /\ now # old /\ now[1] < now[2]
             /\ Goto(t, [self[t] EXCEPT !.old = now])
             /\ UNCHANGED <<m_work_range, m_team_work_index, m_stealing>>
          \/ /\ now # old /\ now[1] >= now[2]
             /\ Goto(t, [self[t] EXCEPT !.pc = "target"])
             /\ m_stealing' = [m_stealing EXCEPT ![t] = TRUE]
             /\ UNCHANGED <<m_work_range, m_team_work_index>>
    /\ UNCHANGED <<restVars, m_pool_state, reduce_memory, m_current_steal_target, stale,
                   userVars, graphVars>>

(* get_steal_target: round robin until a range that is not empty or the    *)
(* end.  Targets are entries; over ranges the end is the thread's rank,    *)
(* over teams its entry.                                                   *)
Home(t) == IF Runs(t, "team_dynamic") THEN Entry(t) ELSE Rank(t)
NextTarget(t, v) ==
    IF ~Runs(t, "team_dynamic") THEN (v + 1) % Size
    ELSE IF v + team_alloc < Size THEN v + team_alloc ELSE 0

GetStealTarget(t) ==
    /\ At(t, "target")
    /\ LET v == m_current_steal_target[t]
           r == m_work_range[s_threads_exec[v]]
       IN \/ /\ r[2] <= r[1] /\ v # Home(t)
             /\ m_current_steal_target' = [m_current_steal_target EXCEPT ![t] = NextTarget(t, v)]
             /\ UNCHANGED <<self, m_team_work_index>>
          \/ /\ v = Home(t)
             /\ Got(t, None)
             /\ UNCHANGED m_current_steal_target
          \/ /\ r[1] < r[2] /\ v # Home(t)
             /\ Goto(t, [self[t] EXCEPT !.pc = "read", !.half = 0])
             /\ UNCHANGED <<m_current_steal_target, m_team_work_index>>
    /\ UNCHANGED <<restVars, m_pool_state, reduce_memory, m_work_range, m_stealing, stale,
                   userVars, graphVars>>

Victim(t) == s_threads_exec[m_current_steal_target[t]]

(* get_work_index_end: the two halves of the victim's range are read one   *)
(* after the other, in either order.                                       *)
StealRead(t, half) ==
    /\ At(t, "read") /\ self[t].half # half
    /\ LET old == [self[t].old EXCEPT ![half] = m_work_range[Victim(t)][half]] IN
         Goto(t, IF self[t].half = 0 THEN [self[t] EXCEPT !.old = old, !.half = half]
                 ELSE [self[t] EXCEPT !.old = old, !.half = 0,
                                      !.pc = IF old[1] < old[2] THEN "claim" ELSE "target"])
    /\ UNCHANGED <<restVars, m_pool_state, reduce_memory, workVars, graphVars>>

ClaimEnd(t) ==
    /\ At(t, "claim") /\ m_stealing[t]
    /\ LET old == self[t].old
           now == m_work_range[Victim(t)]
       IN \/ /\ now = old
             /\ m_work_range' = [m_work_range EXCEPT ![Victim(t)] = <<old[1], old[2] - 1>>]
             /\ Got(t, old[2] - 1)
          \/ /\ now # old
             /\ Goto(t, IF now[1] < now[2] THEN [self[t] EXCEPT !.old = now]
                        ELSE [self[t] EXCEPT !.pc = "target"])
             /\ UNCHANGED <<m_work_range, m_team_work_index>>
    /\ UNCHANGED <<restVars, m_pool_state, reduce_memory, m_current_steal_target, m_stealing,
                   stale, userVars, graphVars>>

Chunk(index) == Between(<<index * config.chunk, (index + 1) * config.chunk>>)

RunChunk(t) ==
    /\ At(t, "run")
    /\ LET mine == Own(Chunk(m_team_work_index[t])) IN
         /\ ran' = Join(ran, mine)
         /\ reduce_memory' = [reduce_memory EXCEPT ![t].value = Join(@, mine)]
    /\ Goto(t, [self[t] EXCEPT !.pc = "get"])
    /\ UNCHANGED <<restVars, m_pool_state, stealVars, prefix, graphVars>>

Stealing(t) ==
    \/ Dynamic(t) \/ GetWorkIndex(t) \/ ClaimBegin(t) \/ GetStealTarget(t)
    \/ (\E half \in {1, 2} : StealRead(t, half)) \/ ClaimEnd(t) \/ RunChunk(t)

-----------------------------------------------------------------------------
(* Teams: the constructor of ThreadsExecTeamMember.  A thread beyond the   *)
(* last team is invalid, and returns from the constructor before the       *)
(* barrier() that the others take with dynamic schedule.                   *)

LeagueSize  == Size \div team_alloc                     \* pool_league_size
LeagueRev(t) == Entry(t) \div team_alloc                \* pool_league_rank_rev
Beyond(t)   == LeagueRev(t) >= LeagueSize
Invalid(t)  ==
    \/ Beyond(t) \/ config.items = 0
    \/ IF team_alloc > config.team THEN team_rank_rev(t) >= config.team
       ELSE Size - LeagueSize * config.team > Rank(t)
TeamBase(t) == s_threads_exec[team_alloc * LeagueRev(t)]

(* The league ranks of the team, from first to before last. *)
LeagueRange(t) ==
    LET rank == LeagueSize - (LeagueRev(t) + 1)
    IN <<(config.items * rank) \div LeagueSize, (config.items * (rank + 1)) \div LeagueSize>>

(* After the loop: barrier() and fan_in(), or fan_in_reduce() only. *)
TeamDone(t, r) ==
    IF Runs(t, "team_reduce") THEN Enter(t, r, "fan_in_reduce", "return")
    ELSE Enter(t, r, "barrier", "team_end")

Team(t) ==
    LET league == LeagueRange(t)
        me == self[t]
        ranked == IF Invalid(t) THEN me ELSE [me EXCEPT !.rank = league[1], !.end = league[2]]
        target == Entry(t) + config.team
    IN /\ At(t, "begin") /\ self[t].fn \in {"team", "team_reduce", "team_dynamic"}
       /\ IF ~Invalid(t) /\ team_rank_rev(t) = 0
          THEN /\ m_work_range' = [m_work_range EXCEPT ![t] = set_work_range(league[1], league[2])]
               /\ m_current_steal_target' =
                     [m_current_steal_target EXCEPT ![t] = IF target >= Size THEN 0 ELSE target]
               /\ m_stealing' = [m_stealing EXCEPT ![t] = FALSE]
               /\ stale' = stale \ {t}
          ELSE UNCHANGED <<m_work_range, m_current_steal_target, m_stealing, stale>>
       /\ Goto(t, CASE ~Runs(t, "team_dynamic") -> [ranked EXCEPT !.pc = "team_static"]
                    [] Beyond(t) \/ config.items = 0 -> TeamDone(t, me)
                    [] OTHER -> Enter(t, me, "barrier",
                                      IF Invalid(t) THEN "team_done" ELSE "team_next"))
       /\ reduce_memory' = IF Runs(t, "team_reduce")
                           THEN [reduce_memory EXCEPT ![t].value = Zero] ELSE reduce_memory
       /\ UNCHANGED <<restVars, m_pool_state, m_team_work_index, userVars, graphVars>>

(* The functor on league rank x, and the team barrier of next_static or    *)
(* next_dynamic.                                                           *)
RunTeam(t, then) ==
    LET x == self[t].rank IN
    /\ ran' = Join(ran, Own({x}))
    /\ IF Runs(t, "team_reduce")
       THEN reduce_memory' = [reduce_memory EXCEPT ![t].value = Join(@, Own({x}))]
       ELSE UNCHANGED reduce_memory
    /\ Goto(t, Enter(t, [self[t] EXCEPT !.rank = x + 1], "team", then))
    /\ UNCHANGED <<restVars, m_pool_state, stealVars, prefix, graphVars>>

TeamGoto(t, r) ==
    Goto(t, r) /\ UNCHANGED <<restVars, m_pool_state, reduce_memory, workVars, graphVars>>

(* Mutant: no team barrier between league ranks. *)
TeamStaticWithoutBarrier(t) ==
    /\ At(t, "team_static")
    /\ \/ /\ self[t].rank < self[t].end
          /\ ran' = Join(ran, Own({self[t].rank}))
          /\ Goto(t, [self[t] EXCEPT !.rank = @ + 1])
          /\ UNCHANGED <<restVars, m_pool_state, stealVars, prefix, graphVars, reduce_memory>>
       \/ self[t].rank >= self[t].end /\ TeamGoto(t, TeamDone(t, self[t]))

TeamStatic(t) ==
    /\ At(t, "team_static")
    /\ \/ self[t].rank < self[t].end /\ RunTeam(t, "team_static")
       \/ self[t].rank >= self[t].end /\ TeamGoto(t, TeamDone(t, self[t]))

(* valid_dynamic: when the chunk is used up, the base of the team gets the *)
(* index of the next for all of them.                                      *)
TeamNext(t) ==
    LET me == self[t] IN
    /\ At(t, "team_next")
    /\ TeamGoto(t, IF me.rank < me.end THEN [me EXCEPT !.pc = "team_run"]
                   ELSE IF team_rank_rev(t) = 0 THEN [me EXCEPT !.pc = "get"]
                   ELSE Enter(t, me, "team", "team_index"))

TeamIndex(t) ==
    LET index == m_team_work_index[TeamBase(t)]
        rank == index * config.chunk
        end == Min2(rank + config.chunk, config.items)
    IN /\ At(t, "team_index")
       /\ TeamGoto(t, IF rank >= 0 /\ rank < end
                      THEN [self[t] EXCEPT !.rank = rank, !.end = end, !.pc = "team_run"]
                      ELSE TeamDone(t, self[t]))

TeamRun(t) == At(t, "team_run") /\ RunTeam(t, "team_next")

TeamEnd(t) ==
    \/ At(t, "team_done") /\ TeamGoto(t, TeamDone(t, self[t]))
    \/ At(t, "team_end") /\ TeamGoto(t, Enter(t, self[t], "fan_in", "return"))

Teams(t) == Team(t) \/ TeamStatic(t) \/ TeamNext(t) \/ TeamIndex(t) \/ TeamRun(t) \/ TeamEnd(t)

-----------------------------------------------------------------------------
(* A work graph: the TagReady kernel of the policy's constructor, over the *)
(* range of rows, and then the execution.                                  *)

GraphReady(t) ==
    LET mine == Between(MyRange(t)) \cap todo IN
    /\ At(t, "begin") /\ Runs(t, "graph_ready")
    /\ \/ /\ \E w \in mine : (\A v \in mine : w <= v) /\ Ready(t, w)
          /\ UNCHANGED self
       \/ /\ GraphStep(t)
          /\ UNCHANGED self
       \/ /\ mine = {} /\ Doing(t, "rest")
          /\ Goto(t, Enter(t, self[t], "fan_in", "return"))
          /\ UNCHANGED graphVars
    /\ UNCHANGED <<restVars, m_pool_state, reduce_memory, workVars>>

Graph(t) ==
    /\ Runs(t, "graph")
    /\ \/ /\ At(t, "begin") /\ EnterGraph(t)
          /\ Goto(t, [self[t] EXCEPT !.pc = "graph"])
       \/ /\ At(t, "graph") /\ GraphStep(t)
          /\ UNCHANGED self
       \/ /\ At(t, "graph") /\ Doing(t, "completed")
          /\ Goto(t, Enter(t, self[t], "fan_in", "return"))
          /\ UNCHANGED graphVars
    /\ UNCHANGED <<restVars, m_pool_state, reduce_memory, workVars>>

-----------------------------------------------------------------------------
ThreadStep(t) ==
    \/ (Collective(t) \/ Driver(t)) /\ UNCHANGED <<workVars, graphVars>>
    \/ For(t) \/ Reduce(t) \/ Scan(t) \/ Final(t)
    \/ Stealing(t) \/ Teams(t) \/ GraphReady(t) \/ Graph(t)

ProcessStep ==
    \/ HostStep /\ UNCHANGED <<workVars, graphVars>>
    \/ \E kernel \in Kernels : Execute(kernel)

Next == ProcessStep \/ \E t \in Ids : ThreadStep(t)

Spec == Init /\ [][Next]_vars

(* Every thread, and the process, is scheduled again and again. *)
FairSpec ==
    /\ Spec /\ WF_vars(ProcessStep)
    /\ \A t \in Workers : WF_vars(t \in Ids /\ ThreadStep(t))

-----------------------------------------------------------------------------
(* The call that the process has just returned from. *)
Returned(calls) == process.pc = "main" /\ process.call \in calls
Times == IF process.call \in {"team", "team_reduce", "team_dynamic"} THEN config.team ELSE 1
AllOf(n) == [x \in Items |-> n]

(* fence(): "does not return until all dispatched functors on this device  *)
(* have completed".  Every item, chunk, league rank (once in every member  *)
(* of its team) or row of the kernel has run, and none of them twice.      *)
FenceMeansCompleted ==
    /\ Returned(Kernels \ {"graph_ready", "graph"}) => ran = AllOf(Times)
    /\ Returned({"graph_ready"}) => todo = {}
    /\ Returned({"graph"}) => \A w \in Rows : done[w] = 1

(* The reduction that the root holds when fence() returns contains each    *)
(* contribution once: fan_in_reduce joins no value before it is complete   *)
(* and passes over none.                                                   *)
ReductionIsComplete ==
    Returned({"reduce", "dynamic", "team_reduce"}) =>
       reduce_memory[s_threads_exec[0]].value = AllOf(Times)

(* parallel_scan: the final pass gives each item the sum of the items      *)
(* before it, whichever thread has them, and the total is left at the root.*)
ScanIsExclusive ==
    Returned({"scan"}) =>
       /\ \A x \in Items : prefix[x] = Own({y \in Items : y < x})
       /\ reduce_memory[s_threads_exec[0]].value = AllOf(1)

(* When the process is between calls and the pool not asleep, every thread *)
(* is back in the driver's wait: a start() cannot find one that still is   *)
(* in the last function and would lose the activation.  Except after       *)
(* wake(): execute_sleep() tells the fan that it is Inactive before the    *)
(* driver does so.                                                         *)
PoolIsQuiet ==
    process.pc = "main" /\ s_current_function = "null" /\ process.call # "wake" =>
       \A e \in Entries : LET t == s_threads_exec[e]
                          IN At(t, "idle") /\ m_pool_state[t] = "Inactive"

(* The barrier() before the loop of a dynamic schedule: a thief never      *)
(* looks at a work range that was left by an earlier kernel.               *)
ThiefReadsCurrentRange ==
    \A t \in Ids : /\ At(t, "read") \/ (At(t, "claim") /\ m_stealing[t])
                   => Victim(t) \notin stale

(* The barrier between league ranks: members of a team never run different *)
(* league ranks at the same time, so they may share the team's scratch.    *)
TeamsStayTogether ==
    \A t, u \in Ids :
       /\ self[t].pc \in {"team_static", "team_run"} /\ self[t].pc = self[u].pc
       /\ TeamBase(t) = TeamBase(u) /\ ~Invalid(t) /\ ~Invalid(u)
       => self[t].rank = self[u].rank

(* The steps of the threads on the policy's queue are those of             *)
(* WorkGraphPolicy by itself: the fence() after the TagReady kernel keeps  *)
(* pop_work away from a queue that is still being filled.                  *)
ImplementsGraph == GraphSpec

(* Every call of the process returns, also when a thread could not be      *)
(* created or bound, and no thread is left to call a function that has     *)
(* been cleared.  Except a thread that could not be bound and joined       *)
(* nevertheless: it has no entry, so initialize() does not wait for it.    *)
CallsReturn ==
    /\ <>[](\/ process.pc \in {"failed", "finalized"}
            \/ process.pc = "main" /\ process.left = << >>)
    /\ [](\A t \in Ids : At(t, "null_call") => config.fault = [kind |-> "bind", at |-> t])
=============================================================================
