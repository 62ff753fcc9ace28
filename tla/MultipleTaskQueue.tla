------------------------- MODULE MultipleTaskQueue -------------------------
(***************************************************************************)
(* The ready tasks of a MultipleTaskQueue with Chase-Lev deques            *)
(* (ChaseLevTaskScheduler): each team, here one thread, has for each       *)
(* priority and type a bounded deque and a linked list of the tasks that   *)
(* did not fit, and takes from its own before it steals from the deques of *)
(* others.  How tasks come to wait for each other and the reference counts *)
(* are the subject of TaskQueueCommon; here every task is ready when it is *)
(* scheduled, and is deallocated when it completes.  A task is the block   *)
(* of memory it is in, which the memory pool may give to a later task.     *)
(*                                                                         *)
(* The deques are the atomic ones that ChaseLevDeque implements.  A team's *)
(* accesses to its own failed list are not synchronised, so the steps of a *)
(* thread are cut between its pushes to a deque and what follows them.     *)
(***************************************************************************)
EXTENDS Integers, Sequences, FiniteSets

CONSTANTS NumTeams,    \* n_queues(), one thread each
          NumQueues,   \* priorities and types, in the order of pop_ready_task
          Size,        \* capacity of one deque
          MaxTasks,    \* bound: tasks created, and blocks to hold them
          MaxHost,     \* bound: tasks spawned by the host before wait()
          MaxRespawns  \* bound: respawns in all

ASSUME MultipleAssumption ==
    /\ NumTeams \in Nat \ {0} /\ NumQueues \in Nat \ {0} /\ Size \in Nat \ {0}
    /\ MaxTasks \in Nat /\ MaxHost \in Nat /\ MaxRespawns \in Nat

Teams  == 0..(NumTeams - 1)
Queues == 1..NumQueues
Tasks  == 1..MaxTasks
Null   == 0
Unused == 0

VARIABLES m_ready_queues,   \* the deque of each team and queue, the top first
          m_failed_heads,   \* the heads of the failed lists
          next,             \* the scheduling info of a task: its link there
          m_ready_count,
          queue_index,      \* the queue that priority and type select, or Unused
                            \* in a block that has held no task yet
          live,             \* the blocks that hold a task
          created,
          respawning, respawns,
          self,             \* what each thread is doing
          phase,            \* "main", "execute", "end"
          no_team,          \* handle_failed_ready_queue_insertion got no team
          overtaken         \* history: another team relinked or deallocated a task
                            \* whose link a flush was still to read

vars == <<m_ready_queues, m_failed_heads, next, m_ready_count, queue_index,
          live, created, respawning, respawns, self, phase, no_team, overtaken>>

(* A thread: its position, the queue and the team it looks at, the task it *)
(* schedules, the one it runs, and where scheduling returns to.            *)
Idle == [pc |-> "out", q |-> 1, victim |-> 0, task |-> Null, runs |-> Null, then |-> "none"]

Init ==
    /\ m_ready_queues = [w \in Teams |-> [q \in Queues |-> << >>]]
    /\ m_failed_heads = [w \in Teams |-> [q \in Queues |-> Null]]
    /\ next = [t \in Tasks |-> Null]
    /\ m_ready_count = 0
    /\ queue_index = [t \in Tasks |-> Unused]
    /\ live = {} /\ created = 0
    /\ respawning = [t \in Tasks |-> FALSE] /\ respawns = 0
    /\ self = [w \in Teams |-> Idle]
    /\ phase = "main"
    /\ no_team = FALSE /\ overtaken = FALSE

Me(w)      == self[w]
Goto(w, r) == self' = [self EXCEPT ![w] = r]
Pushed(w, q, t) == m_ready_queues' = [m_ready_queues EXCEPT ![w][q] = Append(@, t)]

HasRoom(w, q) == Len(m_ready_queues[w][q]) < Size

(* A task is constructed in a free block, with a null link: in any that    *)
(* held a task before, or in a new one (one stands for all of them).       *)
Construct(t, q) ==
    /\ created < MaxTasks /\ t \in Tasks \ live
    /\ \A u \in 1..(t - 1) : queue_index[u] # Unused
    /\ created' = created + 1
    /\ live' = live \cup {t}
    /\ next' = [next EXCEPT ![t] = Null]
    /\ queue_index' = [queue_index EXCEPT ![t] = q]

(* Another team than w has pushed t from its failed list and is still to   *)
(* read its link.                                                          *)
FlushReads(w, t) ==
    \E v \in Teams \ {w} : Me(v).pc = "flush_next" /\ m_failed_heads[v][Me(v).q] = t

-----------------------------------------------------------------------------
(* The host spawns with no associated team: the task goes to team 0, while *)
(* no other thread is running.  If it does not fit,                        *)
(* handle_failed_ready_queue_insertion is called without a team.           *)
HostSpawn(t, q) ==
    /\ phase = "main" /\ ~no_team
    /\ created < MaxHost /\ Construct(t, q)
    /\ m_ready_count' = m_ready_count + 1
    /\ \/ HasRoom(0, q) /\ Pushed(0, q, t) /\ UNCHANGED no_team
       \/ ~HasRoom(0, q) /\ no_team' = TRUE /\ UNCHANGED m_ready_queues
    /\ UNCHANGED <<m_failed_heads, respawning, respawns, self, phase, overtaken>>

(* wait(): all threads enter the loop of execute(), and all leave it. *)
Wait ==
    /\ phase = "main" /\ ~no_team
    /\ phase' = "execute"
    /\ self' = [w \in Teams |-> [Idle EXCEPT !.pc = "loop"]]
    /\ UNCHANGED <<m_ready_queues, m_failed_heads, next, m_ready_count,
                   queue_index, live, created, respawning, respawns, no_team, overtaken>>

WaitReturns ==
    /\ phase = "execute"
    /\ \A w \in Teams : Me(w).pc = "out"
    /\ phase' = "end"
    /\ UNCHANGED <<m_ready_queues, m_failed_heads, next, m_ready_count,
                   queue_index, live, created, respawning, respawns, self, no_team, overtaken>>

(* while (!queue.is_done()) pop_ready_task, which first flushes the failed *)
(* lists of the team.                                                      *)
Loop(w) ==
    /\ Me(w).pc = "loop"
    /\ Goto(w, [Idle EXCEPT !.pc = IF m_ready_count = 0 THEN "out" ELSE "flush", !.then = "pop"])
    /\ UNCHANGED <<m_ready_queues, m_failed_heads, next, m_ready_count, queue_index,
                   live, created, respawning, respawns, phase, no_team, overtaken>>

-----------------------------------------------------------------------------
(* flush_failed_insertions(priority, type); flush_all_failed_insertions    *)
(* goes on to the next queue.                                              *)

FlushDone(w) ==
    Goto(w, CASE Me(w).then = "pop" /\ Me(w).q < NumQueues -> [Me(w) EXCEPT !.q = @ + 1]
              [] Me(w).then = "pop" /\ Me(w).q = NumQueues -> [Idle EXCEPT !.pc = "pop"]
              [] OTHER -> [Idle EXCEPT !.pc = Me(w).then, !.runs = Me(w).runs])

(* while (failed_head != nullptr) push it, or stop when there is no room. *)
FlushPush(w) ==
    /\ Me(w).pc = "flush"
    /\ LET q == Me(w).q
           head == m_failed_heads[w][q]
       IN \/ /\ head # Null /\ HasRoom(w, q)
             /\ Pushed(w, q, head)
             /\ Goto(w, [Me(w) EXCEPT !.pc = "flush_next"])
          \/ /\ head = Null \/ ~HasRoom(w, q)
             /\ FlushDone(w)
             /\ UNCHANGED m_ready_queues
    /\ UNCHANGED <<m_failed_heads, next, m_ready_count, queue_index, live,
                   created, respawning, respawns, phase, no_team, overtaken>>

(* failed_head = next of failed_head: the task just pushed is read again.  *)
(* If it is deallocated by then, the memory is read: deallocate() writes   *)
(* nothing there, the constructor of a later task a null link.             *)
FlushNext(w) ==
    /\ Me(w).pc = "flush_next"
    /\ LET q == Me(w).q IN
         m_failed_heads' = [m_failed_heads EXCEPT ![w][q] = next[m_failed_heads[w][q]]]
    /\ Goto(w, [Me(w) EXCEPT !.pc = "flush"])
    /\ UNCHANGED <<m_ready_queues, next, m_ready_count, queue_index, live,
                   created, respawning, respawns, phase, no_team, overtaken>>

-----------------------------------------------------------------------------
(* pop_ready_task of the own team, then try_to_steal_ready_task of others. *)

Run(w, t) == Goto(w, [Idle EXCEPT !.pc = "user", !.runs = t])

(* A failed insertion is preferred to the deque of the same queue. *)
PopOwn(w) ==
    /\ Me(w).pc = "pop"
    /\ LET q == Me(w).q
           head == m_failed_heads[w][q]
           deque == m_ready_queues[w][q]
           victim == (w + 1) % NumTeams
       IN \/ /\ head # Null
             /\ m_failed_heads' = [m_failed_heads EXCEPT ![w][q] = next[head]]
             /\ Run(w, head)
             /\ UNCHANGED m_ready_queues
          \/ /\ head = Null /\ deque # << >>
             /\ m_ready_queues' = [m_ready_queues EXCEPT ![w][q] = SubSeq(@, 1, Len(@) - 1)]
             /\ Run(w, deque[Len(deque)])
             /\ UNCHANGED m_failed_heads
          \/ /\ head = Null /\ deque = << >>
             /\ Goto(w, IF q < NumQueues THEN [Me(w) EXCEPT !.q = @ + 1]
                        ELSE IF victim = w THEN [Idle EXCEPT !.pc = "loop"]
                        ELSE [Idle EXCEPT !.pc = "steal", !.q = NumQueues, !.victim = victim])
             /\ UNCHANGED <<m_failed_heads, m_ready_queues>>
    /\ UNCHANGED <<next, m_ready_count, queue_index, live, created, respawning,
                   respawns, phase, no_team, overtaken>>

(* Mutant: the deque keeps what is stolen. *)
StealKeeps(w) ==
    /\ Me(w).pc = "steal"
    /\ LET v == Me(w).victim
           deque == m_ready_queues[v][Me(w).q]
       IN /\ deque # << >>
          /\ Run(w, Head(deque))
    /\ UNCHANGED <<m_ready_queues, m_failed_heads, next, m_ready_count, queue_index, live,
                   created, respawning, respawns, phase, no_team, overtaken>>

Steal(w) ==
    /\ Me(w).pc = "steal"
    /\ LET v == Me(w).victim
           deque == m_ready_queues[v][Me(w).q]
       IN /\ deque # << >>
          /\ m_ready_queues' = [m_ready_queues EXCEPT ![v][Me(w).q] = Tail(@)]
          /\ Run(w, Head(deque))
    /\ UNCHANGED <<m_failed_heads, next, m_ready_count, queue_index, live,
                   created, respawning, respawns, phase, no_team, overtaken>>

(* steal() may come back empty-handed from a deque that is not empty, when *)
(* it lost a race; the next queue (the lowest priority first) or team is   *)
(* tried.                                                                  *)
StealMisses(w) ==
    /\ Me(w).pc = "steal"
    /\ LET victim == (Me(w).victim + 1) % NumTeams IN
         Goto(w, IF Me(w).q > 1 THEN [Me(w) EXCEPT !.q = @ - 1]
                 ELSE IF victim = w THEN [Idle EXCEPT !.pc = "loop"]
                 ELSE [Me(w) EXCEPT !.q = NumQueues, !.victim = victim])
    /\ UNCHANGED <<m_ready_queues, m_failed_heads, next, m_ready_count, queue_index,
                   live, created, respawning, respawns, phase, no_team, overtaken>>

-----------------------------------------------------------------------------
(* A task runs: it spawns, asks to be respawned, returns. *)

(* Mutant: a spawned task is not counted. *)
SpawnUncounted(w, t, q) ==
    /\ Me(w).pc = "user" /\ Construct(t, q)
    /\ Goto(w, [Me(w) EXCEPT !.pc = "push", !.task = t, !.then = "user"])
    /\ UNCHANGED <<m_ready_queues, m_failed_heads, m_ready_count,
                   respawning, respawns, phase, no_team, overtaken>>

Spawn(w, t, q) ==
    /\ Me(w).pc = "user" /\ Construct(t, q)
    /\ Goto(w, [Me(w) EXCEPT !.pc = "count", !.task = t, !.then = "user"])
    /\ UNCHANGED <<m_ready_queues, m_failed_heads, m_ready_count,
                   respawning, respawns, phase, no_team, overtaken>>

Respawn(w, q) ==
    /\ Me(w).pc = "user" /\ ~respawning[Me(w).runs] /\ respawns < MaxRespawns
    /\ respawning' = [respawning EXCEPT ![Me(w).runs] = TRUE]
    /\ respawns' = respawns + 1
    /\ queue_index' = [queue_index EXCEPT ![Me(w).runs] = q]
    /\ UNCHANGED <<m_ready_queues, m_failed_heads, next, m_ready_count, live,
                   created, self, phase, no_team, overtaken>>

(* complete(): a respawning task is scheduled on this thread's team, any   *)
(* other is deallocated; then the ready count goes down.                   *)
Complete(w) ==
    /\ Me(w).pc = "user"
    /\ LET t == Me(w).runs IN
         \/ /\ respawning[t]
            /\ respawning' = [respawning EXCEPT ![t] = FALSE]
            /\ Goto(w, [Me(w) EXCEPT !.pc = "count", !.task = t, !.runs = Null, !.then = "ready_dec"])
            /\ UNCHANGED <<live, overtaken>>
         \/ /\ ~respawning[t]
            /\ live' = live \ {t}
            /\ overtaken' = (overtaken \/ FlushReads(w, t))
            /\ Goto(w, [Idle EXCEPT !.pc = "ready_dec"])
            /\ UNCHANGED respawning
    /\ UNCHANGED <<m_ready_queues, m_failed_heads, next, m_ready_count, queue_index,
                   created, respawns, phase, no_team>>

ReadyDec(w) ==
    /\ Me(w).pc = "ready_dec"
    /\ m_ready_count' = m_ready_count - 1
    /\ Goto(w, [Idle EXCEPT !.pc = "loop"])
    /\ UNCHANGED <<m_ready_queues, m_failed_heads, next, queue_index, live,
                   created, respawning, respawns, phase, no_team, overtaken>>

(* do_schedule_runnable: count the task, push it, and then flush its queue *)
(* of the team.                                                            *)
Count(w) ==
    /\ Me(w).pc = "count"
    /\ m_ready_count' = m_ready_count + 1
    /\ Goto(w, [Me(w) EXCEPT !.pc = "push"])
    /\ UNCHANGED <<m_ready_queues, m_failed_heads, next, queue_index, live,
                   created, respawning, respawns, phase, no_team, overtaken>>

(* Mutant: a task that does not fit becomes the only one of its list. *)
PushForgetsList(w) ==
    /\ Me(w).pc = "push"
    /\ LET t == Me(w).task
           q == queue_index[t]
       IN /\ \/ HasRoom(w, q) /\ Pushed(w, q, t) /\ UNCHANGED <<next, m_failed_heads>>
             \/ /\ ~HasRoom(w, q)
                /\ next' = [next EXCEPT ![t] = Null]
                /\ m_failed_heads' = [m_failed_heads EXCEPT ![w][q] = t]
                /\ UNCHANGED m_ready_queues
          /\ Goto(w, [Me(w) EXCEPT !.pc = "flush", !.q = q, !.task = Null])
    /\ overtaken' = (overtaken \/ (~HasRoom(w, queue_index[Me(w).task]) /\ FlushReads(w, Me(w).task)))
    /\ UNCHANGED <<m_ready_count, queue_index, live, created, respawning,
                   respawns, phase, no_team>>

Push(w) ==
    /\ Me(w).pc = "push"
    /\ LET t == Me(w).task
           q == queue_index[t]
       IN /\ \/ HasRoom(w, q) /\ Pushed(w, q, t) /\ UNCHANGED <<next, m_failed_heads>>
             \/ /\ ~HasRoom(w, q)
                /\ next' = [next EXCEPT ![t] = m_failed_heads[w][q]]
                /\ m_failed_heads' = [m_failed_heads EXCEPT ![w][q] = t]
                /\ UNCHANGED m_ready_queues
          /\ Goto(w, [Me(w) EXCEPT !.pc = "flush", !.q = q, !.task = Null])
    /\ overtaken' = (overtaken \/ (~HasRoom(w, queue_index[Me(w).task]) /\ FlushReads(w, Me(w).task)))
    /\ UNCHANGED <<m_ready_count, queue_index, live, created, respawning,
                   respawns, phase, no_team>>

-----------------------------------------------------------------------------
Step(w) ==
    \/ Loop(w) \/ FlushPush(w) \/ FlushNext(w) \/ PopOwn(w) \/ Steal(w) \/ StealMisses(w)
    \/ (\E q \in Queues : Respawn(w, q) \/ \E t \in Tasks : Spawn(w, t, q))
    \/ Complete(w) \/ ReadyDec(w) \/ Count(w) \/ Push(w)

(* The host is done, or handle_failed_ready_queue_insertion aborted. *)
Ended == (phase = "end" \/ no_team) /\ UNCHANGED vars

Next == (\E t \in Tasks, q \in Queues : HostSpawn(t, q)) \/ Wait \/ WaitReturns \/ (\E w \in Teams : Step(w)) \/ Ended

Spec == Init /\ [][Next]_vars

(* Threads keep running and functors return. *)
FairSpec == Spec /\ WF_vars(WaitReturns) /\ \A w \in Teams : WF_vars(Step(w))

-----------------------------------------------------------------------------
(* The n-th task of a failed list.  While a flush has pushed the head and  *)
(* not yet stepped past it, the list begins after the head.                *)
Failed(w, q) ==
    LET flushing == Me(w).pc = "flush_next" /\ Me(w).q = q
        f[n \in 0..MaxTasks] ==
           IF n = 0
           THEN IF flushing THEN next[m_failed_heads[w][q]] ELSE m_failed_heads[w][q]
           ELSE IF f[n - 1] = Null THEN Null ELSE next[f[n - 1]]
    IN f

(* A task is in one deque, one failed list or the hands of one thread,     *)
(* until it completes: none is lost when its deque is full, and none is    *)
(* handed out twice.  Unless a flush was overtaken, the case that          *)
(* FailedListIsNotConcurrent is about: then failed lists are joined or cut.*)
InOnePlace ==
    \A t \in Tasks :
       LET queued == {<<w, q, i>> \in Teams \X Queues \X (1..Size) :
                         i <= Len(m_ready_queues[w][q]) /\ m_ready_queues[w][q][i] = t}
           failed == {<<w, q, i>> \in Teams \X Queues \X (0..MaxTasks) : Failed(w, q)[i] = t}
           held == {w \in Teams : Me(w).task = t \/ Me(w).runs = t}
       IN ~no_team /\ ~overtaken => Cardinality(queued) + Cardinality(failed) + Cardinality(held)
                        = IF t \in live THEN 1 ELSE 0

(* is_done() during wait() means that every task created is complete, also *)
(* those that sat in failed lists, and that no thread is inside one.       *)
DoneMeansQuiescent ==
    phase = "execute" /\ m_ready_count = 0 /\ ~overtaken =>
       /\ live = {}
       /\ \A w \in Teams : \/ Me(w).pc \in {"out", "loop", "pop", "steal"}
                           \/ Me(w).pc = "flush" /\ Me(w).then = "pop"

(* wait() returns: tasks in a failed list get their turn.  It promises     *)
(* nothing once a flush was overtaken and may have lost its list.          *)
WaitTerminates == (phase = "execute") ~> (phase = "end" \/ overtaken)

(* "A *non*-concurrent linked list of tasks that failed to be enqueued":   *)
(* while a team walks its failed list, no other team deallocates the task  *)
(* whose link it is about to read, or links it into a list of its own.     *)
FailedListIsNotConcurrent == ~overtaken
=============================================================================
