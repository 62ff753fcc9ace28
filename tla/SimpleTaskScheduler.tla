------------------------ MODULE SimpleTaskScheduler ------------------------
(***************************************************************************)
(* A SimpleTaskScheduler over a SingleTaskQueue with lock-based ready      *)
(* queues, and the OpenMP executor with teams of one thread: the host's    *)
(* user code creates tasks, wait() runs them on the workers, and tasks     *)
(* create, wait for and respawn tasks while they run.                      *)
(*                                                                         *)
(* User code (the host's, and the functor of a task) is any program that   *)
(* owns futures it got from spawn and when_all or was given a copy of when *)
(* it was created; holds[o] are the tasks o has a future of.               *)
(***************************************************************************)
EXTENDS TaskQueueCommon, FiniteSets

CONSTANTS Workers,      \* the threads of the pool
          Main,         \* the actor that runs the host's user code
          MaxRespawns,  \* bound: number of respawns
          MaxWaits,     \* bound: calls of wait()
          MaxVla        \* bound: futures given to one when_all

ASSUME ActorsAssumption == Actors = Workers \cup {Main} /\ Main \notin Workers
ASSUME PoolAssumption == IsFiniteSet(Workers) /\ Workers # {}
ASSUME BoundsAssumption == MaxRespawns \in Nat /\ MaxWaits \in Nat /\ MaxVla \in Nat

VARIABLES holds,        \* futures owned by each task's functor, 0 the host
          allocated,    \* number of tasks allocated so far
          where,        \* each worker: out of execute, at its loop, scanning
          phase,        \* "main", "execute", or "end" when the host is done
          waits,        \* number of calls of wait() so far
          after,        \* what each task was told to wait for
          respawns      \* number of respawns so far

userVars == <<holds, allocated, after, respawns>>
execVars == <<where, phase, waits>>
vars == <<live, task_type, m_ref_count, m_wait_queue, consumed, m_predecessor,
          m_is_respawning, vla, queue_index, m_ready_queues, m_ready_count,
          stack, holds, allocated, where, phase, waits, after, respawns>>

HostCode == 0           \* the owner of the host's futures
Owners   == Tasks \cup {HostCode}
Out      == NumQueues + 1    \* where a worker is outside of execute()
AtLoop   == 0                \* ... and at the head of its loop

Init ==
    /\ CommonInit
    /\ stack = [a \in Actors |-> IF a = Main THEN <<Frame("user", HostCode)>> ELSE << >>]
    /\ holds = [o \in Owners |-> {}]
    /\ allocated = 0
    /\ where = [w \in Workers |-> Out]
    /\ phase = "main"
    /\ waits = 0
    /\ after = [t \in Tasks |-> {}]
    /\ respawns = 0

-----------------------------------------------------------------------------
(* What user code does *)

Running(a) == At(a, "user") /\ (a = Main => phase = "main")
Owner(a)   == Top(a).task

(* Bound: the host creates tasks only before its last wait(). *)
MayCreate(a) == Running(a) /\ allocated < MaxTasks /\ (a = Main => waits < MaxWaits)

(* _spawn_impl: a task with two references, one for its completion and one *)
(* for the future.  set_predecessor's reference is given back at once,     *)
(* since the policy keeps a future of the predecessor until the task is    *)
(* scheduled.  The functor keeps copies of some futures.                   *)
Spawn(a, p, copies, q) ==
    /\ MayCreate(a)
    /\ LET n == allocated + 1 IN
         /\ allocated' = n
         /\ live' = live \cup {n}
         /\ task_type' = [task_type EXCEPT ![n] = "runnable"]
         /\ m_ref_count' = [t \in Tasks |-> IF t = n THEN 2
                                            ELSE IF t \in copies THEN m_ref_count[t] + 1
                                            ELSE m_ref_count[t]]
         /\ m_predecessor' = [m_predecessor EXCEPT ![n] = p]
         /\ queue_index' = [queue_index EXCEPT ![n] = q]
         /\ holds' = [holds EXCEPT ![Owner(a)] = @ \cup {n}, ![n] = copies]
         /\ after' = [after EXCEPT ![n] = {p} \ {Null}]
         /\ Call(a, Frame("schedule", n), Top(a))
    /\ UNCHANGED <<m_wait_queue, consumed, m_is_respawning, vla, queueVars,
                   execVars, respawns>>

Occurrences(s, t) == Cardinality({i \in 1..Len(s) : s[i] = t})

(* when_all: an aggregate with a reference for each non-null entry.  (The  *)
(* form with an array creates none if all entries are null.)               *)
WhenAll(a, s) ==
    /\ MayCreate(a)
    /\ LET n == allocated + 1 IN
         /\ allocated' = n
         /\ live' = live \cup {n}
         /\ task_type' = [task_type EXCEPT ![n] = "aggregate"]
         /\ m_ref_count' = [t \in Tasks |-> IF t = n THEN 2
                                            ELSE m_ref_count[t] + Occurrences(s, t)]
         /\ vla' = [vla EXCEPT ![n] = s]
         /\ holds' = [holds EXCEPT ![Owner(a)] = @ \cup {n}]
         /\ after' = [after EXCEPT ![n] = {s[i] : i \in 1..Len(s)} \ {Null}]
         /\ Call(a, Frame("aggregate", n), Top(a))
    /\ UNCHANGED <<m_wait_queue, consumed, m_predecessor, m_is_respawning,
                   queue_index, queueVars, execVars, respawns>>

(* Mutant: the reference of the predecessor is not counted. *)
RespawnUncounted(a, p, q) ==
    /\ Running(a) /\ a # Main
    /\ LET t == Owner(a) IN
         /\ ~m_is_respawning[t]
         /\ respawns < MaxRespawns
         /\ queue_index' = [queue_index EXCEPT ![t] = q]
         /\ m_predecessor' = [m_predecessor EXCEPT ![t] = p]
         /\ m_is_respawning' = [m_is_respawning EXCEPT ![t] = TRUE]
         /\ respawns' = respawns + 1
         /\ after' = [after EXCEPT ![t] = @ \cup ({p} \ {Null})]
    /\ UNCHANGED <<live, task_type, m_ref_count, m_wait_queue, consumed, vla, queueVars,
                   stack, holds, allocated, execVars>>

(* respawn: the running task sets its priority, its predecessor (with a    *)
(* reference) and the flag.                                                *)
Respawn(a, p, q) ==
    /\ Running(a) /\ a # Main
    /\ LET t == Owner(a) IN
         /\ ~m_is_respawning[t]
         /\ respawns < MaxRespawns
         /\ queue_index' = [queue_index EXCEPT ![t] = q]
         /\ m_predecessor' = [m_predecessor EXCEPT ![t] = p]
         /\ m_ref_count' = [u \in Tasks |-> m_ref_count[u] + IF u = p THEN 1 ELSE 0]
         /\ m_is_respawning' = [m_is_respawning EXCEPT ![t] = TRUE]
         /\ respawns' = respawns + 1
         /\ after' = [after EXCEPT ![t] = @ \cup ({p} \ {Null})]
    /\ UNCHANGED <<live, task_type, m_wait_queue, consumed, vla, queueVars,
                   stack, holds, allocated, execVars>>

(* A future goes out of scope: BasicFuture::clear(). *)
DropFuture(a, p) ==
    /\ Running(a)
    /\ p \in holds[Owner(a)]
    /\ Release(p)
    /\ holds' = [holds EXCEPT ![Owner(a)] = @ \ {p}]
    /\ UNCHANGED <<task_type, m_wait_queue, consumed, m_predecessor,
                   m_is_respawning, vla, queue_index, queueVars, stack,
                   allocated, execVars, after, respawns>>

(* The functor returns; unless it respawned, RunnableTask::apply destroys  *)
(* it before the queue completes the task.                                 *)
FunctorReturns(a) ==
    /\ Running(a) /\ a # Main
    /\ Goto(a, Frame(IF m_is_respawning[Owner(a)] THEN "complete" ELSE "destroy", Owner(a)))
    /\ UNCHANGED <<taskVars, queueVars, userVars, execVars>>

(* The functor's destructor drops its futures one after the other. *)
DestroyFuture(a, p) ==
    /\ At(a, "destroy")
    /\ p \in holds[Owner(a)]
    /\ Release(p)
    /\ holds' = [holds EXCEPT ![Owner(a)] = @ \ {p}]
    /\ UNCHANGED <<task_type, m_wait_queue, consumed, m_predecessor,
                   m_is_respawning, vla, queue_index, queueVars, stack,
                   allocated, execVars, after, respawns>>

Destroyed(a) ==
    /\ At(a, "destroy")
    /\ holds[Owner(a)] = {}
    /\ Goto(a, Frame("complete", Owner(a)))
    /\ UNCHANGED <<taskVars, queueVars, userVars, execVars>>

-----------------------------------------------------------------------------
(* wait() and the executor *)

(* wait(scheduler) enters the parallel region ... *)
Wait ==
    /\ phase = "main" /\ At(Main, "user")
    /\ waits < MaxWaits
    /\ phase' = "execute"
    /\ waits' = waits + 1
    /\ where' = [w \in Workers |-> AtLoop]
    /\ UNCHANGED <<taskVars, queueVars, stack, userVars>>

(* ... and leaves it when all workers have left their loops. *)
WaitReturns ==
    /\ phase = "execute"
    /\ \A w \in Workers : where[w] = Out /\ stack[w] = << >>
    /\ phase' = "main"
    /\ UNCHANGED <<taskVars, queueVars, stack, where, waits, userVars>>

(* while (!queue.is_done()) *)
Loop(w) ==
    /\ where[w] = AtLoop /\ stack[w] = << >>
    /\ where' = [where EXCEPT ![w] = IF m_ready_count = 0 THEN Out ELSE 1]
    /\ UNCHANGED <<taskVars, queueVars, stack, phase, waits, userVars>>

(* pop_ready_task pops from one queue after the other; a task that is      *)
(* found runs, with its respawn flag cleared.                              *)
Scan(w) ==
    /\ where[w] \in Queues /\ stack[w] = << >>
    /\ LET q == where[w] IN
         \/ /\ m_ready_queues[q] # << >>
            /\ m_ready_queues' = [m_ready_queues EXCEPT ![q] = Tail(@)]
            /\ m_is_respawning' = [m_is_respawning EXCEPT ![Head(m_ready_queues[q])] = FALSE]
            /\ stack' = [stack EXCEPT ![w] = <<Frame("user", Head(m_ready_queues[q]))>>]
            /\ where' = [where EXCEPT ![w] = AtLoop]
         \/ /\ m_ready_queues[q] = << >>
            /\ where' = [where EXCEPT ![w] = IF q = NumQueues THEN AtLoop ELSE q + 1]
            /\ UNCHANGED <<m_ready_queues, m_is_respawning, stack>>
    /\ UNCHANGED <<live, task_type, m_ref_count, m_wait_queue, consumed, m_predecessor,
                   vla, queue_index, m_ready_count, phase, waits, userVars>>

(* The host has no more to do: the scheduler and its queue are destroyed. *)
End ==
    /\ phase = "main" /\ At(Main, "user")
    /\ waits = MaxWaits
    /\ holds[HostCode] = {}
    /\ phase' = "end"
    /\ UNCHANGED <<taskVars, queueVars, stack, where, waits, userVars>>

-----------------------------------------------------------------------------
(* Bound: a functor is created with a copy of at most one future. *)
Copies(a) == {{}} \cup {{p} : p \in holds[Owner(a)]}

(* Null futures in the argument of when_all stand for a shorter one.       *)
UserStep(a) ==
    \/ /\ MayCreate(a)
       /\ \/ \E p \in holds[Owner(a)] \cup {Null}, q \in Queues, copies \in Copies(a) :
                 Spawn(a, p, copies, q)
          \/ \E s \in [1..MaxVla -> holds[Owner(a)] \cup {Null}] : WhenAll(a, s)
    \/ /\ Running(a)
       /\ \/ \E p \in holds[Owner(a)] \cup {Null}, q \in Queues : Respawn(a, p, q)
          \/ \E p \in holds[Owner(a)] : DropFuture(a, p)
    \/ FunctorReturns(a)

LibraryStep(a) ==
    \/ QueueStep(a) /\ UNCHANGED <<userVars, execVars>>
    \/ \E p \in Tasks : DestroyFuture(a, p)
    \/ Destroyed(a)

WorkerStep(w) == UserStep(w) \/ LibraryStep(w) \/ Loop(w) \/ Scan(w)

MainStep == UserStep(Main) \/ LibraryStep(Main) \/ Wait \/ WaitReturns \/ End

(* The program is over; nothing else may stop. *)
Ended == phase = "end" /\ UNCHANGED vars

Next == MainStep \/ (\E w \in Workers : WorkerStep(w)) \/ Ended

Spec == Init /\ [][Next]_vars

(* The threads keep running, functors return, and the parallel region ends *)
(* once all threads have left it.                                          *)
FairSpec == Spec /\ WF_vars(WaitReturns) /\ \A w \in Workers : WF_vars(WorkerStep(w))

-----------------------------------------------------------------------------
Created == 1..allocated

Frames == UNION {{stack[a][i] : i \in 1..Len(stack[a])} : a \in Actors}

(* The memory the rest of a function is going to read or write. *)
Touches(f) ==
    CASE f.at = "schedule" -> {f.task, m_predecessor[f.task]}
      [] f.at = "info" -> {f.task, f.pred}
      [] f.at \in {"unref", "aggregate_unref"} -> {f.pred} \cup (IF f.next = "return" THEN {} ELSE {f.task})
      [] f.at = "aggregate" -> {f.task} \cup {vla[f.task][i] : i \in 1..Len(vla[f.task])}
      [] f.at = "visit" -> {f.task} \cup {f.rest[i] : i \in 1..Len(f.rest)}
      [] f.at = "ready_dec" -> {}
      [] OTHER -> {f.task}

(* No thread touches a task that was deallocated, whichever of the future, *)
(* the completion, a respawned successor or an aggregate was the last to   *)
(* drop its reference; nor do the queues hold such a task.                 *)
NoUseAfterFree ==
    /\ \A f \in Frames : Touches(f) \ {Null} \subseteq live
    /\ \A q \in Queues : \A i \in 1..Len(m_ready_queues[q]) : m_ready_queues[q][i] \in live
    /\ \A t \in live : \A i \in 1..Len(m_wait_queue[t]) : m_wait_queue[t][i] \in live
    /\ \A o \in Owners : holds[o] \subseteq live

(* Actors' frames, as a set of places. *)
FramePlaces == UNION {{a} \X (1..Len(stack[a])) : a \in Actors}
FrameAt(x) == stack[x[1]][x[2]]

(* A frame is about to give up a reference to t, or t is in its hands. *)
Releases(f, t) ==
    f.pred = t /\ (f.at \in {"unref", "aggregate_unref"} \/ (f.at = "info" /\ f.next = "unref"))
HoldsTask(f, t) ==
    \/ /\ f.task = t
       /\ \/ f.at \notin {"unref", "aggregate_unref", "visit", "ready_dec"}
          \/ f.at \in {"unref", "aggregate_unref"} /\ f.next # "return"
    \/ f.at = "visit" /\ \E i \in 1..Len(f.rest) : f.rest[i] = t

Futures(t)    == {o \in Owners : t \in holds[o]}
Entries(t)    == {e \in Created \X (1..MaxVla) : e[2] <= Len(vla[e[1]]) /\ vla[e[1]][e[2]] = t}
Respawning(t) == {u \in Created : m_is_respawning[u] /\ m_predecessor[u] = t}
Releasing(t)  == {x \in FramePlaces : Releases(FrameAt(x), t)}
Completing(t) == {x \in FramePlaces : FrameAt(x).at = "visit" /\ FrameAt(x).task = t}

(* The reference count of a task is exactly the number of the references:  *)
(* futures, the task's own until it is complete, the entries of aggregates *)
(* and the predecessor of a respawning task, and those about to be given   *)
(* up.  A task is deallocated exactly when there are none.                 *)
RefCountIsExact ==
    \A t \in Created :
       /\ m_ref_count[t] = Cardinality(Futures(t)) + Cardinality(Entries(t))
                           + Cardinality(Respawning(t)) + Cardinality(Releasing(t))
                           + (IF ~consumed[t] \/ Completing(t) # {} THEN 1 ELSE 0)
       /\ t \in live <=> m_ref_count[t] > 0

(* A task that is not complete is in exactly one place: one ready queue,   *)
(* one wait queue or the hands of one thread.  So no task is lost, none    *)
(* runs on two threads, and the comments on exclusive access are right.    *)
ReadyAt(t)   == {e \in Queues \X (1..MaxTasks) : e[2] <= Len(m_ready_queues[e[1]]) /\ m_ready_queues[e[1]][e[2]] = t}
WaitingAt(t) == {e \in Created \X (1..MaxTasks) : e[2] <= Len(m_wait_queue[e[1]]) /\ m_wait_queue[e[1]][e[2]] = t}
HeldAt(t)    == {x \in FramePlaces : HoldsTask(FrameAt(x), t)}
InOnePlace ==
    \A t \in Created :
       Cardinality(ReadyAt(t)) + Cardinality(WaitingAt(t)) + Cardinality(HeldAt(t))
          = IF consumed[t] THEN 0 ELSE 1

(* A task becomes ready only when everything it was told to wait for is    *)
(* complete, and so does an aggregate complete: also when a predecessor    *)
(* completes while the task is just about to wait for it.                  *)
ReadyAfterPredecessors ==
    /\ \A q \in Queues : \A i \in 1..Len(m_ready_queues[q]) :
          \A p \in after[m_ready_queues[q][i]] : consumed[p]
    /\ \A g \in Created : task_type[g] = "aggregate" /\ consumed[g] =>
          \A p \in after[g] : consumed[p]

(* is_done() during wait() means quiescence: every task created so far is  *)
(* complete and no thread is still inside one.  ("... preventing           *)
(* quiescence.  Thus, it's safe to decrement the ready count here.")       *)
DoneMeansQuiescent ==
    phase = "execute" /\ m_ready_count = 0 =>
       (\A t \in Created : consumed[t]) /\ (\A w \in Workers : stack[w] = << >>)

(* After wait() and with all futures gone nothing is left: the ready count *)
(* is 0 and the queues are empty, as the destructors of the queue expect,  *)
(* and every task was deallocated (allocation_count() == 0 in the tests).  *)
NothingLeftAtEnd ==
    phase = "end" => m_ready_count = 0 /\ live = {} /\ \A q \in Queues : m_ready_queues[q] = << >>

(* wait() returns, whatever the tasks spawn, wait for and respawn: again   *)
(* and again the host is out of it.                                        *)
WaitTerminates == []<>(phase # "execute")
=============================================================================
