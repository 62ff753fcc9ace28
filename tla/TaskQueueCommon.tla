-------------------------- MODULE TaskQueueCommon --------------------------
(***************************************************************************)
(* What all task queues of SimpleTaskScheduler share                       *)
(* (TaskQueueCommonMixin, TaskNode, RunnableTaskBase, AggregateTask):      *)
(* scheduling a runnable task or an aggregate and completing either.       *)
(*                                                                         *)
(* These functions call each other (completing a task schedules the tasks  *)
(* that waited for it, which may complete an aggregate, ...), so a thread  *)
(* has a stack of frames, the top last.  A step is the part of a function  *)
(* up to its next access to a word other threads change: a reference       *)
(* count, a wait queue, a ready queue or the ready count.  Wait queues and *)
(* ready queues are the atomic objects that SingleConsumeLIFO and          *)
(* LockBasedLIFO are shown to implement.                                   *)
(***************************************************************************)
EXTENDS Naturals, Sequences

CONSTANTS Actors,     \* the threads, and the host's user code
          MaxTasks,   \* bound: tasks are numbered in the order of allocation
          NumQueues   \* ready queues, in the order pop_ready_task scans them

ASSUME CountsAssumption == MaxTasks \in Nat /\ NumQueues \in Nat \ {0}

Tasks == 1..MaxTasks
Null  == 0            \* a null task pointer
Queues == 1..NumQueues

VARIABLES live,               \* tasks whose memory is allocated
          task_type,          \* "runnable" or "aggregate"
          m_ref_count,
          m_wait_queue,       \* the tasks that wait, the last one first
          consumed,           \* wait_queue_is_consumed()
          m_predecessor,      \* of a runnable task
          m_is_respawning,
          vla,                \* the predecessors of an aggregate
          queue_index,        \* the ready queue that priority and type select
          m_ready_queues,
          m_ready_count,
          stack               \* the frames of each actor

taskVars  == <<live, task_type, m_ref_count, m_wait_queue, consumed,
               m_predecessor, m_is_respawning, vla, queue_index>>
queueVars == <<m_ready_queues, m_ready_count>>

CommonInit ==
    /\ live = {}
    /\ task_type = [t \in Tasks |-> "runnable"]
    /\ m_ref_count = [t \in Tasks |-> 0]
    /\ m_wait_queue = [t \in Tasks |-> << >>]
    /\ consumed = [t \in Tasks |-> FALSE]
    /\ m_predecessor = [t \in Tasks |-> Null]
    /\ m_is_respawning = [t \in Tasks |-> FALSE]
    /\ vla = [t \in Tasks |-> << >>]
    /\ queue_index = [t \in Tasks |-> 1]
    /\ m_ready_queues = [q \in Queues |-> << >>]
    /\ m_ready_count = 0

-----------------------------------------------------------------------------
(* Frames: where a function is, its task, the predecessor it works on, the *)
(* rest of a list it walks and where it goes on.                           *)

Frame(at, t) == [at |-> at, task |-> t, pred |-> Null, rest |-> << >>, next |-> "return"]

Top(a)      == stack[a][Len(stack[a])]
At(a, at)   == stack[a] # << >> /\ Top(a).at = at
Goto(a, f)  == stack' = [stack EXCEPT ![a] = [@ EXCEPT ![Len(@)] = f]]
Call(a, callee, f) == stack' = [stack EXCEPT ![a] = Append([@ EXCEPT ![Len(@)] = f], callee)]
Return(a)   == stack' = [stack EXCEPT ![a] = SubSeq(@, 1, Len(@) - 1)]

(* Mutant: the result of the decrement is ignored. *)
ReleaseNoDelete(p) ==
    /\ m_ref_count' = [m_ref_count EXCEPT ![p] = @ - 1]
    /\ UNCHANGED live

(* decrement_and_check_reference_count() and, when it says so, deallocate. *)
Release(p) ==
    /\ m_ref_count' = [m_ref_count EXCEPT ![p] = @ - 1]
    /\ live' = IF m_ref_count[p] = 1 THEN live \ {p} ELSE live

-----------------------------------------------------------------------------
(* schedule_runnable_to_queue(task, ready_queue, info) *)

(* Mutant: the predecessor is not looked at. *)
ScheduleReadyAnyway(a) ==
    /\ At(a, "schedule")
    /\ LET t == Top(a).task IN
         /\ m_is_respawning' = [m_is_respawning EXCEPT ![t] = FALSE]
         /\ Goto(a, Frame("push", t))
    /\ m_ready_count' = m_ready_count + 1
    /\ UNCHANGED <<live, task_type, m_ref_count, m_wait_queue, consumed,
                   m_predecessor, vla, queue_index, m_ready_queues>>

(* The respawn flag is cleared; a task without predecessor is ready, and   *)
(* is counted before it is pushed.                                         *)
ScheduleReady(a) ==
    /\ At(a, "schedule")
    /\ LET t == Top(a).task IN
         /\ m_predecessor[t] = Null
         /\ m_is_respawning' = [m_is_respawning EXCEPT ![t] = FALSE]
         /\ Goto(a, Frame("push", t))
    /\ m_ready_count' = m_ready_count + 1
    /\ UNCHANGED <<live, task_type, m_ref_count, m_wait_queue, consumed,
                   m_predecessor, vla, queue_index, m_ready_queues>>

(* A task with a predecessor forgets it and tries to wait for it.  If      *)
(* try_add_waiting is refused the predecessor is done: a runnable one      *)
(* hands on its scheduling info, and the task is scheduled anew.  Only a   *)
(* respawning task owns a reference to its predecessor.                    *)
ScheduleWaiting(a) ==
    /\ At(a, "schedule")
    /\ LET t == Top(a).task
           p == m_predecessor[t]
           Using(at, next) == [Frame(at, t) EXCEPT !.pred = p, !.next = next]
           respawning == m_is_respawning[t]
       IN
         /\ p # Null
         /\ m_predecessor' = [m_predecessor EXCEPT ![t] = Null]
         /\ m_is_respawning' = [m_is_respawning EXCEPT ![t] = FALSE]
         /\ \/ /\ ~consumed[p]
               /\ m_wait_queue' = [m_wait_queue EXCEPT ![p] = <<t>> \o @]
               /\ IF respawning THEN Goto(a, Using("unref", "return")) ELSE Return(a)
            \/ /\ consumed[p] /\ task_type[p] = "runnable"
               /\ Goto(a, Using("info", IF respawning THEN "unref" ELSE "schedule"))
               /\ UNCHANGED m_wait_queue
            \/ /\ consumed[p] /\ task_type[p] = "aggregate"
               /\ Goto(a, IF respawning THEN Using("unref", "schedule") ELSE Frame("schedule", t))
               /\ UNCHANGED m_wait_queue
    /\ UNCHANGED <<live, task_type, m_ref_count, consumed, vla, queue_index, queueVars>>

(* update_scheduling_info_from_completed_predecessor reads the             *)
(* predecessor.                                                            *)
ScheduleInfo(a) ==
    /\ At(a, "info")
    /\ Goto(a, IF Top(a).next = "unref" THEN [Top(a) EXCEPT !.at = "unref", !.next = "schedule"]
                                        ELSE Frame("schedule", Top(a).task))
    /\ UNCHANGED <<taskVars, queueVars>>

(* A respawned task gives up its reference to the predecessor. *)
ScheduleUnref(a) ==
    /\ At(a, "unref")
    /\ Release(Top(a).pred)
    /\ IF Top(a).next = "return" THEN Return(a) ELSE Goto(a, Frame(Top(a).next, Top(a).task))
    /\ UNCHANGED <<task_type, m_wait_queue, consumed, m_predecessor,
                   m_is_respawning, vla, queue_index, queueVars>>

SchedulePush(a) ==
    /\ At(a, "push")
    /\ m_ready_queues' = [m_ready_queues EXCEPT ![queue_index[Top(a).task]] = <<Top(a).task>> \o @]
    /\ Return(a)
    /\ UNCHANGED <<taskVars, m_ready_count>>

-----------------------------------------------------------------------------
(* schedule_aggregate(aggregate, info) *)

NonNull(g) == {i \in 1..Len(vla[g]) : vla[g][i] # Null}
First(g)   == CHOOSE i \in NonNull(g) : \A j \in NonNull(g) : i <= j

(* Mutant: the loop goes on after the aggregate was added to a wait queue. *)
AggregateTryGoesOn(a) ==
    /\ At(a, "aggregate")
    /\ LET g == Top(a).task
           p == vla[g][First(g)]
       IN
         /\ NonNull(g) # {}
         /\ vla' = [vla EXCEPT ![g][First(g)] = Null]
         /\ m_wait_queue' = [m_wait_queue EXCEPT ![p] = IF consumed[p] THEN @ ELSE <<g>> \o @]
         /\ Goto(a, [Frame("aggregate_unref", g) EXCEPT !.pred = p, !.next = "aggregate"])
    /\ UNCHANGED <<live, task_type, m_ref_count, consumed, m_predecessor,
                   m_is_respawning, queue_index, queueVars>>

(* One turn of the loop over the predecessors. *)
AggregateTry(a) ==
    /\ At(a, "aggregate")
    /\ LET g == Top(a).task
           p == vla[g][First(g)]
       IN
         /\ NonNull(g) # {}
         /\ vla' = [vla EXCEPT ![g][First(g)] = Null]
         /\ \/ /\ ~consumed[p]
               /\ m_wait_queue' = [m_wait_queue EXCEPT ![p] = <<g>> \o @]
               /\ Goto(a, [Frame("aggregate_unref", g) EXCEPT !.pred = p])
            \/ /\ consumed[p]
               /\ UNCHANGED m_wait_queue
               /\ Goto(a, [Frame("aggregate_unref", g) EXCEPT !.pred = p, !.next = "aggregate"])
    /\ UNCHANGED <<live, task_type, m_ref_count, consumed, m_predecessor,
                   m_is_respawning, queue_index, queueVars>>

(* The aggregate's reference to the predecessor ends; the loop stops once  *)
(* the aggregate waits.                                                    *)
AggregateUnref(a) ==
    /\ At(a, "aggregate_unref")
    /\ Release(Top(a).pred)
    /\ IF Top(a).next = "return" THEN Return(a) ELSE Goto(a, Frame(Top(a).next, Top(a).task))
    /\ UNCHANGED <<task_type, m_wait_queue, consumed, m_predecessor,
                   m_is_respawning, vla, queue_index, queueVars>>

-----------------------------------------------------------------------------
(* complete(task, info), _complete_finished_task *)

(* Mutant: the ready count goes down before the task is scheduled again. *)
CompleteRespawnLate(a) ==
    /\ At(a, "complete")
    /\ m_is_respawning[Top(a).task]
    /\ Call(a, Frame("ready_dec", Top(a).task), Frame("schedule", Top(a).task))
    /\ UNCHANGED <<taskVars, queueVars>>

(* A task that asked for it is scheduled again, then the ready count goes  *)
(* down whether it was respawned or not.                                   *)
CompleteRespawn(a) ==
    /\ At(a, "complete")
    /\ m_is_respawning[Top(a).task]
    /\ Call(a, Frame("schedule", Top(a).task), Frame("ready_dec", Top(a).task))
    /\ UNCHANGED <<taskVars, queueVars>>

(* A runnable task that is finished, and an aggregate whose predecessors   *)
(* are all done: consume_wait_queue takes the list of waiting tasks ...    *)
Consume(a) ==
    /\ LET t == Top(a).task IN
         /\ \/ At(a, "complete") /\ ~m_is_respawning[t]
            \/ At(a, "aggregate") /\ NonNull(t) = {}
         /\ consumed' = [consumed EXCEPT ![t] = TRUE]
         /\ m_wait_queue' = [m_wait_queue EXCEPT ![t] = << >>]
         /\ Goto(a, [Frame("visit", t) EXCEPT !.rest = m_wait_queue[t]])
    /\ UNCHANGED <<live, task_type, m_ref_count, m_predecessor,
                   m_is_respawning, vla, queue_index, queueVars>>

(* ... and _schedule_waiting_tasks_operation schedules each of them. *)
Visit(a) ==
    /\ At(a, "visit")
    /\ Top(a).rest # << >>
    /\ LET w == Head(Top(a).rest) IN
         Call(a, Frame(IF task_type[w] = "runnable" THEN "schedule" ELSE "aggregate", w),
              [Top(a) EXCEPT !.rest = Tail(@)])
    /\ UNCHANGED <<taskVars, queueVars>>

(* Mutant: the ready count of a finished task stays up. *)
FinishUncounted(a) ==
    /\ At(a, "visit")
    /\ Top(a).rest = << >>
    /\ Release(Top(a).task)
    /\ Return(a)
    /\ UNCHANGED <<task_type, m_wait_queue, consumed, m_predecessor,
                   m_is_respawning, vla, queue_index, queueVars>>

(* The reference every task has until it is complete is given up. *)
Finish(a) ==
    /\ At(a, "visit")
    /\ Top(a).rest = << >>
    /\ Release(Top(a).task)
    /\ IF task_type[Top(a).task] = "runnable"
       THEN Goto(a, Frame("ready_dec", Top(a).task))
       ELSE Return(a)
    /\ UNCHANGED <<task_type, m_wait_queue, consumed, m_predecessor,
                   m_is_respawning, vla, queue_index, queueVars>>

ReadyDec(a) ==
    /\ At(a, "ready_dec")
    /\ m_ready_count' = m_ready_count - 1
    /\ Return(a)
    /\ UNCHANGED <<taskVars, m_ready_queues>>

QueueStep(a) ==
    \/ ScheduleReady(a) \/ ScheduleWaiting(a) \/ ScheduleInfo(a)
    \/ ScheduleUnref(a) \/ SchedulePush(a)
    \/ AggregateTry(a) \/ AggregateUnref(a)
    \/ CompleteRespawn(a) \/ Consume(a)
    \/ Visit(a) \/ Finish(a) \/ ReadyDec(a)
=============================================================================
