---------------------------- MODULE BasicFuture ----------------------------
(***************************************************************************)
(* The futures of SimpleTaskScheduler as counted references                *)
(* (class BasicFuture): construction, copies, moves, assignment and        *)
(* destruction of future variables of one thread, while the tasks they     *)
(* refer to complete.  A future in a variable that is not alive does not   *)
(* exist; every constructor begins and the destructor ends its life.       *)
(***************************************************************************)
EXTENDS Naturals, FiniteSets

CONSTANTS Vars,       \* the variables of future type
          Tasks,
          Null        \* no task: the null pointer

VARIABLES alive,        \* the variables whose lifetime has begun
          m_task,       \* of each variable
          m_ref_count,  \* of each task
          live,         \* tasks that are allocated
          running       \* tasks that have not completed

vars == <<alive, m_task, m_ref_count, live, running>>

Init ==
    /\ alive = {} /\ live = {} /\ running = {}
    /\ m_task = [f \in Vars |-> Null]
    /\ m_ref_count = [t \in Tasks |-> 0]

(* One reference less to `lost`, one more to `won` (Null for none); a task *)
(* that loses its last reference is deallocated.                           *)
Count(lost, won) ==
    /\ m_ref_count' = [t \in Tasks |-> m_ref_count[t] + (IF t = won THEN 1 ELSE 0)
                                                      - (IF t = lost THEN 1 ELSE 0)]
    /\ live' = live \ {t \in Tasks : t = lost /\ t # won /\ m_ref_count[t] = 1}

Begin(f, t) == alive' = alive \cup {f} /\ m_task' = [m_task EXCEPT ![f] = t]

-----------------------------------------------------------------------------
(* spawn: BasicFuture(task) takes one of the two initial references. *)
SpawnFuture(f, t) ==
    /\ f \notin alive /\ t \notin live
    /\ Begin(f, t)
    /\ m_ref_count' = [m_ref_count EXCEPT ![t] = 2]
    /\ live' = live \cup {t} /\ running' = running \cup {t}

(* The task completes and drops its own reference. *)
TaskCompletes(t) ==
    /\ t \in running
    /\ running' = running \ {t}
    /\ Count(t, Null)
    /\ UNCHANGED <<alive, m_task>>

DefaultConstruct(f) ==
    /\ f \notin alive
    /\ Begin(f, Null)
    /\ UNCHANGED <<m_ref_count, live, running>>

CopyConstruct(f, g) ==
    /\ f \notin alive /\ g \in alive
    /\ Begin(f, m_task[g])
    /\ Count(Null, m_task[g])
    /\ UNCHANGED running

MoveConstruct(f, g) ==
    /\ f \notin alive /\ g \in alive
    /\ alive' = alive \cup {f}
    /\ m_task' = [m_task EXCEPT ![f] = m_task[g], ![g] = Null]
    /\ UNCHANGED <<m_ref_count, live, running>>

(* operator=(BasicFuture&&): a different task replaces the old one; for    *)
(* the same task the reference of the right side is given up.  The right   *)
(* side ends up null, also when it is the left side itself.                *)
MoveAssign(f, g) ==
    /\ f \in alive /\ g \in alive
    /\ Count(m_task[f], Null)
    /\ m_task' = [m_task EXCEPT ![f] = m_task[g], ![g] = Null]
    /\ UNCHANGED <<alive, running>>

(* operator=(BasicFuture const&): the count of the task goes up whether or *)
(* not this variable referred to it already.                               *)
CopyAssign(f, g) ==
    /\ f \in alive /\ g \in alive
    /\ m_task' = [m_task EXCEPT ![f] = m_task[g]]
    /\ IF m_task[f] # m_task[g] THEN Count(m_task[f], m_task[g]) ELSE Count(Null, m_task[g])
    /\ UNCHANGED <<alive, running>>

(* operator=(BasicFuture<T, S> const&), from a future of another type. *)
CopyAssignConverted(f, g) ==
    /\ f \in alive /\ g \in alive /\ f # g
    /\ m_task' = [m_task EXCEPT ![f] = m_task[g]]
    /\ IF m_task[f] # m_task[g] THEN Count(m_task[f], m_task[g]) ELSE Count(Null, Null)
    /\ UNCHANGED <<alive, running>>

(* ~BasicFuture() is clear(). *)
Destroy(f) ==
    /\ f \in alive
    /\ alive' = alive \ {f}
    /\ Count(m_task[f], Null)
    /\ m_task' = [m_task EXCEPT ![f] = Null]
    /\ UNCHANGED running

-----------------------------------------------------------------------------
Shared ==
    \/ \E f \in Vars, t \in Tasks : SpawnFuture(f, t)
    \/ \E t \in Tasks : TaskCompletes(t)
    \/ \E f \in Vars : DefaultConstruct(f) \/ Destroy(f)
    \/ \E f, g \in Vars : \/ CopyConstruct(f, g) \/ MoveConstruct(f, g)
                          \/ MoveAssign(f, g) \/ CopyAssignConverted(f, g)

Next == Shared \/ \E f, g \in Vars : CopyAssign(f, g)

Spec == Init /\ [][Next]_vars

(* The programs that never copy-assign a future to one of the same task. *)
NextDistinct == Shared \/ \E f, g \in Vars : m_task[f] # m_task[g] /\ CopyAssign(f, g)

SpecDistinct == Init /\ [][NextDistinct]_vars

-----------------------------------------------------------------------------
TypeOK ==
    /\ alive \subseteq Vars /\ live \subseteq Tasks /\ running \subseteq Tasks
    /\ m_task \in [Vars -> Tasks \cup {Null}]
    /\ m_ref_count \in [Tasks -> Nat]

References(t) == {f \in Vars : m_task[f] = t}

(* The count of a task is the number of futures that refer to it, and one  *)
(* more until it completes; no future refers to a deallocated task and a   *)
(* task with no reference left is deallocated.                             *)
CountsReferences ==
    \A t \in Tasks :
       /\ m_ref_count[t] = Cardinality(References(t)) + IF t \in running THEN 1 ELSE 0
       /\ t \in live <=> m_ref_count[t] > 0

(* When the tasks have completed and the futures are out of scope no task  *)
(* is left in the memory pool, as the tests of the task scheduler assert:  *)
(* ASSERT_EQ(root_sched.queue().allocation_count(), 0).                    *)
NothingIsLeaked == running = {} /\ alive = {} => live = {}
=============================================================================
