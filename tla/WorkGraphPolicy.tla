-------------------------- MODULE WorkGraphPolicy --------------------------
(***************************************************************************)
(* The queue of a WorkGraphPolicy: a row of the graph is pushed when the   *)
(* count of the rows it has to wait for reaches zero, and a thread pops    *)
(* rows from the front, runs them and counts down their successors, until  *)
(* every row has been popped.  One array serves as the queue; an entry is  *)
(* END_TOKEN before it is filled, then a row, then BEGIN_TOKEN.            *)
(*                                                                         *)
(* One action per access to the shared array.                              *)
(***************************************************************************)
EXTENDS Integers, Sequences, FiniteSets

CONSTANTS Workers,   \* the threads that construct the policy and execute it
          NumRows,   \* m_graph.numRows()
          Succ       \* Succ[w]: the entries of row w, the rows to run after it

Rows == 0..(NumRows - 1)
END_TOKEN   == -1
BEGIN_TOKEN == -2

ASSUME GraphAssumption ==
    NumRows \in Nat /\ Succ \in [Rows -> Seq(Rows)] /\ IsFiniteSet(Workers)

VARIABLES ready_queue, count_queue, begin_hint, end_hint,
          todo,      \* the rows that the TagReady kernel has not looked at
          worker,    \* what each thread is doing
          done       \* history: the rows that have run, and how often

graphVars == <<ready_queue, count_queue, begin_hint, end_hint, todo, worker, done>>

(* A thread: its position, the queue entry it looks at, the row it works   *)
(* on, the next successor of the row, and the row it pushes.               *)
Resting == [pc |-> "rest", i |-> 0, w |-> 0, k |-> 1, push |-> 0]

(* The entries of the graph that name row j, and how many they are. *)
EntriesFor(j) == UNION {{<<w, k>> : k \in {l \in DOMAIN Succ[w] : Succ[w][l] = j}} : w \in Rows}
Predecessors(j) == Cardinality(EntriesFor(j))

(* The constructor after the TagInit and the TagCount kernel. *)
GraphInit ==
    /\ ready_queue = [i \in Rows |-> END_TOKEN]
    /\ count_queue = [j \in Rows |-> Predecessors(j)]
    /\ begin_hint = 0 /\ end_hint = 0
    /\ todo = Rows
    /\ worker = [t \in Workers |-> Resting]
    /\ done = [w \in Rows |-> 0]

Doing(t, pc) == worker[t].pc = pc
Become(t, r) == worker' = [worker EXCEPT ![t] = r]

-----------------------------------------------------------------------------
(* TagReady: a row that waits for nothing is pushed. *)
Ready(t, w) ==
    /\ Doing(t, "rest") /\ w \in todo
    /\ todo' = todo \ {w}
    /\ \/ count_queue[w] = 0 /\ Become(t, [Resting EXCEPT !.pc = "push_ready", !.push = w])
       \/ count_queue[w] # 0 /\ UNCHANGED worker
    /\ UNCHANGED <<ready_queue, count_queue, begin_hint, end_hint, done>>

(* push_work: take the next entry, then exchange the row into it; anything *)
(* but a free entry aborts.  The caller goes on with the next row, or with *)
(* the next successor.                                                     *)
PushWork(t) ==
    /\ worker[t].pc \in {"push_ready", "push"}
    /\ end_hint' = end_hint + 1
    /\ Become(t, [worker[t] EXCEPT !.i = end_hint,
                                   !.pc = IF @ = "push" THEN "store" ELSE "store_ready"])
    /\ UNCHANGED <<ready_queue, count_queue, begin_hint, todo, done>>

Store(t) ==
    LET me == worker[t] IN
    /\ me.pc \in {"store_ready", "store"}
    /\ \/ /\ me.i < NumRows
          /\ ready_queue' = [ready_queue EXCEPT ![me.i] = me.push]
          /\ Become(t, IF ready_queue[me.i] # END_TOKEN THEN [me EXCEPT !.pc = "abort"]
                       ELSE IF me.pc = "store" THEN [me EXCEPT !.pc = "count", !.k = @ + 1]
                       ELSE Resting)
       \/ /\ me.i >= NumRows
          /\ Become(t, [me EXCEPT !.pc = "abort"])
          /\ UNCHANGED ready_queue
    /\ UNCHANGED <<count_queue, begin_hint, end_hint, todo, done>>

-----------------------------------------------------------------------------
(* for (w = END_TOKEN; COMPLETED_TOKEN != (w = pop_work());): entered when *)
(* the parallel_for over the policy starts.                                *)
EnterGraph(t) ==
    /\ Doing(t, "rest")
    /\ Become(t, [Resting EXCEPT !.pc = "pop"])
    /\ UNCHANGED <<ready_queue, count_queue, begin_hint, end_hint, todo, done>>

PopWork(t) ==
    /\ Doing(t, "pop")
    /\ Become(t, [Resting EXCEPT !.pc = "look", !.i = begin_hint])
    /\ UNCHANGED <<ready_queue, count_queue, begin_hint, end_hint, todo, done>>

(* Mutant: an entry that is not filled yet is passed over. *)
LookFurther(t) ==
    LET i == worker[t].i IN
    /\ Doing(t, "look")
    /\ \/ i >= NumRows /\ Become(t, [Resting EXCEPT !.pc = "completed"])
       \/ i < NumRows /\ Become(t, CASE ready_queue[i] \in {END_TOKEN, BEGIN_TOKEN} -> [worker[t] EXCEPT !.i = i + 1]
                               [] OTHER -> [worker[t] EXCEPT !.pc = "claim", !.w = ready_queue[i]])
    /\ UNCHANGED <<ready_queue, count_queue, begin_hint, end_hint, todo, done>>

Look(t) ==
    LET i == worker[t].i IN
    /\ Doing(t, "look")
    /\ \/ i >= NumRows /\ Become(t, [Resting EXCEPT !.pc = "completed"])
       \/ i < NumRows /\ Become(t, CASE ready_queue[i] = END_TOKEN   -> [Resting EXCEPT !.pc = "pop"]
                               [] ready_queue[i] = BEGIN_TOKEN -> [worker[t] EXCEPT !.i = i + 1]
                               [] OTHER -> [worker[t] EXCEPT !.pc = "claim", !.w = ready_queue[i]])
    /\ UNCHANGED <<ready_queue, count_queue, begin_hint, end_hint, todo, done>>

Claim(t) ==
    LET i == worker[t].i IN
    /\ Doing(t, "claim")
    /\ \/ /\ ready_queue[i] = worker[t].w
          /\ ready_queue' = [ready_queue EXCEPT ![i] = BEGIN_TOKEN]
          /\ Become(t, [worker[t] EXCEPT !.pc = "hint"])
       \/ /\ ready_queue[i] # worker[t].w
          /\ Become(t, [Resting EXCEPT !.pc = "look", !.i = i + 1])
          /\ UNCHANGED ready_queue
    /\ UNCHANGED <<count_queue, begin_hint, end_hint, todo, done>>

Hint(t) ==
    /\ Doing(t, "hint")
    /\ begin_hint' = begin_hint + 1
    /\ Become(t, [worker[t] EXCEPT !.pc = "run"])
    /\ UNCHANGED <<ready_queue, count_queue, end_hint, todo, done>>

(* The functor runs the row, and completed_work begins. *)
RunRow(t) ==
    /\ Doing(t, "run")
    /\ done' = [done EXCEPT ![worker[t].w] = @ + 1]
    /\ Become(t, [worker[t] EXCEPT !.pc = "count", !.k = 1])
    /\ UNCHANGED <<ready_queue, count_queue, begin_hint, end_hint, todo>>

(* Mutant: a successor is pushed one predecessor too early. *)
CountDownEarly(t) ==
    LET me == worker[t]
        j == Succ[me.w][me.k]
    IN /\ Doing(t, "count")
       /\ \/ /\ me.k > Len(Succ[me.w])
             /\ Become(t, [Resting EXCEPT !.pc = "pop"])
             /\ UNCHANGED count_queue
          \/ /\ me.k <= Len(Succ[me.w])
             /\ count_queue' = [count_queue EXCEPT ![j] = @ - 1]
             /\ Become(t, IF count_queue[j] = Predecessors(j)
                          THEN [me EXCEPT !.pc = "push", !.push = j]
                          ELSE [me EXCEPT !.k = @ + 1])
       /\ UNCHANGED <<ready_queue, begin_hint, end_hint, todo, done>>

(* completed_work: the thread that counts a successor down to zero pushes  *)
(* it; after the last successor the thread pops again.                     *)
CountDown(t) ==
    LET me == worker[t]
        j == Succ[me.w][me.k]
    IN /\ Doing(t, "count")
       /\ \/ /\ me.k > Len(Succ[me.w])
             /\ Become(t, [Resting EXCEPT !.pc = "pop"])
             /\ UNCHANGED count_queue
          \/ /\ me.k <= Len(Succ[me.w])
             /\ count_queue' = [count_queue EXCEPT ![j] = @ - 1]
             /\ Become(t, IF count_queue[j] = 1 THEN [me EXCEPT !.pc = "push", !.push = j]
                          ELSE [me EXCEPT !.k = @ + 1])
       /\ UNCHANGED <<ready_queue, begin_hint, end_hint, todo, done>>

GraphStep(t) ==
    \/ PushWork(t) \/ Store(t) \/ PopWork(t) \/ Look(t) \/ Claim(t) \/ Hint(t)
    \/ RunRow(t) \/ CountDown(t)

(* The policy by itself: the fence after the TagReady kernel separates it  *)
(* from the execution.                                                     *)
Constructed == todo = {} /\ \A t \in Workers : worker[t].pc \notin {"push_ready", "store_ready"}

GraphNext ==
    \E t \in Workers :
       \/ (\E w \in Rows : Ready(t, w))
       \/ Constructed /\ EnterGraph(t)
       \/ GraphStep(t)

GraphSpec == GraphInit /\ [][GraphNext]_graphVars

-----------------------------------------------------------------------------
WorkerState ==
    [pc : {"rest", "push_ready", "store_ready", "pop", "look", "claim", "hint", "run", "count",
           "push", "store", "completed", "abort"},
     i : Nat, w : Rows \cup {0}, k : Nat \ {0}, push : Rows \cup {0}]

GraphTypeOK ==
    /\ ready_queue \in [Rows -> Rows \cup {END_TOKEN, BEGIN_TOKEN}]
    /\ count_queue \in [Rows -> Int] /\ done \in [Rows -> Nat]
    /\ begin_hint \in Nat /\ end_hint \in Nat /\ todo \subseteq Rows
    /\ worker \in [Workers -> WorkerState]

(* "begin hint is guaranteed to be less than or equal to actual begin      *)
(* location in the queue": a thread that starts at the hint passes over no *)
(* entry that still holds a row or is still to be filled.                  *)
HintIsBehind == \A i \in Rows : i < begin_hint => ready_queue[i] = BEGIN_TOKEN

(* pop_work takes an entry only when all before it are taken, so that      *)
(* COMPLETED_TOKEN means that every row has been taken.                    *)
TakenIsAPrefix ==
    /\ \A i, j \in Rows : j < i /\ ready_queue[i] = BEGIN_TOKEN => ready_queue[j] = BEGIN_TOKEN
    /\ \A t \in Workers : Doing(t, "completed") => \A i \in Rows : ready_queue[i] = BEGIN_TOKEN

(* A row runs at most once, and only after every row that names it as a    *)
(* successor; and push_work never finds its entry in use or past the end.  *)
RowsRunInOrder ==
    /\ \A w \in Rows : done[w] <= 1
    /\ \A w \in Rows : \A k \in DOMAIN Succ[w] : done[Succ[w][k]] > 0 => done[w] > 0
    /\ \A t \in Workers : ~Doing(t, "abort")

(* The invariant behind the first two: the taken entries are the first c,  *)
(* and each has been counted in the hint but those of threads that are     *)
(* about to; nobody looks beyond entry c; a thread that has read a row     *)
(* from an entry and not claimed it finds that row there, or the entry is  *)
(* taken; and each thread that is to fill an entry has one to itself,      *)
(* which is still free.                                                    *)
Hinting == {t \in Workers : Doing(t, "hint")}
Storing == {t \in Workers : worker[t].pc \in {"store", "store_ready"}}

HasRow(r) ==
    /\ r.pc \in {"claim", "hint", "run", "count", "push", "store"} => r.w \in Rows
    /\ r.pc \in {"push_ready", "store_ready", "push", "store"} => r.push \in Rows
Within(r, c) ==
    /\ r.pc \in {"look", "claim"} => r.i <= c
    /\ r.pc = "claim" => r.i \in Rows
    /\ r.pc = "completed" => c = NumRows
Taken(c) ==
    /\ \A i \in Rows : ready_queue[i] = BEGIN_TOKEN <=> i < c
    /\ begin_hint + Cardinality(Hinting) = c
    /\ \A t \in Workers : Within(worker[t], c)
Sees(r) == r.pc = "claim" => ready_queue[r.i] \in {r.w, BEGIN_TOKEN}
Reserved ==
    /\ \A i \in Rows : end_hint <= i => ready_queue[i] = END_TOKEN
    /\ \A t \in Storing : /\ worker[t].i < end_hint
                          /\ worker[t].i \in Rows => ready_queue[worker[t].i] = END_TOKEN
    /\ \A t, u \in Storing : t # u => worker[t].i # worker[u].i
GraphInv ==
    /\ GraphTypeOK
    /\ \A t \in Workers : HasRow(worker[t])
    /\ \E c \in 0..NumRows : Taken(c)
    /\ \A t \in Workers : Sees(worker[t])
    /\ Reserved

(* The invariant behind RowsRunInOrder.  A row that has been pushed is in  *)
(* one place: carried by the thread that pushes it or that has claimed it, *)
(* in an entry of the queue, or done.                                      *)
Carries(r, j) ==
    \/ r.pc \in {"push_ready", "push", "store_ready", "store"} /\ r.push = j
    \/ r.pc \in {"hint", "run"} /\ r.w = j
OnePlace ==
    /\ \A t, u \in Workers : \A j \in Rows : Carries(worker[t], j) /\ Carries(worker[u], j) => t = u
    /\ \A i, l \in Rows : ready_queue[i] \in Rows /\ ready_queue[i] = ready_queue[l] => i = l
    /\ \A t \in Workers : \A j \in Rows : Carries(worker[t], j) =>
           done[j] = 0 /\ \A i \in Rows : ready_queue[i] # j
    /\ \A i \in Rows : ready_queue[i] \in Rows => done[ready_queue[i]] = 0
    /\ \A j \in Rows : done[j] <= 1

(* The rows for which push_work has taken an entry: end_hint counts them.  *)
HasEntry(j) ==
    \/ \E t \in Workers : Carries(worker[t], j) /\ worker[t].pc \notin {"push_ready", "push"}
    \/ \E i \in Rows : ready_queue[i] = j
    \/ done[j] > 0
EntryHolders == {j \in Rows : HasEntry(j)}

(* A thread counts down the successors of a row that is done, alone, and   *)
(* only once every row has been looked at by the TagReady kernel.          *)
Counting(r) == r.pc \in {"count", "push", "store"}
CountsAlone ==
    /\ \A t \in Workers : Counting(worker[t]) => done[worker[t].w] = 1
    /\ \A t, u \in Workers :
          Counting(worker[t]) /\ Counting(worker[u]) /\ worker[t].w = worker[u].w => t = u
    /\ \A t \in Workers :
          worker[t].pc \notin {"rest", "push_ready", "store_ready", "abort"} => todo = {}

(* The entries for a row that are still to be counted down: those of rows  *)
(* that are not done, and those that the thread at work has not reached.   *)
Passed(r, k) == k < r.k \/ (r.pc # "count" /\ k = r.k)
Counted(e) ==
    /\ done[e[1]] > 0
    /\ \A t \in Workers : Counting(worker[t]) /\ worker[t].w = e[1] => Passed(worker[t], e[2])
Uncounted(j) == {e \in EntriesFor(j) : ~Counted(e)}

RowsInv ==
    /\ GraphInv
    /\ OnePlace
    /\ CountsAlone
    /\ end_hint = Cardinality(EntryHolders)
    /\ \A j \in Rows : count_queue[j] = Cardinality(Uncounted(j))
    /\ \A j \in Rows : HasEntry(j) \/ (\E t \in Workers : Carries(worker[t], j)) =>
          count_queue[j] = 0 /\ j \notin todo
    /\ \A t \in Workers : ~Doing(t, "abort")
=============================================================================
