-------------------------- MODULE WorkGraphProofs --------------------------
(***************************************************************************)
(* For every graph, every number of threads: the hint of pop_work never    *)
(* passes an entry that is not taken, COMPLETED_TOKEN means that every     *)
(* entry is, and the rows run once each, in the order of the graph.        *)
(***************************************************************************)
EXTENDS WorkGraphPolicy, FiniteSetTheorems, TLAPS

(* Steps are proved by Zenon unless they name another prover. *)
USE ZenonT(20)

(* The threads that are about to update the hint are finitely many. *)
LEMMA HintingIsFinite == IsFiniteSet(Hinting) /\ Cardinality(Hinting) \in Nat
<1>1. Hinting \subseteq Workers
  BY DEF Hinting
<1> QED
  BY <1>1, FS_Subset, FS_CardinalityType, GraphAssumption

(* An entry for row j: a place in the successors of a row. *)
LEMMA EntryFacts ==
    ASSUME NEW j, NEW e
    PROVE  e \in EntriesFor(j) <=>
             \E w \in Rows : \E k \in DOMAIN Succ[w] : e = <<w, k>> /\ Succ[w][k] = j
BY SMTT(20) DEF EntriesFor

(* The entries for a row are finitely many. *)
LEMMA EntriesAreFinite == ASSUME NEW j PROVE IsFiniteSet(EntriesFor(j))
<1> DEFINE Of(w) == {<<w, k>> : k \in {l \in DOMAIN Succ[w] : Succ[w][l] = j}}
           f == [w \in Rows |-> Of(w)]
           S == {Of(w) : w \in Rows}
<1>1. IsFiniteSet(Rows)
  BY FS_Interval, GraphAssumption, SMTT(20) DEF Rows
<1>2. f \in Surjection(Rows, S)
  BY DEF Surjection
<1>3. IsFiniteSet(S)
  BY <1>1, <1>2, FS_Surjection
<1>4. ASSUME NEW T \in S PROVE IsFiniteSet(T)
  <2>1. PICK w \in Rows : T = Of(w)
    OBVIOUS
  <2>2. Succ[w] \in Seq(Rows)
    BY GraphAssumption
  <2>3. DOMAIN Succ[w] = 1..Len(Succ[w]) /\ Len(Succ[w]) \in Nat
    BY <2>2, SMTT(20)
  <2>4. IsFiniteSet(DOMAIN Succ[w])
    <3>1. IsFiniteSet(1..Len(Succ[w]))
      BY <2>3, FS_Interval, SMTT(20)
    <3> QED
      BY <3>1, <2>3
  <2>5. IsFiniteSet({w} \X DOMAIN Succ[w])
    BY <2>4, FS_Singleton, FS_Product
  <2>6. T \in SUBSET ({w} \X DOMAIN Succ[w])
    BY <2>1, SMTT(20)
  <2> QED
    BY <2>5, <2>6, FS_Subset
<1>5. IsFiniteSet(UNION S)
  BY <1>3, <1>4, FS_UNION
<1> QED
  BY <1>5 DEF EntriesFor

(* The count of a row is a number. *)
LEMMA PredecessorsType == ASSUME NEW j PROVE Predecessors(j) \in Nat
BY EntriesAreFinite, FS_CardinalityType DEF Predecessors

(* GraphInv holds before the TagReady kernel. *)
LEMMA GraphInitInv == GraphInit => GraphInv
<1> SUFFICES ASSUME GraphInit PROVE GraphInv
  OBVIOUS
<1>1. GraphTypeOK
  <2>1. count_queue \in [Rows -> Int]
    BY PredecessorsType, SMTT(20) DEF GraphInit
  <2> QED
    BY <2>1, GraphAssumption, SMTT(20) DEF GraphInit, GraphTypeOK, WorkerState, Resting
<1>2. \A t \in Workers : HasRow(worker[t]) /\ Within(worker[t], 0)
  BY DEF GraphInit, HasRow, Within, Resting
<1>3. Hinting = {}
  BY DEF GraphInit, Hinting, Doing, Resting
<1>4. Taken(0)
  BY <1>2, <1>3, FS_EmptySet, GraphAssumption, SMTT(20)
     DEF GraphInit, Taken, Rows, END_TOKEN, BEGIN_TOKEN
<1>5. Reserved
  BY DEF GraphInit, Reserved, Storing, Resting
<1>6. 0 \in 0..NumRows
  BY GraphAssumption, SMTT(20)
<1>7. \A t \in Workers : Sees(worker[t])
  BY DEF GraphInit, Sees, Resting
<1> QED
  BY <1>1, <1>2, <1>4, <1>5, <1>6, <1>7 DEF GraphInv

(* A step of thread t to the state r that leaves the queue and the hints   *)
(* alone, and is neither to nor from the update of the hint.               *)
LEMMA QueueUntouched ==
    ASSUME GraphInv, NEW t \in Workers, NEW r \in WorkerState,
           worker' = [worker EXCEPT ![t] = r],
           UNCHANGED <<ready_queue, begin_hint, end_hint>>,
           count_queue' \in [Rows -> Int], done' \in [Rows -> Nat], todo' \subseteq Rows,
           worker[t].pc # "hint", r.pc \notin {"hint", "store", "store_ready"},
           HasRow(r), Sees(r),
           NEW c \in 0..NumRows, Taken(c), Within(r, c)
    PROVE  GraphInv'
<1>1. worker \in [Workers -> WorkerState]
  BY DEF GraphInv, GraphTypeOK
<1>2. worker'[t] = r /\ \A u \in Workers : u # t => worker'[u] = worker[u]
  BY <1>1
<1>3. GraphTypeOK'
  BY <1>1 DEF GraphInv, GraphTypeOK
<1>4. ASSUME NEW u \in Workers PROVE HasRow(worker'[u]) /\ Within(worker'[u], c)
  BY <1>2 DEF GraphInv, Taken
<1>5. Hinting' = Hinting
  BY <1>2 DEF Hinting, Doing
<1>6. Taken(c)'
  BY <1>4, <1>5 DEF Taken
<1>7. Storing' \subseteq Storing /\ \A u \in Storing' : worker'[u] = worker[u]
  BY <1>2 DEF Storing
<1>8. Reserved'
  BY <1>7 DEF GraphInv, Reserved
<1>9. \A u \in Workers : Sees(worker[u])'
  BY <1>2 DEF GraphInv, Sees
<1> QED
  BY <1>3, <1>4, <1>6, <1>8, <1>9 DEF GraphInv

(* The actions of this kind: TagReady on a row, the beginning of the loop, *)
(* looking at an entry, running a row, counting down.                      *)
LEMMA QuietSteps ==
    ASSUME GraphInv, NEW t \in Workers,
           \/ \E w \in Rows : Ready(t, w)
           \/ EnterGraph(t) \/ PopWork(t) \/ Look(t) \/ RunRow(t) \/ CountDown(t)
    PROVE  GraphInv'
<1> DEFINE me == worker[t]
<1>0. /\ GraphTypeOK /\ HasRow(me) /\ Reserved
      /\ me \in WorkerState
      /\ count_queue \in [Rows -> Int] /\ done \in [Rows -> Nat] /\ todo \subseteq Rows
  BY DEF GraphInv, GraphTypeOK
<1>1. PICK c \in 0..NumRows : Taken(c)
  BY DEF GraphInv
<1>2. Within(me, c)
  BY <1>1 DEF Taken
<1>3. c \in Nat /\ NumRows \in Nat /\ Rows \subseteq Nat /\ \A i \in Nat : i < NumRows <=> i \in Rows
  BY GraphAssumption, SMTT(20) DEF Rows
<1>4. begin_hint <= c /\ begin_hint \in Nat
  BY <1>0, <1>1, <1>3, HintingIsFinite, SMTT(20) DEF Taken, GraphTypeOK
<1>5. CASE \E w \in Rows : Ready(t, w)
  <2>1. PICK w \in Rows : Ready(t, w)
    BY <1>5
  <2>2. PICK r : /\ worker' = [worker EXCEPT ![t] = r]
                 /\ r = me \/ r = [Resting EXCEPT !.pc = "push_ready", !.push = w]
    <3>1. CASE count_queue[w] = 0
      BY <2>1, <3>1 DEF Ready, Become
    <3>2. CASE count_queue[w] # 0
      BY <1>0, <2>1, <3>2 DEF Ready, GraphTypeOK
    <3> QED
      BY <3>1, <3>2
  <2>3. me.pc = "rest" /\ UNCHANGED <<ready_queue, begin_hint, end_hint, count_queue, done>>
        /\ todo' \subseteq Rows
    BY <1>0, <2>1 DEF Ready, Doing
  <2>4. r \in WorkerState /\ r.pc \in {"rest", "push_ready"} /\ HasRow(r) /\ Within(r, c)
    <3>1. CASE r = me
      BY <1>0, <1>2, <2>3, <3>1
    <3>2. CASE r = [Resting EXCEPT !.pc = "push_ready", !.push = w]
      <4>1. r = [pc |-> "push_ready", i |-> 0, w |-> 0, k |-> 1, push |-> w]
        BY <3>2 DEF Resting
      <4> QED
        BY <4>1, SMTT(20) DEF WorkerState, HasRow, Within
    <3> QED
      BY <2>2, <3>1, <3>2
  <2> QED
    BY <1>0, <1>1, <2>2, <2>3, <2>4, QueueUntouched DEF Sees
<1>6. CASE EnterGraph(t) \/ PopWork(t)
  <2>1. PICK r : /\ worker' = [worker EXCEPT ![t] = r]
                 /\ \/ r = [Resting EXCEPT !.pc = "pop"]
                    \/ r = [Resting EXCEPT !.pc = "look", !.i = begin_hint]
    BY <1>6 DEF EnterGraph, PopWork, Become
  <2>2. me.pc # "hint" /\ UNCHANGED <<ready_queue, begin_hint, end_hint, count_queue, done, todo>>
    BY <1>6 DEF EnterGraph, PopWork, Doing
  <2>3. r \in WorkerState /\ r.pc \in {"pop", "look"} /\ HasRow(r) /\ Within(r, c)
    <3>1. \/ r = [pc |-> "pop", i |-> 0, w |-> 0, k |-> 1, push |-> 0]
          \/ r = [pc |-> "look", i |-> begin_hint, w |-> 0, k |-> 1, push |-> 0]
      BY <2>1 DEF Resting
    <3> QED
      BY <1>4, <3>1, SMTT(20) DEF WorkerState, HasRow, Within
  <2> QED
    BY <1>0, <1>1, <2>1, <2>2, <2>3, QueueUntouched DEF Sees
<1>7. CASE Look(t)
  <2> DEFINE i == me.i
  <2>1. i \in Nat /\ i <= c
    BY <1>0, <1>2, <1>7 DEF Look, Doing, Within, WorkerState
  <2>2. PICK r : /\ worker' = [worker EXCEPT ![t] = r]
                 /\ \/ r = [Resting EXCEPT !.pc = "completed"] /\ i >= NumRows
                    \/ r = [Resting EXCEPT !.pc = "pop"]
                    \/ r = [me EXCEPT !.i = i + 1] /\ i \in Rows /\ ready_queue[i] = BEGIN_TOKEN
                    \/ /\ r = [me EXCEPT !.pc = "claim", !.w = ready_queue[i]]
                       /\ i \in Rows /\ ready_queue[i] \notin {BEGIN_TOKEN, END_TOKEN}
    BY <1>3, <1>7, <2>1 DEF Look, Become
  <2>3. ready_queue[i] = BEGIN_TOKEN /\ i \in Rows => i < c
    BY <1>1 DEF Taken
  <2>4. i \in Rows /\ ready_queue[i] \notin {BEGIN_TOKEN, END_TOKEN} => ready_queue[i] \in Rows
    BY <1>0 DEF GraphTypeOK
  <2>5. me.pc = "look" /\ UNCHANGED <<ready_queue, begin_hint, end_hint, count_queue, done, todo>>
    BY <1>7 DEF Look, Doing
  <2>6. r \in WorkerState /\ r.pc \in {"completed", "pop", "look", "claim"} /\ HasRow(r)
    <3>1. CASE \E p \in {"completed", "pop"} : r = [Resting EXCEPT !.pc = p]
      <4>1. PICK p \in {"completed", "pop"} : r = [pc |-> p, i |-> 0, w |-> 0, k |-> 1, push |-> 0]
        BY <3>1 DEF Resting
      <4> QED
        BY <4>1, SMTT(20) DEF WorkerState, HasRow
    <3>2. CASE r = [me EXCEPT !.i = i + 1]
      BY <1>0, <2>1, <2>5, <3>2, SMTT(20) DEF WorkerState, HasRow
    <3>3. CASE r = [me EXCEPT !.pc = "claim", !.w = ready_queue[i]] /\ ready_queue[i] \in Rows
      BY <1>0, <3>3 DEF WorkerState, HasRow
    <3> QED
      BY <2>2, <2>4, <3>1, <3>2, <3>3
  <2>7. Within(r, c)
    <3>1. CASE r = [Resting EXCEPT !.pc = "completed"] /\ i >= NumRows
      BY <1>3, <2>1, <3>1, SMTT(20) DEF Within, Resting
    <3>2. CASE r = [Resting EXCEPT !.pc = "pop"]
      BY <3>2 DEF Within, Resting
    <3>3. CASE r = [me EXCEPT !.i = i + 1] /\ i \in Rows /\ ready_queue[i] = BEGIN_TOKEN
      BY <1>0, <1>3, <2>1, <2>3, <2>5, <3>3, SMTT(20) DEF Within, WorkerState
    <3>4. CASE r = [me EXCEPT !.pc = "claim", !.w = ready_queue[i]] /\ i \in Rows
      BY <1>0, <2>1, <3>4 DEF Within, WorkerState
    <3> QED
      BY <2>2, <3>1, <3>2, <3>3, <3>4
  <2>8. Sees(r)
    <3>1. CASE \E p \in {"completed", "pop"} : r = [Resting EXCEPT !.pc = p]
      BY <3>1 DEF Sees, Resting
    <3>2. CASE r = [me EXCEPT !.i = i + 1]
      BY <1>0, <2>5, <3>2 DEF Sees, WorkerState
    <3>3. CASE r = [me EXCEPT !.pc = "claim", !.w = ready_queue[i]]
      BY <1>0, <3>3 DEF Sees, WorkerState
    <3> QED
      BY <2>2, <3>1, <3>2, <3>3
  <2> QED
    BY <1>0, <1>1, <2>2, <2>5, <2>6, <2>7, <2>8, QueueUntouched
<1>8. CASE RunRow(t)
  <2>1. PICK r : worker' = [worker EXCEPT ![t] = r] /\ r = [me EXCEPT !.pc = "count", !.k = 1]
    BY <1>8 DEF RunRow, Become
  <2>2. me.pc = "run" /\ UNCHANGED <<ready_queue, begin_hint, end_hint, count_queue, todo>>
    BY <1>8 DEF RunRow, Doing
  <2>3. me.w \in Rows /\ done' = [done EXCEPT ![me.w] = @ + 1]
    BY <1>0, <1>8, <2>2 DEF RunRow, HasRow
  <2>4. done' \in [Rows -> Nat]
    BY <1>0, <2>3, SMTT(20)
  <2>5. r \in WorkerState /\ r.pc = "count" /\ HasRow(r) /\ Within(r, c)
    <3>1. r = [pc |-> "count", i |-> me.i, w |-> me.w, k |-> 1, push |-> me.push]
      BY <1>0, <2>1 DEF WorkerState
    <3>2. r \in WorkerState
      BY <1>0, <3>1, SMTT(20) DEF WorkerState
    <3> QED
      BY <2>3, <3>1, <3>2 DEF HasRow, Within
  <2> QED
    BY <1>0, <1>1, <2>1, <2>2, <2>4, <2>5, QueueUntouched DEF Sees
<1>9. CASE CountDown(t)
  <2> DEFINE j == Succ[me.w][me.k]
  <2>1. /\ me.w \in Rows /\ me.pc = "count"
        /\ UNCHANGED <<ready_queue, begin_hint, end_hint, done, todo>>
    BY <1>0, <1>9 DEF HasRow, CountDown, Doing
  <2>2. me.k <= Len(Succ[me.w]) => j \in Rows
    <3>1. Succ[me.w] \in Seq(Rows)
      BY <2>1, GraphAssumption
    <3>2. me.k \in Nat \ {0}
      BY <1>0 DEF WorkerState
    <3> QED
      BY <3>1, <3>2, SMTT(20)
  <2>3. PICK r : /\ worker' = [worker EXCEPT ![t] = r]
                 /\ \/ r = [Resting EXCEPT !.pc = "pop"]
                    \/ r = [me EXCEPT !.pc = "push", !.push = j] /\ j \in Rows
                    \/ r = [me EXCEPT !.k = me.k + 1]
    BY <1>9, <2>2 DEF CountDown, Become
  <2>4. count_queue' \in [Rows -> Int]
    <3>1. \/ count_queue' = count_queue
          \/ j \in Rows /\ count_queue' = [count_queue EXCEPT ![j] = count_queue[j] - 1]
      BY <1>9, <2>2 DEF CountDown
    <3> QED
      BY <1>0, <3>1, SMTT(20)
  <2>5. r \in WorkerState /\ r.pc \in {"pop", "push", "count"} /\ HasRow(r) /\ Within(r, c)
    <3>1. CASE r = [Resting EXCEPT !.pc = "pop"]
      <4>1. r = [pc |-> "pop", i |-> 0, w |-> 0, k |-> 1, push |-> 0]
        BY <3>1 DEF Resting
      <4> QED
        BY <4>1, SMTT(20) DEF WorkerState, HasRow, Within
    <3>2. CASE r = [me EXCEPT !.pc = "push", !.push = j] /\ j \in Rows
      <4>1. r \in WorkerState /\ r.pc = "push" /\ r.w = me.w /\ r.push \in Rows
        BY <1>0, <3>2 DEF WorkerState
      <4> QED
        BY <2>1, <4>1 DEF HasRow, Within
    <3>3. CASE r = [me EXCEPT !.k = me.k + 1]
      <4>1. r \in WorkerState /\ r.pc = "count" /\ r.w = me.w
        <5>1. me.k + 1 \in Nat \ {0}
          BY <1>0, SMTT(20) DEF WorkerState
        <5>2. r = [pc |-> "count", i |-> me.i, w |-> me.w, k |-> me.k + 1, push |-> me.push]
          BY <1>0, <2>1, <3>3 DEF WorkerState
        <5> QED
          BY <1>0, <5>1, <5>2 DEF WorkerState
      <4> QED
        BY <2>1, <4>1 DEF HasRow, Within
    <3> QED
      BY <2>3, <3>1, <3>2, <3>3
  <2> QED
    BY <1>0, <1>1, <2>1, <2>3, <2>4, <2>5, QueueUntouched DEF Sees
<1> QED
  BY <1>5, <1>6, <1>7, <1>8, <1>9

(* push_work: the entry behind the end is reserved, and then filled. *)
LEMMA PushSteps ==
    ASSUME GraphInv, NEW t \in Workers, PushWork(t) \/ Store(t)
    PROVE  GraphInv'
<1> DEFINE me == worker[t]
<1>0. /\ GraphTypeOK /\ HasRow(me) /\ Reserved
      /\ me \in WorkerState /\ worker \in [Workers -> WorkerState]
      /\ end_hint \in Nat
  BY DEF GraphInv, GraphTypeOK
<1>1. PICK c \in 0..NumRows : Taken(c)
  BY DEF GraphInv
<1>2. PICK r : /\ worker' = [worker EXCEPT ![t] = r]
               /\ UNCHANGED <<begin_hint, count_queue, todo, done>>
               /\ \/ /\ PushWork(t)
                     /\ r = [me EXCEPT !.i = end_hint,
                                       !.pc = IF @ = "push" THEN "store" ELSE "store_ready"]
                  \/ /\ Store(t)
                     /\ \/ r = [me EXCEPT !.pc = "abort"]
                        \/ r = [me EXCEPT !.pc = "count", !.k = @ + 1] /\ me.pc = "store"
                        \/ r = Resting
  BY DEF PushWork, Store, Become
<1>3. /\ r \in WorkerState /\ HasRow(r) /\ Within(r, c) /\ r.pc \notin {"hint", "claim"}
      /\ r.pc \in {"store", "store_ready"} <=> PushWork(t)
      /\ me.pc # "hint"
      /\ PushWork(t) => r.i = end_hint
  <2>1. CASE /\ PushWork(t)
             /\ r = [me EXCEPT !.i = end_hint, !.pc = IF @ = "push" THEN "store" ELSE "store_ready"]
    <3>1. me.pc \in {"push", "push_ready"}
      BY <2>1 DEF PushWork
    <3>2. /\ r \in WorkerState /\ r.w = me.w /\ r.push = me.push /\ r.i = end_hint
          /\ r.pc = IF me.pc = "push" THEN "store" ELSE "store_ready"
      BY <1>0, <2>1 DEF WorkerState
    <3> QED
      BY <1>0, <2>1, <3>1, <3>2, SMTT(20) DEF HasRow, Within
  <2>2. CASE Store(t) /\ r = [me EXCEPT !.pc = "abort"]
    <3>1. me.pc \in {"store", "store_ready"} /\ ~PushWork(t)
      BY <2>2 DEF Store, PushWork
    <3>2. r \in WorkerState /\ r.pc = "abort"
      BY <1>0, <2>2 DEF WorkerState
    <3> QED
      BY <3>1, <3>2 DEF HasRow, Within
  <2>3. CASE Store(t) /\ r = [me EXCEPT !.pc = "count", !.k = @ + 1] /\ me.pc = "store"
    <3>1. ~PushWork(t)
      BY <2>3 DEF PushWork
    <3>2. r \in WorkerState /\ r.pc = "count" /\ r.w = me.w
      <4>1. me.k + 1 \in Nat \ {0}
        BY <1>0, SMTT(20) DEF WorkerState
      <4>2. r = [pc |-> "count", i |-> me.i, w |-> me.w, k |-> me.k + 1, push |-> me.push]
        BY <1>0, <2>3 DEF WorkerState
      <4> QED
        BY <1>0, <4>1, <4>2 DEF WorkerState
    <3> QED
      BY <1>0, <2>3, <3>1, <3>2 DEF HasRow, Within
  <2>4. CASE Store(t) /\ r = Resting
    <3>1. me.pc \in {"store", "store_ready"} /\ ~PushWork(t)
      BY <2>4 DEF Store, PushWork
    <3> QED
      BY <2>4, <3>1, SMTT(20) DEF HasRow, Within, Resting, WorkerState
  <2> QED
    BY <1>2, <2>1, <2>2, <2>3, <2>4
<1>4. worker'[t] = r /\ \A u \in Workers : u # t => worker'[u] = worker[u]
  BY <1>0, <1>2
<1>5. Hinting' = Hinting
  BY <1>3, <1>4 DEF Hinting, Doing
<1>6. \A u \in Workers : HasRow(worker'[u]) /\ Within(worker'[u], c)
  BY <1>1, <1>3, <1>4 DEF GraphInv, Taken
<1>7. CASE PushWork(t)
  <2>1. end_hint' = end_hint + 1 /\ ready_queue' = ready_queue
    BY <1>7 DEF PushWork
  <2>2. GraphTypeOK'
    BY <1>0, <1>2, <1>3, <2>1, SMTT(20) DEF GraphTypeOK
  <2>3. Taken(c)'
    BY <1>1, <1>2, <1>5, <1>6, <2>1 DEF Taken
  <2>4. \A u \in Storing' : u # t => u \in Storing /\ worker'[u] = worker[u]
    BY <1>4 DEF Storing
  <2>5. worker'[t].i = end_hint
    BY <1>3, <1>4, <1>7
  <2>6. \A u \in Storing : worker[u].i \in Nat /\ worker[u].i < end_hint
    BY <1>0 DEF Reserved, Storing, WorkerState
  <2>7. \A i \in Rows : end_hint' <= i => ready_queue'[i] = END_TOKEN
    BY <1>0, <2>1, GraphAssumption, SMTT(20) DEF Reserved, Rows
  <2>8. \A u \in Storing' : /\ worker'[u].i < end_hint'
                            /\ worker'[u].i \in Rows => ready_queue'[worker'[u].i] = END_TOKEN
    BY <1>0, <2>1, <2>4, <2>5, <2>6, SMTT(20) DEF Reserved
  <2>9. \A u, v \in Storing' : u # v => worker'[u].i # worker'[v].i
    BY <1>0, <2>4, <2>5, <2>6, SMTT(20) DEF Reserved
  <2>10. \A u \in Workers : Sees(worker[u])'
    BY <1>3, <1>4, <2>1 DEF GraphInv, Sees
  <2> QED
    BY <1>1, <1>6, <2>2, <2>3, <2>7, <2>8, <2>9, <2>10 DEF GraphInv, Reserved
<1>8. CASE Store(t)
  <2>1. t \in Storing /\ end_hint' = end_hint
    BY <1>8 DEF Store, Storing
  <2>2. ~PushWork(t)
    BY <1>8 DEF Store, PushWork
  <2>3. Storing' \subseteq Storing \ {t} /\ \A u \in Storing' : worker'[u] = worker[u]
    BY <1>3, <1>4, <2>2 DEF Storing
  <2>4. me.i \in Nat /\ me.i < end_hint
    BY <1>0, <2>1 DEF Reserved, WorkerState
  <2>5. \/ ready_queue' = ready_queue
        \/ /\ me.i \in Rows /\ me.push \in Rows /\ ready_queue[me.i] = END_TOKEN
           /\ ready_queue' = [ready_queue EXCEPT ![me.i] = me.push]
    <3>1. CASE me.i >= NumRows
      BY <1>8, <2>4, <3>1, GraphAssumption, SMTT(20) DEF Store
    <3>2. CASE me.i < NumRows
      <4>1. me.i \in Rows
        BY <2>4, <3>2, GraphAssumption, SMTT(20) DEF Rows
      <4>2. ready_queue' = [ready_queue EXCEPT ![me.i] = me.push]
        BY <1>8, <2>4, <3>2, GraphAssumption, SMTT(20) DEF Store
      <4>3. me.push \in Rows
        BY <1>0, <2>1 DEF HasRow, Storing
      <4> QED
        BY <1>0, <2>1, <4>1, <4>2, <4>3 DEF Reserved
    <3> QED
      BY <2>4, <3>1, <3>2, GraphAssumption, SMTT(20)
  <2>6. ready_queue \in [Rows -> Rows \cup {END_TOKEN, BEGIN_TOKEN}]
    BY <1>0 DEF GraphTypeOK
  <2>7. ready_queue' \in [Rows -> Rows \cup {END_TOKEN, BEGIN_TOKEN}]
    BY <2>5, <2>6
  <2>8. \A i \in Rows : /\ ready_queue'[i] = BEGIN_TOKEN <=> ready_queue[i] = BEGIN_TOKEN
                        /\ i # me.i => ready_queue'[i] = ready_queue[i]
                        /\ ready_queue[i] # END_TOKEN => ready_queue'[i] = ready_queue[i]
    <3>1. END_TOKEN # BEGIN_TOKEN /\ BEGIN_TOKEN \notin Rows
      BY GraphAssumption, SMTT(20) DEF Rows, END_TOKEN, BEGIN_TOKEN
    <3>2. CASE ready_queue' = ready_queue
      BY <3>2
    <3>3. CASE /\ me.i \in Rows /\ me.push \in Rows /\ ready_queue[me.i] = END_TOKEN
               /\ ready_queue' = [ready_queue EXCEPT ![me.i] = me.push]
      <4>1. ready_queue'[me.i] = me.push /\ \A i \in Rows : i # me.i => ready_queue'[i] = ready_queue[i]
        BY <2>6, <3>3
      <4> QED
        BY <3>1, <3>3, <4>1
    <3> QED
      BY <2>5, <3>2, <3>3
  <2>9. GraphTypeOK'
    BY <1>0, <1>2, <1>3, <2>1, <2>7 DEF GraphTypeOK
  <2>10. Taken(c)'
    BY <1>1, <1>2, <1>5, <1>6, <2>8 DEF Taken
  <2>11. \A i \in Rows : end_hint' <= i => ready_queue'[i] = END_TOKEN
    <3>1. \A i \in Rows : end_hint <= i => i # me.i
      BY <1>0, <2>4, GraphAssumption, SMTT(20) DEF Rows
    <3> QED
      BY <1>0, <2>1, <2>8, <3>1 DEF Reserved
  <2>12. \A u \in Storing' : /\ worker'[u].i < end_hint'
                             /\ worker'[u].i \in Rows => ready_queue'[worker'[u].i] = END_TOKEN
    BY <1>0, <2>1, <2>3, <2>8, SMTT(20) DEF Reserved
  <2>13. \A u, v \in Storing' : u # v => worker'[u].i # worker'[v].i
    BY <1>0, <2>3 DEF Reserved
  <2>14. ASSUME NEW u \in Workers PROVE Sees(worker[u])'
    <3>1. CASE u = t
      BY <1>3, <1>4, <3>1 DEF Sees
    <3>2. CASE u # t
      <4>1. HasRow(worker[u]) /\ Within(worker[u], c) /\ Sees(worker[u])
        BY <1>1 DEF GraphInv, Taken
      <4>2. END_TOKEN # BEGIN_TOKEN /\ END_TOKEN \notin Rows
        BY GraphAssumption, SMTT(20) DEF Rows, END_TOKEN, BEGIN_TOKEN
      <4> QED
        BY <1>4, <2>8, <3>2, <4>1, <4>2 DEF HasRow, Within, Sees
    <3> QED
      BY <3>1, <3>2
  <2> QED
    BY <1>1, <1>6, <2>9, <2>10, <2>11, <2>12, <2>13, <2>14 DEF GraphInv, Reserved
<1> QED
  BY <1>7, <1>8

(* A successful claim takes entry c, and counts one more thread that is    *)
(* about to update the hint; a failed one goes on to the next entry, since *)
(* an entry that holds a row changes only when it is taken.                *)
LEMMA ClaimStep == ASSUME GraphInv, NEW t \in Workers, Claim(t) PROVE GraphInv'
<1> DEFINE me == worker[t]
           i == me.i
<1>0. /\ GraphTypeOK /\ HasRow(me) /\ Reserved
      /\ me \in WorkerState /\ worker \in [Workers -> WorkerState]
      /\ begin_hint \in Nat /\ end_hint \in Nat
      /\ ready_queue \in [Rows -> Rows \cup {END_TOKEN, BEGIN_TOKEN}]
  BY DEF GraphInv, GraphTypeOK
<1>1. PICK c \in 0..NumRows : Taken(c)
  BY DEF GraphInv
<1>2. me.pc = "claim" /\ i \in Rows /\ i <= c /\ me.w \in Rows
  BY <1>0, <1>1 DEF Claim, Doing, Taken, Within, HasRow
<1>3. c \in Nat /\ NumRows \in Nat /\ Rows \subseteq Nat /\ i \in Nat
      /\ (\A n \in Nat : n < NumRows <=> n \in Rows)
  BY <1>2, GraphAssumption, SMTT(20) DEF Rows
<1>4. END_TOKEN # BEGIN_TOKEN /\ BEGIN_TOKEN \notin Rows /\ END_TOKEN \notin Rows
  BY GraphAssumption, SMTT(20) DEF Rows, END_TOKEN, BEGIN_TOKEN
<1>5. UNCHANGED <<count_queue, begin_hint, end_hint, todo, done>>
  BY DEF Claim
<1>6. CASE ready_queue[i] = me.w
  <2> DEFINE r == [me EXCEPT !.pc = "hint"]
  <2>1. ready_queue' = [ready_queue EXCEPT ![i] = BEGIN_TOKEN] /\ worker' = [worker EXCEPT ![t] = r]
    BY <1>6 DEF Claim, Become
  <2>2. r \in WorkerState /\ r.pc = "hint" /\ r.w = me.w
    BY <1>0 DEF WorkerState
  <2>3. worker'[t] = r /\ \A u \in Workers : u # t => worker'[u] = worker[u]
    BY <1>0, <2>1
  <2>4. ready_queue'[i] = BEGIN_TOKEN /\ \A n \in Rows : n # i => ready_queue'[n] = ready_queue[n]
    BY <1>0, <1>2, <2>1
  <2>5. i = c
    <3>1. ~(i < c)
      BY <1>1, <1>2, <1>4, <1>6 DEF Taken
    <3> QED
      BY <1>2, <1>3, <3>1, SMTT(20)
  <2>6. c + 1 \in 0..NumRows
    BY <1>2, <1>3, <2>5, SMTT(20)
  <2>7. GraphTypeOK'
    <3>1. ready_queue' \in [Rows -> Rows \cup {END_TOKEN, BEGIN_TOKEN}]
      BY <1>0, <2>1
    <3> QED
      BY <1>0, <1>5, <2>1, <2>2, <3>1 DEF GraphTypeOK
  <2>8. \A u \in Workers : HasRow(worker'[u])
    BY <1>2, <2>2, <2>3 DEF GraphInv, HasRow
  <2>9. ASSUME NEW u \in Workers PROVE Within(worker'[u], c + 1)
    <3>1. CASE u = t
      BY <2>2, <2>3, <3>1 DEF Within
    <3>2. CASE u # t
      <4>1. Within(worker[u], c) /\ worker[u].i \in Nat
        BY <1>0, <1>1 DEF Taken, WorkerState
      <4>2. c < NumRows
        BY <1>2, <1>3, <2>5
      <4> QED
        BY <1>3, <2>3, <3>2, <4>1, <4>2, SMTT(20) DEF Within
    <3> QED
      BY <3>1, <3>2
  <2>10. Hinting' = Hinting \cup {t} /\ t \notin Hinting
    BY <1>2, <2>2, <2>3 DEF Hinting, Doing
  <2>11. begin_hint' + Cardinality(Hinting') = c + 1
    <3>1. Cardinality(Hinting') = Cardinality(Hinting) + 1
      BY <2>10, HintingIsFinite, FS_AddElement
    <3> QED
      BY <1>0, <1>1, <1>3, <1>5, <3>1, HintingIsFinite, SMTT(20) DEF Taken
  <2>12. \A n \in Rows : ready_queue'[n] = BEGIN_TOKEN <=> n < c + 1
    BY <1>1, <1>3, <2>4, <2>5, SMTT(20) DEF Taken
  <2>13. Taken(c + 1)'
    BY <2>9, <2>11, <2>12 DEF Taken
  <2>14. Storing' = Storing /\ \A u \in Storing : u # t /\ worker'[u] = worker[u]
    BY <1>2, <2>2, <2>3 DEF Storing
  <2>15. \A n \in Rows : end_hint <= n => n # i
    BY <1>0, <1>2, <1>4, <1>6 DEF Reserved
  <2>16. \A u \in Storing : worker[u].i \in Rows => worker[u].i # i
    BY <1>0, <1>2, <1>4, <1>6 DEF Reserved
  <2>17. Reserved'
    BY <1>0, <1>5, <2>4, <2>14, <2>15, <2>16, SMTT(20) DEF Reserved
  <2>18. ASSUME NEW u \in Workers PROVE Sees(worker[u])'
    <3>1. CASE u = t
      BY <2>2, <2>3, <3>1 DEF Sees
    <3>2. CASE u # t
      <4>1. Within(worker[u], c) /\ Sees(worker[u])
        BY <1>1 DEF GraphInv, Taken
      <4> QED
        BY <2>3, <2>4, <3>2, <4>1 DEF Within, Sees
    <3> QED
      BY <3>1, <3>2
  <2> QED
    BY <2>6, <2>7, <2>8, <2>13, <2>17, <2>18 DEF GraphInv
<1>7. CASE ready_queue[i] # me.w
  <2>1. i < c
    BY <1>1, <1>2, <1>7 DEF GraphInv, Sees, Taken
  <2>2. PICK r : /\ worker' = [worker EXCEPT ![t] = r]
                 /\ r = [pc |-> "look", i |-> i + 1, w |-> 0, k |-> 1, push |-> 0]
    BY <1>7 DEF Claim, Become, Resting
  <2>3. ready_queue' = ready_queue
    BY <1>7 DEF Claim
  <2>4. r \in WorkerState
    <3>1. i + 1 \in Nat
      BY <1>3, SMTT(20)
    <3> QED
      BY <2>2, <3>1, SMTT(20) DEF WorkerState
  <2>5. HasRow(r) /\ Sees(r)
    BY <2>2 DEF HasRow, Sees
  <2>6. Within(r, c)
    BY <1>3, <2>1, <2>2, SMTT(20) DEF Within
  <2> QED
    BY <1>0, <1>1, <1>2, <1>5, <2>2, <2>3, <2>4, <2>5, <2>6, QueueUntouched DEF GraphTypeOK
<1> QED
  BY <1>6, <1>7

(* The update of the hint counts the entry that its thread has taken. *)
LEMMA HintStep == ASSUME GraphInv, NEW t \in Workers, Hint(t) PROVE GraphInv'
<1> DEFINE me == worker[t]
           r == [me EXCEPT !.pc = "run"]
<1>0. /\ GraphTypeOK /\ HasRow(me) /\ Reserved
      /\ me \in WorkerState /\ worker \in [Workers -> WorkerState] /\ begin_hint \in Nat
  BY DEF GraphInv, GraphTypeOK
<1>1. PICK c \in 0..NumRows : Taken(c)
  BY DEF GraphInv
<1>2. /\ me.pc = "hint" /\ begin_hint' = begin_hint + 1 /\ worker' = [worker EXCEPT ![t] = r]
      /\ UNCHANGED <<ready_queue, count_queue, end_hint, todo, done>>
  BY DEF Hint, Doing, Become
<1>3. r \in WorkerState /\ r.pc = "run" /\ r.w = me.w
  BY <1>0 DEF WorkerState
<1>4. worker'[t] = r /\ \A u \in Workers : u # t => worker'[u] = worker[u]
  BY <1>0, <1>2
<1>5. GraphTypeOK'
  BY <1>0, <1>2, <1>3, SMTT(20) DEF GraphTypeOK
<1>6. \A u \in Workers : HasRow(worker'[u]) /\ Within(worker'[u], c) /\ Sees(worker[u])'
  BY <1>0, <1>1, <1>2, <1>3, <1>4 DEF GraphInv, HasRow, Within, Sees, Taken
<1>7. Hinting' = Hinting \ {t} /\ t \in Hinting
  BY <1>2, <1>3, <1>4 DEF Hinting, Doing
<1>8. begin_hint' + Cardinality(Hinting') = c
  <2>1. Cardinality(Hinting') = Cardinality(Hinting) - 1
    BY <1>7, HintingIsFinite, FS_RemoveElement
  <2> QED
    BY <1>0, <1>1, <1>2, <2>1, HintingIsFinite, SMTT(20) DEF Taken
<1>9. Taken(c)'
  BY <1>1, <1>2, <1>6, <1>8 DEF Taken
<1>10. Storing' = Storing /\ \A u \in Storing : worker'[u] = worker[u]
  BY <1>2, <1>3, <1>4 DEF Storing
<1>11. Reserved'
  BY <1>0, <1>2, <1>10, SMTT(20) DEF Reserved
<1> QED
  BY <1>5, <1>6, <1>9, <1>11 DEF GraphInv

(* Every step of a thread preserves GraphInv. *)
LEMMA GraphStepInv == GraphInv /\ [GraphNext]_graphVars => GraphInv'
<1> SUFFICES ASSUME GraphInv, [GraphNext]_graphVars PROVE GraphInv'
  OBVIOUS
<1>1. CASE GraphNext
  <2>1. PICK t \in Workers : \/ \E w \in Rows : Ready(t, w)
                             \/ Constructed /\ EnterGraph(t)
                             \/ GraphStep(t)
    BY <1>1 DEF GraphNext
  <2> QED
    BY <2>1, QuietSteps, PushSteps, ClaimStep, HintStep DEF GraphStep
<1>2. CASE UNCHANGED graphVars
  BY <1>2 DEF graphVars, GraphInv, GraphTypeOK, Taken, Hinting, Doing, Sees, Reserved, Storing
<1> QED
  BY <1>1, <1>2

(* GraphInv holds in every state, whatever the graph. *)
LEMMA GraphInvHolds == GraphSpec => []GraphInv
<1>1. GraphInit => GraphInv
  BY GraphInitInv
<1>2. GraphInv /\ [GraphNext]_graphVars => GraphInv'
  BY GraphStepInv
<1> QED
  BY <1>1, <1>2, PTL DEF GraphSpec

(* "begin hint is guaranteed to be less than or equal to actual begin      *)
(* location in the queue": for every graph and every set of threads.       *)
THEOREM HintNeverPasses == GraphSpec => []HintIsBehind
<1>1. GraphInv => HintIsBehind
  <2> SUFFICES ASSUME GraphInv, NEW i \in Rows, i < begin_hint PROVE ready_queue[i] = BEGIN_TOKEN
    BY DEF HintIsBehind
  <2>1. PICK c \in 0..NumRows : Taken(c)
    BY DEF GraphInv
  <2>2. begin_hint <= c
    BY <2>1, HintingIsFinite, GraphAssumption, SMTT(20) DEF Taken, GraphInv, GraphTypeOK
  <2>3. i < c
    BY <2>2, GraphAssumption, SMTT(20) DEF GraphInv, GraphTypeOK, Rows
  <2> QED
    BY <2>1, <2>3 DEF Taken
<1> QED
  BY <1>1, GraphInvHolds, PTL

(* Entries are taken from the front, and pop_work answers COMPLETED_TOKEN  *)
(* only when every row of the graph has been taken.                        *)
THEOREM CompletedMeansAllTaken == GraphSpec => []TakenIsAPrefix
<1>1. GraphInv => TakenIsAPrefix
  <2> SUFFICES ASSUME GraphInv PROVE TakenIsAPrefix
    OBVIOUS
  <2>1. PICK c \in 0..NumRows : Taken(c)
    BY DEF GraphInv
  <2>2. c \in Nat /\ NumRows \in Nat /\ \A i \in Rows : i \in Nat /\ i < NumRows
    BY GraphAssumption, SMTT(20) DEF Rows
  <2>3. \A i, j \in Rows : j < i /\ ready_queue[i] = BEGIN_TOKEN => ready_queue[j] = BEGIN_TOKEN
    BY <2>1, <2>2, SMTT(20) DEF Taken
  <2>4. \A t \in Workers : Doing(t, "completed") => \A i \in Rows : ready_queue[i] = BEGIN_TOKEN
    BY <2>1, <2>2 DEF Taken, Within, Doing
  <2> QED
    BY <2>3, <2>4 DEF TakenIsAPrefix
<1> QED
  BY <1>1, GraphInvHolds, PTL

-----------------------------------------------------------------------------
(* The entries of a row that are not counted down are finitely many. *)
LEMMA UncountedIsFinite ==
    ASSUME NEW j PROVE IsFiniteSet(Uncounted(j)) /\ Cardinality(Uncounted(j)) \in Nat
<1>1. Uncounted(j) \subseteq EntriesFor(j)
  BY DEF Uncounted
<1> QED
  BY <1>1, EntriesAreFinite, FS_Subset, FS_CardinalityType

(* No more entries are taken than there are rows. *)
LEMMA EntryHoldersBound ==
    /\ IsFiniteSet(EntryHolders) /\ Cardinality(EntryHolders) \in Nat
    /\ Cardinality(EntryHolders) <= NumRows
    /\ \A j \in Rows : j \notin EntryHolders => Cardinality(EntryHolders) < NumRows
<1>1. IsFiniteSet(Rows) /\ Cardinality(Rows) = NumRows
  <2>1. CASE NumRows = 0
    <3>1. Rows = {}
      BY <2>1, SMTT(20) DEF Rows
    <3> QED
      BY <2>1, <3>1, FS_EmptySet
  <2>2. CASE NumRows # 0
    <3>1. 0 <= NumRows - 1 /\ NumRows - 1 \in Int /\ 0 \in Int
      BY <2>2, GraphAssumption, SMTT(20)
    <3> QED
      BY <3>1, FS_Interval, GraphAssumption, SMTT(20) DEF Rows
  <2> QED
    BY <2>1, <2>2
<1>2. EntryHolders \subseteq Rows
  BY DEF EntryHolders
<1>3. IsFiniteSet(EntryHolders) /\ Cardinality(EntryHolders) <= NumRows
  BY <1>1, <1>2, FS_Subset
<1>4. Cardinality(EntryHolders) \in Nat
  BY <1>3, FS_CardinalityType
<1>5. ASSUME NEW j \in Rows, j \notin EntryHolders PROVE Cardinality(EntryHolders) < NumRows
  BY <1>1, <1>2, <1>3, <1>4, <1>5, FS_Subset, GraphAssumption, SMTT(20)
<1> QED
  BY <1>3, <1>4, <1>5

(* A step of thread t that leaves the counted entries alone. *)
LEMMA CountedSame ==
    ASSUME worker \in [Workers -> WorkerState], NEW t \in Workers, NEW r \in WorkerState,
           worker' = [worker EXCEPT ![t] = r], done' = done,
           Counting(r) <=> Counting(worker[t]),
           Counting(r) => /\ r.w = worker[t].w
                          /\ \A k \in Nat : Passed(r, k) <=> Passed(worker[t], k)
    PROVE  \A j \in Rows : Uncounted(j)' = Uncounted(j)
<1>1. worker'[t] = r /\ \A u \in Workers : u # t => worker'[u] = worker[u]
  OBVIOUS
<1>2. ASSUME NEW j \in Rows, NEW e \in EntriesFor(j) PROVE Counted(e)' <=> Counted(e)
  <2>1. e[2] \in Nat
    BY EntryFacts, GraphAssumption, SMTT(20)
  <2>2. ASSUME NEW u \in Workers
        PROVE  (Counting(worker'[u]) /\ worker'[u].w = e[1] => Passed(worker'[u], e[2]))
               <=> (Counting(worker[u]) /\ worker[u].w = e[1] => Passed(worker[u], e[2]))
    BY <1>1, <2>1
  <2> QED
    BY <2>2 DEF Counted
<1> QED
  BY <1>2 DEF Uncounted

(* RowsInv holds before the TagReady kernel. *)
LEMMA RowsInitInv == GraphInit => RowsInv
<1> SUFFICES ASSUME GraphInit PROVE RowsInv
  OBVIOUS
<1>1. GraphInv
  BY GraphInitInv
<1>2. \A t \in Workers : worker[t].pc = "rest"
  BY DEF GraphInit, Resting
<1>3. \A i \in Rows : ready_queue[i] \notin Rows /\ done[i] = 0
  BY GraphAssumption, SMTT(20) DEF GraphInit, Rows, END_TOKEN
<1>4. OnePlace
  BY <1>2, <1>3, SMTT(20) DEF OnePlace, Carries
<1>5. CountsAlone
  BY <1>2 DEF CountsAlone, Counting
<1>6. EntryHolders = {}
  BY <1>2, <1>3, SMTT(20) DEF EntryHolders, HasEntry, Carries
<1>7. end_hint = Cardinality(EntryHolders)
  BY <1>6, FS_EmptySet DEF GraphInit
<1>8. ASSUME NEW j \in Rows PROVE count_queue[j] = Cardinality(Uncounted(j))
  <2>1. \A e \in EntriesFor(j) : e[1] \in Rows
    BY EntryFacts, SMTT(20)
  <2>2. \A e \in EntriesFor(j) : ~Counted(e)
    BY <1>3, <2>1, SMTT(20) DEF Counted
  <2>3. Uncounted(j) = EntriesFor(j)
    BY <2>2 DEF Uncounted
  <2> QED
    BY <2>3 DEF GraphInit, Predecessors
<1>9. \A j \in Rows : ~HasEntry(j) /\ \A t \in Workers : ~Carries(worker[t], j)
  BY <1>2, <1>3, SMTT(20) DEF HasEntry, Carries
<1> QED
  BY <1>1, <1>2, <1>4, <1>5, <1>7, <1>8, <1>9 DEF RowsInv, Doing


(* A step of thread t that moves no row: it carries what it carried, and   *)
(* counts down what it counted down.                                       *)
LEMMA RowsUntouched ==
    ASSUME RowsInv, GraphInv', NEW t \in Workers, NEW r \in WorkerState,
           worker' = [worker EXCEPT ![t] = r],
           UNCHANGED <<ready_queue, end_hint, count_queue, done>>,
           todo' \subseteq todo,
           \A j \in Rows : Carries(r, j) <=> Carries(worker[t], j),
           r.pc \in {"push_ready", "push"} <=> worker[t].pc \in {"push_ready", "push"},
           Counting(r) <=> Counting(worker[t]),
           Counting(r) => /\ r.w = worker[t].w
                          /\ \A k \in Nat : Passed(r, k) <=> Passed(worker[t], k),
           r.pc \notin {"rest", "push_ready", "store_ready"} => todo = {},
           r.pc # "abort"
    PROVE  RowsInv'
<1>0. worker \in [Workers -> WorkerState] /\ OnePlace /\ CountsAlone
  BY DEF RowsInv, GraphInv, GraphTypeOK
<1>1. worker'[t] = r /\ \A u \in Workers : u # t => worker'[u] = worker[u]
  BY <1>0
<1>2. \A u \in Workers : \A j \in Rows : Carries(worker'[u], j) <=> Carries(worker[u], j)
  BY <1>1
<1>3. OnePlace'
  BY <1>0, <1>2 DEF OnePlace
<1>4. \A u \in Workers : /\ Counting(worker'[u]) <=> Counting(worker[u])
                         /\ Counting(worker[u]) => worker'[u].w = worker[u].w
                         /\ worker'[u].pc \notin {"rest", "push_ready", "store_ready", "abort"} => todo = {}
  BY <1>0, <1>1 DEF CountsAlone
<1>5. CountsAlone'
  BY <1>0, <1>4, SMTT(20) DEF CountsAlone
<1>6. \A j \in Rows : HasEntry(j)' <=> HasEntry(j)
  BY <1>1, <1>2 DEF HasEntry
<1>7. EntryHolders' = EntryHolders
  BY <1>6 DEF EntryHolders
<1>8. \A j \in Rows : Uncounted(j)' = Uncounted(j)
  BY <1>0, CountedSame
<1>9. \A j \in Rows : count_queue'[j] = Cardinality(Uncounted(j)')
  BY <1>8 DEF RowsInv
<1>10. \A j \in Rows : HasEntry(j)' \/ (\E u \in Workers : Carries(worker'[u], j)) =>
          count_queue'[j] = 0 /\ j \notin todo'
  BY <1>2, <1>6 DEF RowsInv
<1>11. \A u \in Workers : ~Doing(u, "abort")'
  BY <1>1 DEF RowsInv, Doing
<1> QED
  BY <1>3, <1>5, <1>7, <1>9, <1>10, <1>11 DEF RowsInv

(* A step of thread t that begins to push row j. *)
LEMMA PushBegins ==
    ASSUME RowsInv, NEW t \in Workers, NEW r \in WorkerState, NEW j \in Rows,
           worker' = [worker EXCEPT ![t] = r],
           UNCHANGED <<ready_queue, end_hint, done>>,
           \A l \in Rows : ~Carries(worker[t], l),
           r.pc \in {"push_ready", "push"}, r.push = j,
           count_queue[j] # 0 \/ j \in todo
    PROVE  /\ OnePlace' /\ end_hint' = Cardinality(EntryHolders')
           /\ \A l \in Rows : HasEntry(l)' <=> HasEntry(l)
           /\ \A l \in Rows : (\E u \in Workers : Carries(worker'[u], l)) =>
                 l = j \/ \E u \in Workers : Carries(worker[u], l)
<1>0. worker \in [Workers -> WorkerState] /\ OnePlace
  BY DEF RowsInv, GraphInv, GraphTypeOK
<1>1. worker'[t] = r /\ \A u \in Workers : u # t => worker'[u] = worker[u]
  BY <1>0
<1>2. \A l \in Rows : Carries(r, l) <=> l = j
  BY DEF Carries
<1>3. ~HasEntry(j) /\ \A u \in Workers : ~Carries(worker[u], j)
  BY DEF RowsInv
<1>4. done \in [Rows -> Nat]
  BY DEF RowsInv, GraphInv, GraphTypeOK
<1>5. done[j] = 0 /\ \A i \in Rows : ready_queue[i] # j
  BY <1>3, <1>4, SMTT(20) DEF HasEntry
<1>6. OnePlace'
  <2>1. \A u, v \in Workers : \A l \in Rows : Carries(worker'[u], l) /\ Carries(worker'[v], l) => u = v
    BY <1>0, <1>1, <1>2, <1>3, SMTT(20) DEF OnePlace
  <2>2. \A u \in Workers : \A l \in Rows : Carries(worker'[u], l) =>
           done'[l] = 0 /\ \A i \in Rows : ready_queue'[i] # l
    BY <1>0, <1>1, <1>2, <1>5 DEF OnePlace
  <2> QED
    BY <1>0, <2>1, <2>2 DEF OnePlace
<1>7. \A l \in Rows : HasEntry(l)' <=> HasEntry(l)
  BY <1>1, <1>2 DEF HasEntry
<1>8. EntryHolders' = EntryHolders
  BY <1>7 DEF EntryHolders
<1>9. end_hint' = Cardinality(EntryHolders')
  BY <1>8 DEF RowsInv
<1> QED
  BY <1>1, <1>2, <1>6, <1>7, <1>9

(* TagReady looks at a row. *)
LEMMA ReadyRows == ASSUME RowsInv, NEW t \in Workers, NEW w \in Rows, Ready(t, w) PROVE RowsInv'
<1>0. /\ GraphInv /\ GraphInv' /\ CountsAlone
      /\ worker \in [Workers -> WorkerState] /\ todo \subseteq Rows
  BY QuietSteps DEF RowsInv, GraphInv, GraphTypeOK
<1>1. /\ worker[t].pc = "rest" /\ w \in todo /\ todo' = todo \ {w}
      /\ UNCHANGED <<ready_queue, count_queue, begin_hint, end_hint, done>>
  BY DEF Ready, Doing
<1>2. CASE count_queue[w] # 0
  <2>1. worker' = [worker EXCEPT ![t] = worker[t]]
    BY <1>0, <1>2 DEF Ready
  <2> QED
    BY <1>0, <1>1, <2>1, RowsUntouched
<1>3. CASE count_queue[w] = 0
  <2>1. PICK r : /\ worker' = [worker EXCEPT ![t] = r]
                 /\ r = [pc |-> "push_ready", i |-> 0, w |-> 0, k |-> 1, push |-> w]
    BY <1>3 DEF Ready, Become, Resting
  <2>3. r \in WorkerState /\ r.pc = "push_ready" /\ r.push = w
    BY <2>1, SMTT(20) DEF WorkerState
  <2>4. worker'[t] = r /\ \A u \in Workers : u # t => worker'[u] = worker[u]
    BY <1>0, <2>1
  <2>5. \A l \in Rows : ~Carries(worker[t], l)
    BY <1>1 DEF Carries
  <2>6. /\ OnePlace' /\ end_hint' = Cardinality(EntryHolders')
        /\ \A l \in Rows : HasEntry(l)' <=> HasEntry(l)
        /\ \A l \in Rows : (\E u \in Workers : Carries(worker'[u], l)) =>
              l = w \/ \E u \in Workers : Carries(worker[u], l)
    BY <1>1, <2>1, <2>3, <2>5, PushBegins
  <2>7. CountsAlone'
    BY <1>0, <1>1, <2>3, <2>4 DEF CountsAlone, Counting
  <2>8. \A j \in Rows : Uncounted(j)' = Uncounted(j)
    <3>1. ~Counting(r) /\ ~Counting(worker[t])
      BY <1>1, <2>3 DEF Counting
    <3> QED
      BY <1>0, <1>1, <2>1, <2>3, <3>1, CountedSame
  <2>9. \A j \in Rows : count_queue'[j] = Cardinality(Uncounted(j)')
    BY <1>1, <2>8 DEF RowsInv
  <2>10. ~HasEntry(w)
    BY <1>1 DEF RowsInv
  <2>11. \A j \in Rows : HasEntry(j)' \/ (\E u \in Workers : Carries(worker'[u], j)) =>
            count_queue'[j] = 0 /\ j \notin todo'
    BY <1>1, <1>3, <2>6, <2>10 DEF RowsInv
  <2>12. \A u \in Workers : ~Doing(u, "abort")'
    BY <2>3, <2>4 DEF RowsInv, Doing
  <2> QED
    BY <1>0, <2>6, <2>7, <2>9, <2>11, <2>12 DEF RowsInv
<1> QED
  BY <1>2, <1>3

(* Entering the loop and looking for a row. *)
LEMMA LookRows ==
    ASSUME RowsInv, NEW t \in Workers, (Constructed /\ EnterGraph(t)) \/ PopWork(t) \/ Look(t)
    PROVE  RowsInv'
<1> DEFINE me == worker[t]
<1>0. /\ GraphInv /\ GraphInv' /\ CountsAlone
      /\ me \in WorkerState /\ worker \in [Workers -> WorkerState]
  BY QuietSteps DEF RowsInv, GraphInv, GraphTypeOK
<1>1. /\ me.pc \in {"rest", "pop", "look"} /\ todo = {}
      /\ UNCHANGED <<ready_queue, count_queue, end_hint, done, todo>>
  BY <1>0 DEF EnterGraph, PopWork, Look, Doing, CountsAlone, Constructed
<1>2. PICK r : /\ worker' = [worker EXCEPT ![t] = r]
               /\ \/ \E p \in {"pop", "completed"} : r = [Resting EXCEPT !.pc = p]
                  \/ r = [Resting EXCEPT !.pc = "look", !.i = begin_hint]
                  \/ r = [me EXCEPT !.i = me.i + 1] /\ me.pc = "look"
                  \/ r = [me EXCEPT !.pc = "claim", !.w = ready_queue[me.i]]
  BY DEF EnterGraph, PopWork, Look, Become, Doing
<1>3. r.pc \in {"pop", "completed", "look", "claim"}
  BY <1>0, <1>2 DEF Resting, WorkerState
<1>4. worker'[t] = r /\ worker'[t] \in WorkerState
  BY <1>0, <1>2 DEF GraphInv, GraphTypeOK
<1>5. (\A j \in Rows : ~Carries(r, j) /\ ~Carries(me, j)) /\ ~Counting(r) /\ ~Counting(me)
  BY <1>1, <1>3 DEF Carries, Counting
<1> QED
  BY <1>0, <1>1, <1>2, <1>3, <1>4, <1>5, RowsUntouched


(* push_work takes the next entry for the row that it carries. *)
LEMMA PushWorkRows == ASSUME RowsInv, NEW t \in Workers, PushWork(t) PROVE RowsInv'
<1> DEFINE me == worker[t]
<1>0. /\ GraphInv /\ GraphInv' /\ CountsAlone /\ OnePlace /\ HasRow(me)
      /\ me \in WorkerState /\ worker \in [Workers -> WorkerState]
      /\ done \in [Rows -> Nat]
  BY PushSteps DEF RowsInv, GraphInv, GraphTypeOK
<1>1. /\ me.pc \in {"push_ready", "push"} /\ me.push \in Rows
      /\ end_hint' = end_hint + 1
      /\ UNCHANGED <<ready_queue, count_queue, done, todo>>
  BY <1>0 DEF PushWork, HasRow
<1>2. PICK r : /\ worker' = [worker EXCEPT ![t] = r]
               /\ r = [me EXCEPT !.i = end_hint, !.pc = IF @ = "push" THEN "store" ELSE "store_ready"]
  BY DEF PushWork, Become
<1>3. /\ r.pc = (IF me.pc = "push" THEN "store" ELSE "store_ready")
      /\ r.w = me.w /\ r.push = me.push /\ r.k = me.k
  BY <1>0, <1>2 DEF WorkerState
<1>4. /\ worker'[t] = r /\ r \in WorkerState
      /\ \A u \in Workers : u # t => worker'[u] = worker[u]
  BY <1>0, <1>2 DEF GraphInv, GraphTypeOK
<1>5. /\ \A j \in Rows : Carries(r, j) <=> Carries(me, j)
      /\ \A j \in Rows : Carries(me, j) <=> j = me.push
      /\ Counting(r) <=> Counting(me)
      /\ \A k \in Nat : Counting(r) => (Passed(r, k) <=> Passed(me, k))
  BY <1>1, <1>3 DEF Carries, Counting, Passed
<1>6. \A u \in Workers : \A j \in Rows : Carries(worker'[u], j) <=> Carries(worker[u], j)
  BY <1>4, <1>5
<1>7. OnePlace'
  BY <1>0, <1>1, <1>6 DEF OnePlace
<1>8. CountsAlone'
  <2>1. \A u \in Workers : /\ Counting(worker'[u]) <=> Counting(worker[u])
                           /\ worker'[u].w = worker[u].w
    BY <1>3, <1>4, <1>5
  <2>2. \A u \in Workers :
          worker'[u].pc \notin {"rest", "push_ready", "store_ready", "abort"} => todo = {}
    BY <1>0, <1>1, <1>3, <1>4 DEF CountsAlone
  <2> QED
    BY <1>0, <1>1, <2>1, <2>2 DEF CountsAlone
<1>9. ~HasEntry(me.push)
  <2>1. Carries(me, me.push)
    BY <1>1, <1>5
  <2>2. done[me.push] = 0 /\ \A i \in Rows : ready_queue[i] # me.push
    BY <1>0, <1>1, <2>1 DEF OnePlace
  <2>3. \A u \in Workers : Carries(worker[u], me.push) => u = t
    BY <1>0, <1>1, <2>1 DEF OnePlace
  <2> QED
    BY <1>1, <2>2, <2>3, SMTT(20) DEF HasEntry
<1>10. \A j \in Rows : HasEntry(j)' <=> HasEntry(j) \/ j = me.push
  <2>1. \A j \in Rows : j # me.push => (HasEntry(j)' <=> HasEntry(j))
    BY <1>1, <1>4, <1>5, <1>6 DEF HasEntry
  <2>2. \A j \in Rows : j = me.push => HasEntry(j)'
    BY <1>1, <1>3, <1>4, <1>5 DEF HasEntry
  <2> QED
    BY <1>9, <2>1, <2>2
<1>11. EntryHolders' = EntryHolders \cup {me.push} /\ me.push \notin EntryHolders
  BY <1>1, <1>9, <1>10 DEF EntryHolders
<1>12. end_hint' = Cardinality(EntryHolders')
  <2>1. Cardinality(EntryHolders') = Cardinality(EntryHolders) + 1
    BY <1>11, EntryHoldersBound, FS_AddElement
  <2> QED
    BY <1>1, <2>1 DEF RowsInv
<1>13. \A j \in Rows : Uncounted(j)' = Uncounted(j)
  BY <1>0, <1>1, <1>2, <1>3, <1>4, <1>5, CountedSame
<1>14. \A j \in Rows : count_queue'[j] = Cardinality(Uncounted(j)')
  BY <1>1, <1>13 DEF RowsInv
<1>15. \A j \in Rows : HasEntry(j)' \/ (\E u \in Workers : Carries(worker'[u], j)) =>
          count_queue'[j] = 0 /\ j \notin todo'
  BY <1>1, <1>5, <1>6, <1>10 DEF RowsInv
<1>16. \A u \in Workers : ~Doing(u, "abort")'
  BY <1>3, <1>4 DEF RowsInv, Doing
<1> QED
  BY <1>0, <1>7, <1>8, <1>12, <1>14, <1>15, <1>16 DEF RowsInv

(* The row that is stored finds its entry free and within the queue. *)
LEMMA StoreRows == ASSUME RowsInv, NEW t \in Workers, Store(t) PROVE RowsInv'
<1> DEFINE me == worker[t]
<1>0. /\ GraphInv /\ GraphInv' /\ CountsAlone /\ OnePlace /\ HasRow(me) /\ Reserved
      /\ me \in WorkerState /\ worker \in [Workers -> WorkerState]
      /\ done \in [Rows -> Nat] /\ end_hint \in Nat
      /\ ready_queue \in [Rows -> Rows \cup {END_TOKEN, BEGIN_TOKEN}]
  BY PushSteps DEF RowsInv, GraphInv, GraphTypeOK
<1>1. /\ me.pc \in {"store_ready", "store"} /\ me.push \in Rows
      /\ UNCHANGED <<count_queue, done, todo, end_hint>>
  BY <1>0 DEF Store, HasRow
<1>2. me.i \in Nat /\ me.i < NumRows /\ me.i \in Rows /\ ready_queue[me.i] = END_TOKEN
  <2>1. me.i \in Nat
    BY <1>0 DEF WorkerState
  <2>2. t \in Storing
    BY <1>1 DEF Storing
  <2>3. me.i < end_hint
    BY <1>0, <2>2 DEF Reserved
  <2>4. end_hint <= NumRows
    BY EntryHoldersBound DEF RowsInv
  <2>5. me.i < NumRows
    BY <1>0, <2>1, <2>3, <2>4, GraphAssumption, SMTT(20)
  <2>6. me.i \in Rows
    BY <2>1, <2>5, GraphAssumption, SMTT(20) DEF Rows
  <2> QED
    BY <1>0, <2>1, <2>2, <2>5, <2>6 DEF Reserved
<1>3. PICK r : /\ worker' = [worker EXCEPT ![t] = r]
               /\ \/ r = [me EXCEPT !.pc = "count", !.k = me.k + 1] /\ me.pc = "store"
                  \/ r = Resting /\ me.pc = "store_ready"
  <2>1. ~(me.i >= NumRows)
    BY <1>2, GraphAssumption, SMTT(20)
  <2>2. Become(t, IF me.pc = "store" THEN [me EXCEPT !.pc = "count", !.k = me.k + 1] ELSE Resting)
    BY <1>2, <2>1 DEF Store
  <2>3. CASE me.pc = "store"
    BY <2>2, <2>3 DEF Become
  <2>4. CASE me.pc = "store_ready"
    BY <2>2, <2>4 DEF Become
  <2> QED
    BY <1>1, <2>3, <2>4
<1>4. ready_queue' = [ready_queue EXCEPT ![me.i] = me.push]
  BY <1>2, GraphAssumption, SMTT(20) DEF Store
<1>5. /\ worker'[t] = r /\ r \in WorkerState
      /\ \A u \in Workers : u # t => worker'[u] = worker[u]
  BY <1>0, <1>3 DEF GraphInv, GraphTypeOK
<1>6. /\ me.pc = "store" => r.pc = "count" /\ r.w = me.w /\ r.k = me.k + 1
      /\ me.pc = "store_ready" => r.pc = "rest"
      /\ me.k \in Nat
  <2>1. me.k \in Nat
    BY <1>0 DEF WorkerState
  <2>2. me.pc = "store_ready" => r.pc = "rest"
    BY <1>3, SMTT(20) DEF Resting
  <2>3. CASE me.pc = "store"
    <3>1. r = [pc |-> "count", i |-> me.i, w |-> me.w, k |-> me.k + 1, push |-> me.push]
      BY <1>0, <1>3, <2>3 DEF WorkerState
    <3> QED
      BY <2>1, <2>3, <3>1
  <2> QED
    BY <2>1, <2>2, <2>3
<1>7. \A j \in Rows : ~Carries(r, j) /\ (Carries(me, j) <=> j = me.push)
  BY <1>1, <1>6 DEF Carries
<1>8. ready_queue'[me.i] = me.push /\ \A i \in Rows : i # me.i => ready_queue'[i] = ready_queue[i]
  BY <1>0, <1>2, <1>4
<1>9. END_TOKEN \notin Rows
  BY GraphAssumption, SMTT(20) DEF Rows, END_TOKEN
<1>10. /\ done[me.push] = 0 /\ \A i \in Rows : ready_queue[i] # me.push
       /\ \A u \in Workers : Carries(worker[u], me.push) => u = t
  BY <1>0, <1>1, <1>7 DEF OnePlace
<1>11. OnePlace'
  <2>1. \A u, v \in Workers : \A j \in Rows : Carries(worker'[u], j) /\ Carries(worker'[v], j) => u = v
    BY <1>0, <1>5, <1>7 DEF OnePlace
  <2>2. \A i, l \in Rows : ready_queue'[i] \in Rows /\ ready_queue'[i] = ready_queue'[l] => i = l
    BY <1>0, <1>2, <1>8, <1>10 DEF OnePlace
  <2>3. \A u \in Workers : \A j \in Rows : Carries(worker'[u], j) =>
           done'[j] = 0 /\ \A i \in Rows : ready_queue'[i] # j
    BY <1>0, <1>1, <1>5, <1>7, <1>8, <1>10, SMTT(20) DEF OnePlace
  <2>4. \A i \in Rows : ready_queue'[i] \in Rows => done'[ready_queue'[i]] = 0
    BY <1>0, <1>1, <1>8, <1>10 DEF OnePlace
  <2> QED
    BY <1>0, <1>1, <2>1, <2>2, <2>3, <2>4 DEF OnePlace
<1>12. /\ Counting(r) <=> Counting(me)
       /\ Counting(r) => r.w = me.w /\ \A k \in Nat : Passed(r, k) <=> Passed(me, k)
  BY <1>1, <1>6, SMTT(20) DEF Counting, Passed
<1>13. CountsAlone'
  <2>1. \A u \in Workers : /\ Counting(worker'[u]) <=> Counting(worker[u])
                           /\ Counting(worker[u]) => worker'[u].w = worker[u].w
    BY <1>5, <1>12
  <2>2. \A u \in Workers :
          worker'[u].pc \notin {"rest", "push_ready", "store_ready", "abort"} => todo = {}
    BY <1>0, <1>1, <1>5, <1>6 DEF CountsAlone
  <2> QED
    BY <1>0, <1>1, <2>1, <2>2 DEF CountsAlone
<1>14. \A j \in Rows : HasEntry(j)' <=> HasEntry(j)
  <2>1. \A j \in Rows : j # me.push => (HasEntry(j)' <=> HasEntry(j))
    <3>1. \A j \in Rows : j # me.push => \A u \in Workers :
             (Carries(worker'[u], j) /\ worker'[u].pc \notin {"push_ready", "push"}) <=>
             (Carries(worker[u], j) /\ worker[u].pc \notin {"push_ready", "push"})
      BY <1>5, <1>7
    <3>2. \A j \in Rows : j # me.push => \A i \in Rows : ready_queue'[i] = j <=> ready_queue[i] = j
      BY <1>2, <1>8, <1>9
    <3> QED
      BY <1>1, <3>1, <3>2 DEF HasEntry
  <2>2. HasEntry(me.push)
    BY <1>1, <1>7 DEF HasEntry
  <2>3. \A j \in Rows : j = me.push => HasEntry(j)'
    BY <1>2, <1>8 DEF HasEntry
  <2> QED
    BY <2>1, <2>2, <2>3
<1>15. EntryHolders' = EntryHolders
  BY <1>14 DEF EntryHolders
<1>16. \A j \in Rows : Uncounted(j)' = Uncounted(j)
  BY <1>0, <1>1, <1>3, <1>5, <1>12, CountedSame
<1>17. \A j \in Rows : count_queue'[j] = Cardinality(Uncounted(j)')
  BY <1>1, <1>16 DEF RowsInv
<1>18. \A j \in Rows : HasEntry(j)' \/ (\E u \in Workers : Carries(worker'[u], j)) =>
          count_queue'[j] = 0 /\ j \notin todo'
  BY <1>1, <1>5, <1>7, <1>14 DEF RowsInv
<1>19. \A u \in Workers : ~Doing(u, "abort")'
  BY <1>1, <1>5, <1>6 DEF RowsInv, Doing
<1> QED
  BY <1>0, <1>1, <1>11, <1>13, <1>15, <1>17, <1>18, <1>19 DEF RowsInv


(* A claim that succeeds takes the row out of its entry; the update of the *)
(* hint moves no row.                                                      *)
LEMMA ClaimRows == ASSUME RowsInv, NEW t \in Workers, Claim(t) \/ Hint(t) PROVE RowsInv'
<1> DEFINE me == worker[t]
           i == me.i
<1>0. /\ GraphInv /\ GraphInv' /\ CountsAlone /\ OnePlace /\ HasRow(me)
      /\ me \in WorkerState /\ worker \in [Workers -> WorkerState]
      /\ ready_queue \in [Rows -> Rows \cup {END_TOKEN, BEGIN_TOKEN}]
  BY ClaimStep, HintStep DEF RowsInv, GraphInv, GraphTypeOK
<1>1. /\ me.pc \in {"claim", "hint"} /\ me.w \in Rows /\ todo = {}
      /\ UNCHANGED <<count_queue, end_hint, done, todo>>
  BY <1>0 DEF Claim, Hint, Doing, HasRow, CountsAlone
<1>2. CASE Hint(t)
  <2>1. PICK r : worker' = [worker EXCEPT ![t] = r] /\ r = [me EXCEPT !.pc = "run"]
    BY <1>2 DEF Hint, Become
  <2>2. r \in WorkerState /\ r.pc = "run" /\ r.w = me.w
    BY <1>0, <2>1 DEF WorkerState
  <2>3. me.pc = "hint" /\ ready_queue' = ready_queue
    BY <1>2 DEF Hint, Doing
  <2>4. (\A j \in Rows : Carries(r, j) <=> Carries(me, j)) /\ ~Counting(r) /\ ~Counting(me)
    BY <2>2, <2>3 DEF Carries, Counting
  <2> QED
    BY <1>0, <1>1, <2>1, <2>2, <2>3, <2>4, RowsUntouched
<1>3. CASE Claim(t) /\ ready_queue[i] # me.w
  <2>1. PICK r : /\ worker' = [worker EXCEPT ![t] = r]
                 /\ r = [pc |-> "look", i |-> i + 1, w |-> 0, k |-> 1, push |-> 0]
    BY <1>3 DEF Claim, Become, Resting
  <2>2. worker'[t] = r /\ r \in WorkerState
    BY <1>0, <2>1 DEF GraphInv, GraphTypeOK
  <2>3. me.pc = "claim" /\ ready_queue' = ready_queue
    BY <1>3 DEF Claim, Doing
  <2>4. (\A j \in Rows : ~Carries(r, j) /\ ~Carries(me, j)) /\ ~Counting(r) /\ ~Counting(me)
    BY <2>1, <2>3 DEF Carries, Counting
  <2> QED
    BY <1>0, <1>1, <2>1, <2>2, <2>3, <2>4, RowsUntouched
<1>4. CASE Claim(t) /\ ready_queue[i] = me.w
  <2>1. PICK r : worker' = [worker EXCEPT ![t] = r] /\ r = [me EXCEPT !.pc = "hint"]
    BY <1>4 DEF Claim, Become
  <2>2. r \in WorkerState /\ r.pc = "hint" /\ r.w = me.w
    BY <1>0, <2>1 DEF WorkerState
  <2>3. worker'[t] = r /\ \A u \in Workers : u # t => worker'[u] = worker[u]
    BY <1>0, <2>1
  <2>4. me.pc = "claim" /\ i \in Rows
    <3>1. PICK c \in 0..NumRows : Taken(c)
      BY <1>0 DEF GraphInv
    <3> QED
      BY <1>4, <3>1 DEF Claim, Doing, Taken, Within
  <2>5. ready_queue'[i] = BEGIN_TOKEN /\ \A n \in Rows : n # i => ready_queue'[n] = ready_queue[n]
    BY <1>0, <1>4, <2>4 DEF Claim
  <2>6. BEGIN_TOKEN \notin Rows
    BY GraphAssumption, SMTT(20) DEF Rows, BEGIN_TOKEN
  <2>7. \A j \in Rows : ~Carries(me, j) /\ (Carries(r, j) <=> j = me.w)
    BY <2>2, <2>4 DEF Carries
  <2>8. /\ done[me.w] = 0
        /\ \A u \in Workers : ~Carries(worker[u], me.w)
        /\ \A n \in Rows : ready_queue[n] = me.w => n = i
    BY <1>0, <1>1, <1>4, <2>4 DEF OnePlace
  <2>9. OnePlace'
    <3>1. \A u, v \in Workers : \A j \in Rows : Carries(worker'[u], j) /\ Carries(worker'[v], j) => u = v
      BY <1>0, <2>3, <2>7, <2>8, SMTT(20) DEF OnePlace
    <3>2. \A n, l \in Rows : ready_queue'[n] \in Rows /\ ready_queue'[n] = ready_queue'[l] => n = l
      BY <1>0, <2>5, <2>6 DEF OnePlace
    <3>3. \A u \in Workers : \A j \in Rows : Carries(worker'[u], j) =>
             done'[j] = 0 /\ \A n \in Rows : ready_queue'[n] # j
      BY <1>0, <1>1, <2>3, <2>5, <2>6, <2>7, <2>8, SMTT(20) DEF OnePlace
    <3>4. \A n \in Rows : ready_queue'[n] \in Rows => done'[ready_queue'[n]] = 0
      BY <1>0, <1>1, <2>5, <2>6 DEF OnePlace
    <3> QED
      BY <1>0, <1>1, <3>1, <3>2, <3>3, <3>4 DEF OnePlace
  <2>10. ~Counting(r) /\ ~Counting(me)
    BY <2>2, <2>4 DEF Counting
  <2>11. CountsAlone'
    BY <1>0, <1>1, <2>3, <2>10 DEF CountsAlone
  <2>12. \A j \in Rows : HasEntry(j)' <=> HasEntry(j)
    <3>1. \A j \in Rows : j # me.w => (HasEntry(j)' <=> HasEntry(j))
      <4>1. \A j \in Rows : j # me.w => \A u \in Workers :
               (Carries(worker'[u], j) /\ worker'[u].pc \notin {"push_ready", "push"}) <=>
               (Carries(worker[u], j) /\ worker[u].pc \notin {"push_ready", "push"})
        BY <2>3, <2>7
      <4>2. \A j \in Rows : j # me.w => \A n \in Rows : ready_queue'[n] = j <=> ready_queue[n] = j
        BY <1>4, <2>4, <2>5, <2>6
      <4> QED
        BY <1>1, <4>1, <4>2 DEF HasEntry
    <3>2. HasEntry(me.w)
      BY <1>4, <2>4 DEF HasEntry
    <3>3. \A j \in Rows : j = me.w => HasEntry(j)'
      BY <2>2, <2>3, <2>7 DEF HasEntry
    <3> QED
      BY <3>1, <3>2, <3>3
  <2>13. EntryHolders' = EntryHolders
    BY <2>12 DEF EntryHolders
  <2>14. \A j \in Rows : Uncounted(j)' = Uncounted(j)
    BY <1>0, <1>1, <2>1, <2>2, <2>10, CountedSame
  <2>15. \A j \in Rows : count_queue'[j] = Cardinality(Uncounted(j)')
    BY <1>1, <2>14 DEF RowsInv
  <2>16. HasEntry(me.w)
    BY <1>4, <2>4 DEF HasEntry
  <2>17. \A j \in Rows : HasEntry(j)' \/ (\E u \in Workers : Carries(worker'[u], j)) =>
            count_queue'[j] = 0 /\ j \notin todo'
    BY <1>1, <2>3, <2>7, <2>12, <2>16 DEF RowsInv
  <2>18. \A u \in Workers : ~Doing(u, "abort")'
    BY <2>2, <2>3 DEF RowsInv, Doing
  <2> QED
    BY <1>0, <1>1, <2>9, <2>11, <2>13, <2>15, <2>17, <2>18 DEF RowsInv
<1> QED
  BY <1>2, <1>3, <1>4

(* A row that runs is done, once; its successors are still to be counted.  *)
LEMMA RunRows == ASSUME RowsInv, NEW t \in Workers, RunRow(t) PROVE RowsInv'
<1> DEFINE me == worker[t]
<1>0. /\ GraphInv /\ GraphInv' /\ CountsAlone /\ OnePlace /\ HasRow(me)
      /\ me \in WorkerState /\ worker \in [Workers -> WorkerState]
      /\ done \in [Rows -> Nat]
  BY QuietSteps DEF RowsInv, GraphInv, GraphTypeOK
<1>1. /\ me.pc = "run" /\ me.w \in Rows /\ todo = {}
      /\ UNCHANGED <<ready_queue, count_queue, end_hint, todo>>
      /\ done' = [done EXCEPT ![me.w] = @ + 1]
  BY <1>0 DEF RunRow, Doing, HasRow, CountsAlone
<1>2. PICK r : worker' = [worker EXCEPT ![t] = r] /\ r = [me EXCEPT !.pc = "count", !.k = 1]
  BY DEF RunRow, Become
<1>3. r \in WorkerState /\ r.pc = "count" /\ r.w = me.w /\ r.k = 1
  <2>1. r = [pc |-> "count", i |-> me.i, w |-> me.w, k |-> 1, push |-> me.push]
    BY <1>0, <1>2 DEF WorkerState
  <2> QED
    BY <1>0, <2>1, SMTT(20) DEF WorkerState
<1>4. worker'[t] = r /\ \A u \in Workers : u # t => worker'[u] = worker[u]
  BY <1>0, <1>2
<1>5. \A j \in Rows : ~Carries(r, j) /\ (Carries(me, j) <=> j = me.w)
  BY <1>1, <1>3 DEF Carries
<1>6. /\ done[me.w] = 0 /\ \A i \in Rows : ready_queue[i] # me.w
      /\ \A u \in Workers : Carries(worker[u], me.w) => u = t
  BY <1>0, <1>1, <1>5 DEF OnePlace
<1>7. done'[me.w] = 1 /\ \A j \in Rows : j # me.w => done'[j] = done[j]
  BY <1>0, <1>1, <1>6, SMTT(20)
<1>8. \A u \in Workers : Counting(worker[u]) => worker[u].w # me.w
  BY <1>0, <1>6, SMTT(20) DEF CountsAlone
<1>9. OnePlace'
  <2>1. \A u \in Workers : \A j \in Rows : Carries(worker'[u], j) => Carries(worker[u], j) /\ j # me.w
    BY <1>4, <1>5, <1>6
  <2>2. \A j \in Rows : done'[j] <= 1
    BY <1>0, <1>7, SMTT(20) DEF OnePlace
  <2> QED
    BY <1>0, <1>1, <1>6, <1>7, <2>1, <2>2 DEF OnePlace
<1>10. CountsAlone'
  <2>1. \A u \in Workers : Counting(worker'[u]) => done'[worker'[u].w] = 1
    <3>1. ASSUME NEW u \in Workers, u # t, Counting(worker[u]) PROVE done'[worker[u].w] = 1
      <4>1. worker[u].w \in Rows
        BY <1>0, <3>1 DEF GraphInv, HasRow, Counting
      <4> QED
        BY <1>0, <1>7, <1>8, <3>1, <4>1 DEF CountsAlone
    <3> QED
      BY <1>3, <1>4, <1>7, <3>1
  <2>2. \A u, v \in Workers :
          Counting(worker'[u]) /\ Counting(worker'[v]) /\ worker'[u].w = worker'[v].w => u = v
    BY <1>0, <1>3, <1>4, <1>8 DEF CountsAlone
  <2> QED
    BY <1>1, <2>1, <2>2 DEF CountsAlone
<1>11. \A j \in Rows : HasEntry(j)' <=> HasEntry(j)
  <2>1. \A j \in Rows : j # me.w => (HasEntry(j)' <=> HasEntry(j))
    <3>1. \A j \in Rows : j # me.w => \A u \in Workers :
             (Carries(worker'[u], j) /\ worker'[u].pc \notin {"push_ready", "push"}) <=>
             (Carries(worker[u], j) /\ worker[u].pc \notin {"push_ready", "push"})
      BY <1>4, <1>5
    <3> QED
      BY <1>1, <1>7, <3>1 DEF HasEntry
  <2>2. HasEntry(me.w)
    BY <1>1, <1>5 DEF HasEntry
  <2>3. \A j \in Rows : j = me.w => HasEntry(j)'
    BY <1>7, SMTT(20) DEF HasEntry
  <2> QED
    BY <2>1, <2>2, <2>3
<1>12. EntryHolders' = EntryHolders
  BY <1>11 DEF EntryHolders
<1>13. ASSUME NEW j \in Rows PROVE Uncounted(j)' = Uncounted(j)
  <2>1. ASSUME NEW e \in EntriesFor(j) PROVE Counted(e)' <=> Counted(e)
    <3>1. e[1] \in Rows /\ e[2] \in Nat /\ e[2] >= 1
      <4>1. PICK w \in Rows : \E k \in DOMAIN Succ[w] : e = <<w, k>>
        BY EntryFacts, SMTT(20)
      <4>2. DOMAIN Succ[w] = 1..Len(Succ[w])
        BY GraphAssumption, SMTT(20)
      <4> QED
        BY <4>1, <4>2, SMTT(20)
    <3>2. CASE e[1] = me.w
      <4>1. ~Counted(e)
        BY <1>6, <3>2, SMTT(20) DEF Counted
      <4>2. Counting(r) /\ ~Passed(r, e[2])
        BY <1>3, <3>1, SMTT(20) DEF Counting, Passed
      <4>3. ~Counted(e)'
        BY <1>3, <1>4, <3>2, <4>2 DEF Counted
      <4> QED
        BY <4>1, <4>3
    <3>3. CASE e[1] # me.w
      <4>1. ASSUME NEW u \in Workers
            PROVE  (Counting(worker'[u]) /\ worker'[u].w = e[1] => Passed(worker'[u], e[2]))
                   <=> (Counting(worker[u]) /\ worker[u].w = e[1] => Passed(worker[u], e[2]))
        <5>1. CASE u = t
          BY <1>3, <1>4, <3>3, <5>1
        <5>2. CASE u # t
          BY <1>4, <5>2
        <5> QED
          BY <5>1, <5>2
      <4>2. done'[e[1]] = done[e[1]]
        BY <1>7, <3>1, <3>3
      <4> QED
        BY <4>1, <4>2 DEF Counted
    <3> QED
      BY <3>2, <3>3
  <2> QED
    BY <2>1 DEF Uncounted
<1>14. \A j \in Rows : count_queue'[j] = Cardinality(Uncounted(j)')
  BY <1>1, <1>13 DEF RowsInv
<1>15. \A j \in Rows : HasEntry(j)' \/ (\E u \in Workers : Carries(worker'[u], j)) =>
          count_queue'[j] = 0 /\ j \notin todo'
  BY <1>1, <1>4, <1>5, <1>11 DEF RowsInv
<1>16. \A u \in Workers : ~Doing(u, "abort")'
  BY <1>3, <1>4 DEF RowsInv, Doing
<1> QED
  BY <1>0, <1>1, <1>9, <1>10, <1>12, <1>14, <1>15, <1>16 DEF RowsInv


(* A thread that counts down entry k of its row, or finds no more: exactly *)
(* that entry becomes counted.                                             *)
LEMMA CountedNext ==
    ASSUME worker \in [Workers -> WorkerState], NEW t \in Workers, NEW r \in WorkerState,
           worker' = [worker EXCEPT ![t] = r], done' = done, CountsAlone,
           worker[t].pc = "count", worker[t].w \in Rows,
           \/ /\ worker[t].k > Len(Succ[worker[t].w]) /\ ~Counting(r)
           \/ /\ Counting(r) /\ r.w = worker[t].w
              /\ \A k \in Nat : Passed(r, k) <=> Passed(worker[t], k) \/ k = worker[t].k
    PROVE  \A j \in Rows : Uncounted(j)' = Uncounted(j) \ {<<worker[t].w, worker[t].k>>}
<1> DEFINE me == worker[t]
           e0 == <<me.w, me.k>>
<1>0. me.k \in Nat
  BY DEF WorkerState
<1>1. worker'[t] = r /\ \A u \in Workers : u # t => worker'[u] = worker[u]
  OBVIOUS
<1>2. Counting(me) /\ done[me.w] = 1
  BY DEF CountsAlone, Counting
<1>3. \A u \in Workers : u # t => ~(Counting(worker[u]) /\ worker[u].w = me.w)
  BY <1>2 DEF CountsAlone
<1>4. \A k \in Nat : Passed(me, k) <=> k < me.k
  BY <1>0 DEF Passed
<1>5. ASSUME NEW j \in Rows, NEW e \in EntriesFor(j) PROVE Counted(e)' <=> Counted(e) \/ e = e0
  <2>1. PICK w \in Rows : \E k \in DOMAIN Succ[w] : e = <<w, k>>
    BY EntryFacts, SMTT(20)
  <2>2. PICK k \in DOMAIN Succ[w] : e = <<w, k>>
    BY <2>1
  <2>3. k \in Nat /\ k <= Len(Succ[w]) /\ Len(Succ[w]) \in Nat
    <3>1. DOMAIN Succ[w] = 1..Len(Succ[w]) /\ Len(Succ[w]) \in Nat
      BY GraphAssumption, SMTT(20)
    <3> QED
      BY <3>1, SMTT(20)
  <2>4. e[1] = w /\ e[2] = k /\ (e = e0 <=> w = me.w /\ k = me.k)
    BY <2>2
  <2>5. CASE w = me.w
    <3>1. Counted(e) <=> k < me.k
      BY <1>2, <1>3, <1>4, <2>3, <2>4, <2>5, SMTT(20) DEF Counted
    <3>2. Counted(e)' <=> (Counting(r) /\ r.w = w => Passed(r, k))
      BY <1>1, <1>2, <1>3, <2>4, <2>5, SMTT(20) DEF Counted
    <3>3. CASE me.k > Len(Succ[me.w]) /\ ~Counting(r)
      BY <1>0, <2>3, <2>4, <2>5, <3>1, <3>2, <3>3, SMTT(20)
    <3>4. CASE /\ Counting(r) /\ r.w = me.w
               /\ \A l \in Nat : Passed(r, l) <=> Passed(me, l) \/ l = me.k
      BY <1>4, <2>3, <2>4, <2>5, <3>1, <3>2, <3>4
    <3> QED
      BY <3>3, <3>4
  <2>6. CASE w # me.w
    <3>1. ASSUME NEW u \in Workers
          PROVE  (Counting(worker'[u]) /\ worker'[u].w = w => Passed(worker'[u], k))
                 <=> (Counting(worker[u]) /\ worker[u].w = w => Passed(worker[u], k))
      <4>1. CASE u = t
        BY <1>1, <2>6, <4>1
      <4>2. CASE u # t
        BY <1>1, <4>2
      <4> QED
        BY <4>1, <4>2
    <3> QED
      BY <2>4, <2>6, <3>1 DEF Counted
  <2> QED
    BY <2>5, <2>6
<1>6. ASSUME NEW j \in Rows PROVE Uncounted(j)' = Uncounted(j) \ {e0}
  BY <1>5 DEF Uncounted
<1> QED
  BY <1>6

(* completed_work: the thread that counts a row down to zero finds it not  *)
(* pushed, and pushes it.                                                  *)
LEMMA CountRows == ASSUME RowsInv, NEW t \in Workers, CountDown(t) PROVE RowsInv'
<1> DEFINE me == worker[t]
<1>0. /\ GraphInv /\ GraphInv' /\ CountsAlone /\ OnePlace /\ HasRow(me)
      /\ me \in WorkerState /\ worker \in [Workers -> WorkerState]
      /\ count_queue \in [Rows -> Int]
  BY QuietSteps DEF RowsInv, GraphInv, GraphTypeOK
<1>1. /\ me.pc = "count" /\ me.w \in Rows /\ todo = {} /\ me.k \in Nat \ {0}
      /\ UNCHANGED <<ready_queue, end_hint, todo, done>>
  BY <1>0 DEF CountDown, Doing, HasRow, CountsAlone, WorkerState
<1>2. Len(Succ[me.w]) \in Nat
  BY <1>1, GraphAssumption, SMTT(20)
<1>3. \A j \in Rows : ~Carries(me, j)
  BY <1>1 DEF Carries
<1>4. CASE me.k > Len(Succ[me.w])
  <2>0. PICK r : worker' = [worker EXCEPT ![t] = r] /\ r = [Resting EXCEPT !.pc = "pop"]
    <3>1. ~(me.k <= Len(Succ[me.w]))
      BY <1>1, <1>2, <1>4, SMTT(20)
    <3> QED
      BY <3>1 DEF CountDown, Become
  <2>1. /\ worker' = [worker EXCEPT ![t] = r]
        /\ r = [pc |-> "pop", i |-> 0, w |-> 0, k |-> 1, push |-> 0]
    BY <2>0 DEF Resting
  <2>2. count_queue' = count_queue
    BY <1>1, <1>2, <1>4, SMTT(20) DEF CountDown
  <2>3. /\ worker'[t] = r /\ r \in WorkerState
        /\ \A u \in Workers : u # t => worker'[u] = worker[u]
    BY <1>0, <2>1 DEF GraphInv, GraphTypeOK
  <2>4. r.pc = "pop" /\ ~Counting(r) /\ \A j \in Rows : ~Carries(r, j)
    BY <2>1 DEF Counting, Carries
  <2>5. \A u \in Workers : \A j \in Rows : Carries(worker'[u], j) <=> Carries(worker[u], j)
    BY <1>3, <2>3, <2>4
  <2>6. OnePlace'
    BY <1>0, <1>1, <2>5 DEF OnePlace
  <2>7. CountsAlone'
    BY <1>0, <1>1, <2>3, <2>4 DEF CountsAlone
  <2>8. \A j \in Rows : HasEntry(j)' <=> HasEntry(j)
    BY <1>1, <1>3, <2>3, <2>4, <2>5 DEF HasEntry
  <2>9. EntryHolders' = EntryHolders
    BY <2>8 DEF EntryHolders
  <2>10. ASSUME NEW j \in Rows PROVE Uncounted(j)' = Uncounted(j)
    <3>1. Uncounted(j)' = Uncounted(j) \ {<<me.w, me.k>>}
      BY <1>0, <1>1, <1>4, <2>1, <2>3, <2>4, CountedNext
    <3>2. <<me.w, me.k>> \notin EntriesFor(j)
      BY <1>1, <1>2, <1>4, EntryFacts, GraphAssumption, SMTT(20)
    <3> QED
      BY <3>1, <3>2 DEF Uncounted
  <2>11. \A j \in Rows : count_queue'[j] = Cardinality(Uncounted(j)')
    BY <2>2, <2>10 DEF RowsInv
  <2>12. \A j \in Rows : HasEntry(j)' \/ (\E u \in Workers : Carries(worker'[u], j)) =>
            count_queue'[j] = 0 /\ j \notin todo'
    BY <1>1, <2>2, <2>5, <2>8 DEF RowsInv
  <2>13. \A u \in Workers : ~Doing(u, "abort")'
    BY <2>3, <2>4 DEF RowsInv, Doing
  <2> QED
    BY <1>0, <1>1, <2>6, <2>7, <2>9, <2>11, <2>12, <2>13 DEF RowsInv
<1>5. CASE me.k <= Len(Succ[me.w])
  <2>1. PICK j \in Rows : j = Succ[me.w][me.k]
    <3>1. Succ[me.w] \in Seq(Rows)
      BY <1>1, GraphAssumption
    <3> QED
      BY <1>1, <1>5, <3>1, SMTT(20)
  <2>2. PICK e0 : e0 = <<me.w, me.k>> /\ e0 \in Uncounted(j)
    <3>1. me.k \in DOMAIN Succ[me.w]
      BY <1>1, <1>2, <1>5, GraphAssumption, SMTT(20)
    <3>2. <<me.w, me.k>> \in EntriesFor(j)
      BY <1>1, <2>1, <3>1, EntryFacts
    <3>3. Counting(me) /\ ~Passed(me, me.k)
      BY <1>1, SMTT(20) DEF Counting, Passed
    <3> QED
      BY <3>2, <3>3, SMTT(20) DEF Uncounted, Counted
  <2>3. \A l \in Rows : l # j => e0 \notin Uncounted(l)
    BY <2>1, <2>2, EntryFacts, SMTT(20) DEF Uncounted
  <2>4. count_queue[j] \in Nat /\ count_queue[j] # 0
    <3>1. Cardinality(Uncounted(j)) # 0
      BY <2>2, UncountedIsFinite, FS_EmptySet
    <3> QED
      BY <3>1, UncountedIsFinite DEF RowsInv
  <2>5. PICK r : /\ worker' = [worker EXCEPT ![t] = r]
                 /\ \/ r = [me EXCEPT !.pc = "push", !.push = j] /\ count_queue[j] = 1
                    \/ r = [me EXCEPT !.k = me.k + 1] /\ count_queue[j] # 1
    <3>1. ~(me.k > Len(Succ[me.w]))
      BY <1>1, <1>2, <1>5, SMTT(20)
    <3>2. Become(t, IF count_queue[j] = 1 THEN [me EXCEPT !.pc = "push", !.push = j]
                    ELSE [me EXCEPT !.k = me.k + 1])
      BY <2>1, <3>1 DEF CountDown
    <3>3. CASE count_queue[j] = 1
      BY <3>2, <3>3 DEF Become
    <3>4. CASE count_queue[j] # 1
      BY <3>2, <3>4 DEF Become
    <3> QED
      BY <3>3, <3>4
  <2>6. count_queue' = [count_queue EXCEPT ![j] = count_queue[j] - 1]
    <3>1. ~(me.k > Len(Succ[me.w]))
      BY <1>1, <1>2, <1>5, SMTT(20)
    <3> QED
      BY <2>1, <3>1 DEF CountDown
  <2>7. /\ worker'[t] = r /\ r \in WorkerState
        /\ \A u \in Workers : u # t => worker'[u] = worker[u]
    BY <1>0, <2>5 DEF GraphInv, GraphTypeOK
  <2>8. /\ r.w = me.w
        /\ count_queue[j] = 1 => r.pc = "push" /\ r.push = j /\ r.k = me.k
        /\ count_queue[j] # 1 => r.pc = "count" /\ r.k = me.k + 1
    <3>1. CASE count_queue[j] = 1
      BY <1>0, <2>5, <3>1 DEF WorkerState
    <3>2. CASE count_queue[j] # 1
      <4>1. r = [pc |-> "count", i |-> me.i, w |-> me.w, k |-> me.k + 1, push |-> me.push]
        BY <1>0, <1>1, <2>5, <3>2 DEF WorkerState
      <4> QED
        BY <1>1, <3>2, <4>1
    <3> QED
      BY <3>1, <3>2
  <2>9. Counting(r) /\ \A k \in Nat : Passed(r, k) <=> Passed(me, k) \/ k = me.k
    BY <1>1, <2>8, SMTT(20) DEF Counting, Passed
  <2>10. \A l \in Rows : Uncounted(l)' = Uncounted(l) \ {e0}
    BY <1>0, <1>1, <2>2, <2>5, <2>7, <2>8, <2>9, CountedNext
  <2>11. ASSUME NEW l \in Rows PROVE count_queue'[l] = Cardinality(Uncounted(l)')
    <3>1. CASE l = j
      <4>0. e0 \in Uncounted(j) /\ IsFiniteSet(Uncounted(j))
        BY <2>2, UncountedIsFinite
      <4>1. Cardinality(Uncounted(j) \ {e0}) = Cardinality(Uncounted(j)) - 1
        BY <4>0, FS_RemoveElement
      <4> QED
        BY <1>0, <2>6, <2>10, <3>1, <4>1 DEF RowsInv
    <3>2. CASE l # j
      <4>1. Uncounted(l)' = Uncounted(l)
        BY <2>3, <2>10, <3>2
      <4> QED
        BY <1>0, <2>6, <3>2, <4>1 DEF RowsInv
    <3> QED
      BY <3>1, <3>2
  <2>12. CountsAlone'
    <3>1. \A u \in Workers : /\ Counting(worker'[u]) <=> Counting(worker[u])
                             /\ Counting(worker[u]) => worker'[u].w = worker[u].w
      BY <1>1, <2>7, <2>8, <2>9 DEF Counting
    <3> QED
      BY <1>0, <1>1, <3>1 DEF CountsAlone
  <2>13. \A u \in Workers : ~Doing(u, "abort")'
    BY <2>7, <2>8 DEF RowsInv, Doing
  <2>14. ~HasEntry(j) /\ \A u \in Workers : ~Carries(worker[u], j)
    BY <2>4 DEF RowsInv
  <2>15. \A l \in Rows : l # j => count_queue'[l] = count_queue[l]
    BY <1>0, <2>6
  <2>16. CASE count_queue[j] = 1
    <3>1. /\ OnePlace' /\ end_hint' = Cardinality(EntryHolders')
          /\ \A l \in Rows : HasEntry(l)' <=> HasEntry(l)
          /\ \A l \in Rows : (\E u \in Workers : Carries(worker'[u], l)) =>
                l = j \/ \E u \in Workers : Carries(worker[u], l)
      BY <1>1, <1>3, <2>4, <2>5, <2>7, <2>8, <2>16, PushBegins
    <3>2. count_queue'[j] = 0
      BY <1>0, <2>6, <2>16, SMTT(20)
    <3>3. \A l \in Rows : HasEntry(l)' \/ (\E u \in Workers : Carries(worker'[u], l)) =>
             count_queue'[l] = 0 /\ l \notin todo'
      BY <1>1, <2>14, <2>15, <3>1, <3>2 DEF RowsInv
    <3> QED
      BY <1>0, <2>11, <2>12, <2>13, <3>1, <3>3 DEF RowsInv
  <2>17. CASE count_queue[j] # 1
    <3>1. \A l \in Rows : ~Carries(r, l)
      BY <2>8, <2>17 DEF Carries
    <3>2. \A u \in Workers : \A l \in Rows : Carries(worker'[u], l) <=> Carries(worker[u], l)
      BY <1>3, <2>7, <3>1
    <3>3. OnePlace'
      BY <1>0, <1>1, <3>2 DEF OnePlace
    <3>4. \A l \in Rows : HasEntry(l)' <=> HasEntry(l)
      BY <1>1, <1>3, <2>7, <3>1, <3>2 DEF HasEntry
    <3>5. EntryHolders' = EntryHolders
      BY <3>4 DEF EntryHolders
    <3>6. \A l \in Rows : HasEntry(l)' \/ (\E u \in Workers : Carries(worker'[u], l)) =>
             count_queue'[l] = 0 /\ l \notin todo'
      BY <1>1, <2>14, <2>15, <3>2, <3>4 DEF RowsInv
    <3> QED
      BY <1>0, <1>1, <2>11, <2>12, <2>13, <3>3, <3>5, <3>6 DEF RowsInv
  <2> QED
    BY <2>16, <2>17
<1> QED
  BY <1>1, <1>2, <1>4, <1>5, SMTT(20)

(* RowsInv holds in every state, whatever the graph. *)
LEMMA RowsInvHolds == GraphSpec => []RowsInv
<1>1. GraphInit => RowsInv
  BY RowsInitInv
<1>2. RowsInv /\ [GraphNext]_graphVars => RowsInv'
  <2> SUFFICES ASSUME RowsInv, [GraphNext]_graphVars PROVE RowsInv'
    OBVIOUS
  <2>1. CASE GraphNext
    <3>1. PICK t \in Workers : \/ \E w \in Rows : Ready(t, w)
                               \/ Constructed /\ EnterGraph(t)
                               \/ GraphStep(t)
      BY <2>1 DEF GraphNext
    <3> QED
      BY <3>1, ReadyRows, LookRows, PushWorkRows, StoreRows, ClaimRows, RunRows, CountRows DEF GraphStep
  <2>2. CASE UNCHANGED graphVars
    <3>1. GraphInv'
      BY <2>2, GraphStepInv DEF RowsInv
    <3>2. OnePlace' /\ CountsAlone' /\ EntryHolders' = EntryHolders
      BY <2>2 DEF graphVars, RowsInv, OnePlace, CountsAlone, EntryHolders, HasEntry
    <3>3. \A j \in Rows : Uncounted(j)' = Uncounted(j) /\ (HasEntry(j)' <=> HasEntry(j))
      BY <2>2 DEF graphVars, Uncounted, Counted, HasEntry
    <3> QED
      BY <2>2, <3>1, <3>2, <3>3 DEF graphVars, RowsInv, Doing
  <2> QED
    BY <2>1, <2>2
<1> QED
  BY <1>1, <1>2, PTL DEF GraphSpec

(* A row runs at most once, and after every row that names it as a         *)
(* successor, and push_work never aborts: for every graph, also one with   *)
(* repeated edges or cycles, and every set of threads.                     *)
THEOREM RowsRunOnceInOrder == GraphSpec => []RowsRunInOrder
<1>1. RowsInv => RowsRunInOrder
  <2> SUFFICES ASSUME RowsInv PROVE RowsRunInOrder
    OBVIOUS
  <2>1. \A w \in Rows : done[w] <= 1
    BY DEF RowsInv, OnePlace
  <2>2. ASSUME NEW w \in Rows, NEW k \in DOMAIN Succ[w], done[Succ[w][k]] > 0 PROVE done[w] > 0
    <3>1. PICK j \in Rows : j = Succ[w][k]
      BY GraphAssumption, SMTT(20)
    <3>2. count_queue[j] = 0
      BY <2>2, <3>1 DEF RowsInv, HasEntry
    <3>3. Uncounted(j) = {}
      BY <3>1, <3>2, UncountedIsFinite, FS_EmptySet DEF RowsInv
    <3>4. <<w, k>> \in EntriesFor(j)
      BY <3>1, EntryFacts
    <3> QED
      BY <3>3, <3>4, SMTT(20) DEF Uncounted, Counted
  <2> QED
    BY <2>1, <2>2 DEF RowsRunInOrder, RowsInv
<1> QED
  BY <1>1, RowsInvHolds, PTL
=============================================================================
