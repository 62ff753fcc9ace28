------------------------ MODULE TaskInvariantProofs -------------------------
(***************************************************************************)
(* The inductive invariant of SimpleTaskScheduler: its parts, what follows *)
(* from them (the safety properties, in states that satisfy it), that the  *)
(* initial states satisfy it, and that the steps of the executor preserve  *)
(* it.  Module TaskQueueProofs has the steps of the queue,                 *)
(* SimpleTaskSchedulerProofs those of user code, and the theorems.         *)
(***************************************************************************)
EXTENDS SimpleTaskScheduler, Integers, TLAPS

(* Steps are proved by Zenon unless they name another prover. *)
USE ZenonT(20)

(* What the proofs use of finite sets and of the natural numbers.  It is a *)
(* part of the invariant, and shown to be true from the theorems of the    *)
(* library in SimpleTaskSchedulerProofs.                                   *)
SetFacts ==
    /\ IsFiniteSet({}) /\ Cardinality({}) = 0
    /\ \A S : IsFiniteSet(S) => Cardinality(S) \in Nat /\ (Cardinality(S) = 0 <=> S = {})
    /\ \A S, x : IsFiniteSet(S) /\ x \notin S =>
          IsFiniteSet(S \cup {x}) /\ Cardinality(S \cup {x}) = Cardinality(S) + 1
    /\ \A S, x : IsFiniteSet(S) /\ x \in S =>
          IsFiniteSet(S \ {x}) /\ Cardinality(S \ {x}) = Cardinality(S) - 1
    /\ \A S, T : IsFiniteSet(S) /\ T \subseteq S => IsFiniteSet(T)
    /\ \A n \in Nat : IsFiniteSet(1..n)
    /\ \A S, T : IsFiniteSet(S) /\ IsFiniteSet(T) => IsFiniteSet(S \X T)
    /\ \A S, x : IsFiniteSet(S) => Cardinality({x} \X S) = Cardinality(S)
    /\ \A S, T : IsFiniteSet(S) /\ IsFiniteSet(T) /\ S \cap T = {} =>
          Cardinality(S \cup T) = Cardinality(S) + Cardinality(T)
    /\ \A S, f, T : IsFiniteSet(S) /\ (\A x \in S : IsFiniteSet(f[x])) /\ (\A y \in T : \E x \in S : y \in f[x]) =>
          IsFiniteSet(T)
    /\ \A T : T \subseteq Nat /\ T # {} => \E x \in T : \A y \in T : x <= y
    /\ \A m, n \in Nat : \A s \in [1..n -> 1..m] : (\A i, j \in 1..n : s[i] = s[j] => i = j) => n <= m

(* Types.  A frame has the fields of Frame. *)
Ats == {"user", "destroy", "complete", "visit", "ready_dec", "schedule", "info", "unref",
        "push", "aggregate", "aggregate_unref"}
Nexts == {"return", "unref", "schedule", "aggregate"}
FrameState == [at : Ats, task : Owners, pred : Owners, rest : Seq(Tasks), next : Nexts]

(* The variables have their types. *)
TypeOK ==
    /\ live \subseteq Tasks
    /\ task_type \in [Tasks -> {"runnable", "aggregate"}]
    /\ m_ref_count \in [Tasks -> Nat]
    /\ m_wait_queue \in [Tasks -> Seq(Tasks)]
    /\ consumed \in [Tasks -> BOOLEAN]
    /\ m_predecessor \in [Tasks -> Owners]
    /\ m_is_respawning \in [Tasks -> BOOLEAN]
    /\ vla \in [Tasks -> Seq(Owners)]
    /\ queue_index \in [Tasks -> Queues]
    /\ m_ready_queues \in [Queues -> Seq(Tasks)]
    /\ m_ready_count \in Nat
    /\ stack \in [Actors -> Seq(FrameState)]
    /\ holds \in [Owners -> SUBSET Tasks]
    /\ allocated \in 0..MaxTasks
    /\ where \in [Workers -> 0..Out]
    /\ phase \in {"main", "execute", "end"}
    /\ waits \in 0..MaxWaits
    /\ after \in [Tasks -> SUBSET Tasks]

(* Lists, and the three places a task may be in. *)
SeqHas(s, t) == \E i \in 1..Len(s) : s[i] = t
Inj(s) == \A i, j \in 1..Len(s) : s[i] = s[j] => i = j

InReady(q, t) == SeqHas(m_ready_queues[q], t)
InWait(p, t)  == SeqHas(m_wait_queue[p], t)
InFrame(x, t) == x \in FramePlaces /\ HoldsTask(FrameAt(x), t)

(* The shape of the stacks: user code is at the bottom, the host's below   *)
(* all that Main calls; functions that wait for a predecessor have one;    *)
(* what is visited was consumed.                                           *)
FrameOK(a, d, f) ==
    /\ f.task \in 0..allocated
    /\ f.pred \in 0..allocated
    /\ d = 1 /\ a = Main => f.at = "user" /\ f.task = HostCode
    /\ d # 1 \/ a # Main => f.task # HostCode
    /\ d = 1 /\ a # Main => /\ f.at \in {"user", "destroy", "complete", "visit", "ready_dec"}
                            /\ task_type[f.task] = "runnable"
    /\ d > 1 => \/ f.at \in {"schedule", "info", "unref", "push"} /\ task_type[f.task] = "runnable"
                \/ f.at \in {"aggregate", "aggregate_unref", "visit"} /\ task_type[f.task] = "aggregate"
    /\ f.at = "info" => f.next \in {"unref", "schedule"}
    /\ f.at = "unref" => f.next \in {"return", "schedule"}
    /\ f.at = "aggregate_unref" => f.next \in {"return", "aggregate"}
    /\ f.at \in {"info", "unref", "aggregate_unref"} => f.pred # Null
    /\ f.at = "visit" => consumed[f.task]

Shape ==
    /\ stack[Main] # << >>
    /\ \A x \in FramePlaces : FrameOK(x[1], x[2], FrameAt(x))

(* A task that was created and is not complete is in one place, any other  *)
(* in none.                                                                *)
Active(t) == t <= allocated /\ ~consumed[t]

Alone(t) ==
    /\ \A q, r \in Queues : InReady(q, t) /\ InReady(r, t) => q = r
    /\ \A p, r \in Tasks : InWait(p, t) /\ InWait(r, t) => p = r
    /\ \A x, y \in FramePlaces : InFrame(x, t) /\ InFrame(y, t) => x = y
    /\ \A q \in Queues, p \in Tasks : ~(InReady(q, t) /\ InWait(p, t))
    /\ \A q \in Queues, x \in FramePlaces : ~(InReady(q, t) /\ InFrame(x, t))
    /\ \A p \in Tasks, x \in FramePlaces : ~(InWait(p, t) /\ InFrame(x, t))
    /\ Active(t) <=> \/ \E q \in Queues : InReady(q, t)
                     \/ \E p \in Tasks : InWait(p, t)
                     \/ \E x \in FramePlaces : InFrame(x, t)

Spots ==
    /\ \A t \in Tasks : Alone(t)
    /\ \A q \in Queues : Inj(m_ready_queues[q])
    /\ \A p \in Tasks : Inj(m_wait_queue[p])
    /\ \A x \in FramePlaces : Inj(FrameAt(x).rest)

(* Who keeps a predecessor allocated.  A respawning task has a reference   *)
(* of its own.  A task that was just spawned has none: the functor below   *)
(* it on the stack, which waits for the call to return, holds a future.    *)
Kept(a, d, p) == d = 2 /\ stack[a][1].at = "user" /\ p \in holds[stack[a][1].task]

FrameKnows(a, d, f) ==
    /\ f.at = "user" /\ f.task # HostCode /\ ~m_is_respawning[f.task] => m_predecessor[f.task] = Null
    /\ f.at = "complete" /\ ~m_is_respawning[f.task] =>
          m_predecessor[f.task] = Null /\ holds[f.task] = {}
    /\ f.at = "schedule" /\ ~m_is_respawning[f.task] /\ m_predecessor[f.task] # Null =>
          Kept(a, d, m_predecessor[f.task])
    /\ f.at = "info" /\ f.next = "schedule" => Kept(a, d, f.pred)

FramesKnow == \A x \in FramePlaces : FrameKnows(x[1], x[2], FrameAt(x))

(* A task has a predecessor or the respawn flag only while it runs, is     *)
(* completed or is scheduled.                                              *)
Settled(t) == m_predecessor[t] = Null /\ ~m_is_respawning[t]
Home(t) == \E x \in FramePlaces : FrameAt(x).task = t /\ FrameAt(x).at \in {"user", "complete", "schedule"}
Homes   == \A t \in Tasks : Settled(t) \/ Home(t)

(* Only tasks that are not complete are waited for; only runnable tasks    *)
(* are ready; a complete task holds nothing; of what was not created       *)
(* nothing is known.                                                       *)
WaitsOnActive == \A p, t \in Tasks : InWait(p, t) => Active(p)
ReadyRunnable == \A q \in Queues, t \in Tasks : InReady(q, t) => task_type[t] = "runnable"

Kinds ==
    \A t \in Tasks :
       /\ task_type[t] = "runnable" => vla[t] = << >>
       /\ task_type[t] = "aggregate" => holds[t] = {}
       /\ consumed[t] => holds[t] = {} /\ NonNull(t) = {}
       /\ Len(vla[t]) <= MaxVla
       /\ t > allocated => /\ holds[t] = {} /\ vla[t] = << >> /\ ~consumed[t]
                           /\ after[t] = {} /\ m_ref_count[t] = 0

Known == FramesKnow /\ Homes /\ WaitsOnActive /\ ReadyRunnable /\ Kinds

(* The reference counts are exact for all tasks, and one thread completes  *)
(* a task.                                                                 *)
Own(t) == IF t <= allocated /\ (~consumed[t] \/ Completing(t) # {}) THEN 1 ELSE 0

RefSum(t) == Cardinality(Futures(t)) + Cardinality(Entries(t))
             + Cardinality(Respawning(t)) + Cardinality(Releasing(t)) + Own(t)

Refs ==
    /\ \A t \in Tasks : m_ref_count[t] = RefSum(t) /\ (t \in live <=> m_ref_count[t] > 0)
    /\ \A t \in Tasks : \A x, y \in Completing(t) : x = y

(* What a task was told to wait for is complete, or the task still knows   *)
(* of it, or waits for it.                                                 *)
AfterInv ==
    \A t \in Tasks : \A p \in after[t] :
       consumed[p] \/ p = m_predecessor[t] \/ SeqHas(vla[t], p) \/ InWait(p, t)

(* The ready count counts the tasks in ready queues, those about to be     *)
(* pushed and the workers inside a task.                                   *)
ReadyTasks == {t \in Tasks : \E q \in Queues : InReady(q, t)}
Busy       == {w \in Workers : stack[w] # << >>}
Pushing    == {x \in FramePlaces : FrameAt(x).at = "push"}

Count == m_ready_count = Cardinality(ReadyTasks) + Cardinality(Busy) + Cardinality(Pushing)

(* No cycle of tasks that wait for each other: futures, predecessors and   *)
(* waiting all go from a higher to a lower rank.                           *)
Ranks == [Owners -> Nat]
Rank ==
    \E rank \in Ranks :
       /\ \A o \in Owners : \A t \in holds[o] : rank[t] < rank[o]
       /\ \A t \in Tasks : m_predecessor[t] # Null => rank[m_predecessor[t]] < rank[t]
       /\ \A t \in Tasks : \A i \in NonNull(t) : rank[vla[t][i]] < rank[t]
       /\ \A p, t \in Tasks : InWait(p, t) => rank[p] < rank[t]

(* The phases of the host and the places of the workers: one that left its *)
(* loop saw a ready count of 0, which stays 0 until wait() returns.        *)
Exec ==
    /\ \A w \in Workers : where[w] # AtLoop => stack[w] = << >>
    /\ phase # "execute" => \A w \in Workers : where[w] = Out
    /\ phase = "execute" => Len(stack[Main]) = 1
    /\ phase = "execute" /\ (\E w \in Workers : where[w] = Out) => m_ready_count = 0
    /\ phase # "execute" /\ waits = MaxWaits => m_ready_count = 0 /\ Len(stack[Main]) = 1
    /\ phase = "end" => holds[HostCode] = {} /\ waits = MaxWaits

(* The inductive invariant *)
IInv == SetFacts /\ TypeOK /\ Shape /\ Spots /\ Known /\ Refs /\ AfterInv /\ Count /\ Rank /\ Exec

-----------------------------------------------------------------------------
(* Frames *)

Depth(a) == Len(stack[a])

(* An element of a list is replaced (the top frame, an entry of an         *)
(* aggregate).                                                             *)
LEMMA ReplaceSeq ==
    ASSUME NEW S, NEW s \in Seq(S), NEW i \in 1..Len(s), NEW e \in S
    PROVE  /\ [s EXCEPT ![i] = e] \in Seq(S)
           /\ Len([s EXCEPT ![i] = e]) = Len(s)
           /\ \A j \in 1..Len(s) : [s EXCEPT ![i] = e][j] = IF j = i THEN e ELSE s[j]
BY SMTT(20)

(* An element is put at the end of a list (a frame on top of a stack). *)
LEMMA AppendSeq ==
    ASSUME NEW S, NEW s \in Seq(S), NEW e \in S
    PROVE  /\ Append(s, e) \in Seq(S)
           /\ Len(Append(s, e)) = Len(s) + 1
           /\ Append(s, e)[Len(s) + 1] = e
           /\ \A j \in 1..Len(s) : Append(s, e)[j] = s[j]
BY SMTT(20)

(* The places of the frames are the pairs of an actor and a depth of its   *)
(* stack.                                                                  *)
LEMMA PlaceFacts ==
    ASSUME stack \in [Actors -> Seq(FrameState)]
    PROVE  /\ \A a \in Actors : Len(stack[a]) \in Nat
           /\ \A a \in Actors : \A d : <<a, d>> \in FramePlaces <=> d \in 1..Len(stack[a])
           /\ \A x \in FramePlaces : /\ x[1] \in Actors /\ x[2] \in 1..Len(stack[x[1]])
                                     /\ x = <<x[1], x[2]>>
                                     /\ FrameAt(x) \in FrameState
           /\ \A a \in Actors : \A d \in 1..Len(stack[a]) : FrameAt(<<a, d>>) = stack[a][d]
<1>1. \A a \in Actors : Len(stack[a]) \in Nat
  BY SMTT(20)
<1>2. \A a \in Actors : \A d : <<a, d>> \in FramePlaces <=> d \in 1..Len(stack[a])
  BY <1>1, SMTT(20) DEF FramePlaces
<1>3. ASSUME NEW x \in FramePlaces
      PROVE  /\ x[1] \in Actors /\ x[2] \in 1..Len(stack[x[1]])
             /\ x = <<x[1], x[2]>>
             /\ FrameAt(x) \in FrameState
  <2>1. PICK a \in Actors : x \in {a} \X (1..Len(stack[a]))
    BY DEF FramePlaces
  <2>2. x[1] \in Actors /\ x[2] \in 1..Len(stack[x[1]]) /\ x = <<x[1], x[2]>>
    BY <2>1, SMTT(20)
  <2>3. stack[x[1]] \in Seq(FrameState)
    BY <2>2
  <2> QED
    BY <2>2, <2>3, SMTT(20) DEF FrameAt
<1> QED
  BY <1>1, <1>2, <1>3 DEF FrameAt

(* The empty set is finite, and the only set with no elements. *)
LEMMA EmptySet ==
    ASSUME IInv
    PROVE  IsFiniteSet({}) /\ Cardinality({}) = 0 /\ \A S : IsFiniteSet(S) => (Cardinality(S) = 0 <=> S = {})
BY DEF IInv, SetFacts

(* A finite set has a number of elements. *)
LEMMA CardinalityIsNat ==
    ASSUME IInv, NEW S, IsFiniteSet(S)
    PROVE  Cardinality(S) \in Nat
BY DEF IInv, SetFacts

(* A part of a finite set is finite. *)
LEMMA SubsetIsFinite ==
    ASSUME IInv, NEW S, IsFiniteSet(S), NEW T \in SUBSET S
    PROVE  IsFiniteSet(T)
BY DEF IInv, SetFacts

(* The numbers up to n are finitely many. *)
LEMMA IntervalIsFinite ==
    ASSUME IInv, NEW n \in Nat
    PROVE  IsFiniteSet(1..n)
BY DEF IInv, SetFacts

(* A finite set with one more element counts one more. *)
LEMMA OneMore ==
    ASSUME IInv, NEW S, NEW T, NEW x, IsFiniteSet(S), x \notin S, T = S \cup {x}
    PROVE  IsFiniteSet(T) /\ Cardinality(T) = Cardinality(S) + 1
BY DEF IInv, SetFacts

(* A finite set with one element less counts one less. *)
LEMMA OneLess ==
    ASSUME IInv, NEW S, NEW T, NEW x, IsFiniteSet(S), x \in S, T = S \ {x}
    PROVE  IsFiniteSet(T) /\ Cardinality(T) = Cardinality(S) - 1
BY DEF IInv, SetFacts

(* Some numbers have a least one: the form of induction used below. *)
LEMMA Least ==
    ASSUME IInv, NEW T, T \subseteq Nat, T # {}
    PROVE  \E x \in T : \A y \in T : x <= y
BY DEF IInv, SetFacts

(* There are finitely many frames. *)
LEMMA PlacesFinite ==
    ASSUME IInv
    PROVE  IsFiniteSet(FramePlaces) /\ IsFiniteSet(Actors)
<1>1. IsFiniteSet(Actors)
  BY ActorsAssumption, PoolAssumption, OneMore
<1>2. PICK places : places = [a \in Actors |-> {a} \X (1..Len(stack[a]))]
  OBVIOUS
<1>3. \A a \in Actors : IsFiniteSet(places[a])
  <2> SUFFICES ASSUME NEW a \in Actors PROVE IsFiniteSet({a} \X (1..Len(stack[a])))
    BY <1>2
  <2>1. Len(stack[a]) \in Nat
    BY SMTT(20) DEF IInv, TypeOK
  <2>2. IsFiniteSet({a}) /\ IsFiniteSet(1..Len(stack[a]))
    <3>1. {a} = {} \cup {a} /\ a \notin {}
      OBVIOUS
    <3> QED
      BY <2>1, <3>1, EmptySet, OneMore, IntervalIsFinite
  <2> QED
    BY <2>2 DEF IInv, SetFacts
<1>4. \A e \in FramePlaces : \E a \in Actors : e \in places[a]
  BY <1>2 DEF FramePlaces
<1> QED
  BY <1>1, <1>3, <1>4 DEF IInv, SetFacts

-----------------------------------------------------------------------------
(* Lists of tasks, and sets that gain or lose an element *)

(* A task that is pushed on a list is in it, once if it was not there      *)
(* before.                                                                 *)
LEMMA PushSeq ==
    ASSUME NEW s \in Seq(Tasks), NEW x \in Tasks
    PROVE  /\ <<x>> \o s \in Seq(Tasks)
           /\ \A t : SeqHas(<<x>> \o s, t) <=> t = x \/ SeqHas(s, t)
           /\ Inj(s) /\ ~SeqHas(s, x) => Inj(<<x>> \o s)
<1>1. <<x>> \in Seq(Tasks) /\ Len(<<x>>) = 1 /\ <<x>>[1] = x
  BY SMTT(20)
<1>2. PICK r : r = <<x>> \o s
  OBVIOUS
<1>3. Len(s) \in Nat
  BY SMTT(20)
<1>4. /\ r \in Seq(Tasks) /\ Len(r) = Len(s) + 1
      /\ \A i \in 1..(Len(s) + 1) : r[i] = IF i = 1 THEN x ELSE s[i - 1]
  <2>1. /\ r \in Seq(Tasks) /\ Len(r) = 1 + Len(s)
        /\ \A i \in 1..(1 + Len(s)) : r[i] = IF i <= 1 THEN <<x>>[i] ELSE s[i - 1]
    BY <1>1, <1>2, SMTT(20)
  <2> QED
    BY <1>1, <1>3, <2>1, SMTT(20)
<1>5. \A t : SeqHas(r, t) <=> t = x \/ SeqHas(s, t)
  <2>1. ASSUME NEW t, SeqHas(r, t) PROVE t = x \/ SeqHas(s, t)
    BY <1>3, <1>4, <2>1, SMTT(20) DEF SeqHas
  <2>2. SeqHas(r, x)
    BY <1>3, <1>4, SMTT(20) DEF SeqHas
  <2>3. ASSUME NEW t, SeqHas(s, t) PROVE SeqHas(r, t)
    <3>1. PICK i \in 1..Len(s) : s[i] = t
      BY <2>3 DEF SeqHas
    <3>2. i + 1 \in 1..(Len(s) + 1) /\ i + 1 # 1 /\ (i + 1) - 1 = i
      BY <1>3, SMTT(20)
    <3> QED
      BY <1>4, <3>1, <3>2 DEF SeqHas
  <2> QED
    BY <2>1, <2>2, <2>3
<1>6. ASSUME Inj(s), ~SeqHas(s, x) PROVE Inj(r)
  <2> SUFFICES ASSUME NEW i \in 1..(Len(s) + 1), NEW j \in 1..(Len(s) + 1), r[i] = r[j]
               PROVE  i = j
    BY <1>4 DEF Inj
  <2>1. i # 1 => i - 1 \in 1..Len(s) /\ s[i - 1] # x
    BY <1>3, <1>6, SMTT(20) DEF SeqHas
  <2>2. j # 1 => j - 1 \in 1..Len(s) /\ s[j - 1] # x
    BY <1>3, <1>6, SMTT(20) DEF SeqHas
  <2>3. CASE i # 1 /\ j # 1
    <3>1. s[i - 1] = s[j - 1]
      BY <1>4, <2>3
    <3>2. i - 1 = j - 1
      BY <1>6, <2>1, <2>2, <2>3, <3>1 DEF Inj
    <3> QED
      BY <1>3, <3>2, SMTT(20)
  <2> QED
    BY <1>4, <2>1, <2>2, <2>3, SMTT(20)
<1> QED
  BY <1>2, <1>4, <1>5, <1>6

(* A list without repetition that loses its head loses that task and no    *)
(* other.                                                                  *)
LEMMA TailSeq ==
    ASSUME NEW s \in Seq(Tasks), s # << >>
    PROVE  /\ Head(s) \in Tasks /\ Tail(s) \in Seq(Tasks)
           /\ SeqHas(s, Head(s))
           /\ Inj(s) => /\ Inj(Tail(s))
                        /\ \A t : SeqHas(Tail(s), t) <=> SeqHas(s, t) /\ t # Head(s)
<1>1. Len(s) \in Nat /\ Len(s) # 0 /\ Head(s) = s[1]
  BY SMTT(20)
<1>2. /\ Head(s) \in Tasks /\ Tail(s) \in Seq(Tasks) /\ Len(Tail(s)) = Len(s) - 1
      /\ \A i \in 1..(Len(s) - 1) : Tail(s)[i] = s[i + 1]
  BY <1>1, SMTT(20)
<1>3. SeqHas(s, Head(s))
  BY <1>1, SMTT(20) DEF SeqHas
<1>4. ASSUME Inj(s) PROVE Inj(Tail(s))
  <2> SUFFICES ASSUME NEW i \in 1..(Len(s) - 1), NEW j \in 1..(Len(s) - 1), Tail(s)[i] = Tail(s)[j]
               PROVE  i = j
    BY <1>2 DEF Inj
  <2>1. s[i + 1] = s[j + 1] /\ i + 1 \in 1..Len(s) /\ j + 1 \in 1..Len(s)
    BY <1>1, <1>2, SMTT(20)
  <2>2. i + 1 = j + 1
    BY <1>4, <2>1 DEF Inj
  <2> QED
    BY <1>1, <2>2, SMTT(20)
<1>5. ASSUME Inj(s), NEW t, SeqHas(Tail(s), t) PROVE SeqHas(s, t) /\ t # Head(s)
  <2>1. PICK i \in 1..(Len(s) - 1) : s[i + 1] = t
    BY <1>2, <1>5 DEF SeqHas
  <2>2. i + 1 \in 1..Len(s) /\ 1 \in 1..Len(s) /\ i + 1 # 1
    BY <1>1, SMTT(20)
  <2> QED
    BY <1>1, <1>5, <2>1, <2>2 DEF SeqHas, Inj
<1>6. ASSUME NEW t, SeqHas(s, t), t # Head(s) PROVE SeqHas(Tail(s), t)
  <2>1. PICK i \in 1..Len(s) : s[i] = t
    BY <1>6 DEF SeqHas
  <2>2. i - 1 \in 1..(Len(s) - 1) /\ (i - 1) + 1 = i
    BY <1>1, <1>6, <2>1, SMTT(20)
  <2>3. Tail(s)[i - 1] = t
    BY <1>2, <2>1, <2>2
  <2> QED
    BY <1>2, <2>2, <2>3 DEF SeqHas
<1> QED
  BY <1>2, <1>3, <1>4, <1>5, <1>6

(* Nothing is in the empty list. *)
LEMMA EmptyList ==
    ASSUME NEW s, s = << >>
    PROVE  s \in Seq(Tasks) /\ Inj(s) /\ \A t : ~SeqHas(s, t)
<1>1. s \in Seq(Tasks) /\ Len(s) = 0
  BY SMTT(20)
<1>2. Inj(s)
  BY <1>1, SMTT(20) DEF Inj
<1>3. ASSUME NEW t PROVE ~SeqHas(s, t)
  BY <1>1, SMTT(20) DEF SeqHas
<1> QED
  BY <1>1, <1>2, <1>3

(* The loop over the predecessors of an aggregate stops at an entry that   *)
(* is not null.                                                            *)
LEMMA FirstIsNonNull ==
    ASSUME IInv, NEW g \in Tasks, vla \in [Tasks -> Seq(Owners)], NonNull(g) # {}
    PROVE  First(g) \in NonNull(g)
<1>1. NonNull(g) \subseteq Nat
  BY SMTT(20) DEF NonNull
<1>2. \E x \in NonNull(g) : \A y \in NonNull(g) : x <= y
  BY <1>1, Least
<1> QED
  BY <1>2 DEF First

-----------------------------------------------------------------------------
(* What follows from the invariant *)

(* What the assumptions on the constants say of tasks, owners and actors. *)
LEMMA Basics ==
    ASSUME TypeOK
    PROVE  /\ MaxTasks \in Nat /\ NumQueues \in Nat \ {0} /\ MaxVla \in Nat /\ MaxWaits \in Nat
           /\ Tasks \subseteq Nat /\ Owners = 0..MaxTasks
           /\ \A t \in Tasks : t # Null /\ t # HostCode
           /\ Created \subseteq Tasks
           /\ \A t \in Tasks : t \in Created <=> t <= allocated
           /\ stack \in [Actors -> Seq(FrameState)] /\ Main \in Actors
           /\ \A a \in Actors : a \in Workers \/ a = Main
           /\ allocated \in Nat
BY CountsAssumption, BoundsAssumption, ActorsAssumption, SMTT(20)
   DEF TypeOK, Tasks, Owners, Null, HostCode, Created

(* The null task and every task created so far are numbers up to allocated. *)
LEMMA Numbers ==
    ASSUME IInv
    PROVE  /\ Null \in 0..allocated /\ allocated \in Nat /\ allocated <= allocated
           /\ \A t \in Tasks : /\ t # HostCode
                               /\ t <= allocated => t \in 0..allocated /\ ~(t > allocated)
                               /\ ~(t > allocated) => t <= allocated
<1>1. allocated \in Nat /\ Tasks \subseteq Nat /\ \A t \in Tasks : t # HostCode
  BY Basics DEF IInv
<1> QED
  BY <1>1, SMTT(20) DEF Null

(* A thread's first frame is not above another one, and its later frames are. *)
LEMMA Depths ==
    /\ ~(1 > 1) /\ 1 + 1 = 2 /\ 2 > 1 /\ 2 # 1
    /\ \A n \in Nat : n > 1 => n # 1
    /\ \A n \in Nat \ {0} : ~(n > 1) => n = 1
BY SMTT(20)

(* The top frame of a thread is one of the frames the invariant speaks of. *)
LEMMA TopFacts ==
    ASSUME IInv, NEW a \in Actors, stack[a] # << >>
    PROVE  /\ <<a, Depth(a)>> \in FramePlaces /\ FrameAt(<<a, Depth(a)>>) = Top(a)
           /\ Depth(a) \in Nat \ {0}
           /\ Top(a) \in FrameState
           /\ FrameOK(a, Depth(a), Top(a))
           /\ FrameKnows(a, Depth(a), Top(a))
           /\ \A t \in Tasks : InFrame(<<a, Depth(a)>>, t) <=> HoldsTask(Top(a), t)
<1>1. stack \in [Actors -> Seq(FrameState)]
  BY DEF IInv, TypeOK
<1>2. Depth(a) \in Nat \ {0} /\ Depth(a) \in 1..Len(stack[a])
  BY <1>1, SMTT(20) DEF Depth
<1>3. PICK x : x = <<a, Depth(a)>>
  OBVIOUS
<1>4. x \in FramePlaces /\ FrameAt(x) = Top(a) /\ x[1] = a /\ x[2] = Depth(a)
  BY <1>1, <1>2, <1>3, PlaceFacts DEF Top, Depth
<1>5. Top(a) \in FrameState
  BY <1>1, <1>4, PlaceFacts
<1>6. FrameOK(a, Depth(a), Top(a)) /\ FrameKnows(a, Depth(a), Top(a))
  BY <1>4 DEF IInv, Shape, Known, FramesKnow
<1> QED
  BY <1>2, <1>3, <1>4, <1>5, <1>6 DEF InFrame

(* The references of each kind are finitely many, so that they can be      *)
(* counted.                                                                *)
LEMMA RefsFinite ==
    ASSUME IInv, NEW t \in Tasks
    PROVE  /\ IsFiniteSet(Futures(t)) /\ IsFiniteSet(Entries(t))
           /\ IsFiniteSet(Respawning(t)) /\ IsFiniteSet(Releasing(t))
<1>1. IsFiniteSet(Owners) /\ IsFiniteSet(Created) /\ IsFiniteSet(1..MaxVla)
  <2>1. TypeOK
    BY DEF IInv
  <2>2. IsFiniteSet(Tasks) /\ IsFiniteSet(1..MaxVla)
    BY <2>1, Basics, IntervalIsFinite DEF Tasks
  <2>3. HostCode \notin Tasks /\ Created \in SUBSET Tasks
    BY <2>1, Basics
  <2> QED
    BY <2>2, <2>3, OneMore, SubsetIsFinite DEF Owners
<1>2. IsFiniteSet(Created \X (1..MaxVla))
  BY <1>1 DEF IInv, SetFacts
<1>3. IsFiniteSet(FramePlaces)
  BY PlacesFinite
<1>4. /\ Futures(t) \in SUBSET Owners
      /\ Entries(t) \in SUBSET (Created \X (1..MaxVla))
      /\ Respawning(t) \in SUBSET Created
      /\ Releasing(t) \in SUBSET FramePlaces
  BY DEF Futures, Entries, Respawning, Releasing
<1> QED
  BY <1>1, <1>2, <1>3, <1>4, SubsetIsFinite

(* The five parts of a reference count are numbers. *)
LEMMA RefsAreNat ==
    ASSUME IInv, NEW t \in Tasks
    PROVE  /\ Cardinality(Futures(t)) \in Nat /\ Cardinality(Entries(t)) \in Nat
           /\ Cardinality(Respawning(t)) \in Nat /\ Cardinality(Releasing(t)) \in Nat
           /\ Own(t) \in 0..1
           /\ RefSum(t) \in Nat
<1>1. /\ Cardinality(Futures(t)) \in Nat /\ Cardinality(Entries(t)) \in Nat
      /\ Cardinality(Respawning(t)) \in Nat /\ Cardinality(Releasing(t)) \in Nat
  BY RefsFinite, CardinalityIsNat
<1>2. Own(t) \in 0..1
  BY SMTT(20) DEF Own
<1> QED
  BY <1>1, <1>2, SMTT(20) DEF RefSum

(* A reference keeps a task allocated. *)
LEMMA Referenced ==
    ASSUME IInv, NEW t \in Tasks,
           \/ Futures(t) # {} \/ Entries(t) # {} \/ Respawning(t) # {} \/ Releasing(t) # {}
           \/ Own(t) = 1
    PROVE  t \in live /\ m_ref_count[t] \in Nat \ {0} /\ t <= allocated
<1>1. TypeOK
  BY DEF IInv
<1>2. /\ Cardinality(Futures(t)) \in Nat /\ Cardinality(Entries(t)) \in Nat
      /\ Cardinality(Respawning(t)) \in Nat /\ Cardinality(Releasing(t)) \in Nat
      /\ Own(t) \in 0..1
  BY <1>1, RefsAreNat
<1>3. /\ Cardinality(Futures(t)) = 0 => Futures(t) = {}
      /\ Cardinality(Entries(t)) = 0 => Entries(t) = {}
      /\ Cardinality(Respawning(t)) = 0 => Respawning(t) = {}
      /\ Cardinality(Releasing(t)) = 0 => Releasing(t) = {}
  BY <1>1, RefsFinite, EmptySet
<1>4. RefSum(t) > 0
  BY <1>2, <1>3, SMTT(20) DEF RefSum
<1>5. m_ref_count[t] > 0 /\ t \in live
  BY <1>4 DEF IInv, Refs
<1>6. m_ref_count[t] \in Nat
  BY <1>1 DEF TypeOK
<1>7. t <= allocated
  <2>1. allocated \in Nat /\ t \in Nat
    BY <1>1, Basics DEF TypeOK
  <2> QED
    BY <1>5, <2>1, SMTT(20) DEF IInv, Known, Kinds
<1> QED
  BY <1>5, <1>6, <1>7, SMTT(20)

(* A task that is not complete, or whose completion goes on, owns itself. *)
LEMMA ActiveIsOwned ==
    ASSUME IInv, NEW t \in Tasks, Active(t) \/ Completing(t) # {}
    PROVE  Own(t) = 1
<1>1. Completing(t) # {} => t <= allocated
  <2> SUFFICES ASSUME NEW x \in Completing(t) PROVE t <= allocated
    OBVIOUS
  <2>1. x \in FramePlaces /\ FrameAt(x).task = t
    BY DEF Completing
  <2>2. t \in 0..allocated
    BY <2>1 DEF IInv, Shape, FrameOK
  <2>3. allocated \in Nat
    BY SMTT(20) DEF IInv, TypeOK
  <2> QED
    BY <2>2, <2>3, SMTT(20)
<1> QED
  BY <1>1 DEF Own, Active

(* A task in a queue or in the hands of a thread is allocated. *)
LEMMA PlacedIsLive ==
    ASSUME IInv, NEW t \in Tasks
    PROVE  /\ \A q \in Queues : InReady(q, t) => t \in live /\ Active(t)
           /\ \A p \in Tasks : InWait(p, t) => t \in live /\ Active(t)
           /\ \A x \in FramePlaces : InFrame(x, t) => t \in live /\ Active(t)
           /\ \A o \in Owners : t \in holds[o] => t \in live
<1>1. Active(t) => t \in live
  BY ActiveIsOwned, Referenced
<1>2. \A o \in Owners : t \in holds[o] => t \in live
  <2> SUFFICES ASSUME NEW o \in Owners, t \in holds[o] PROVE t \in live
    OBVIOUS
  <2>1. o \in Futures(t)
    BY DEF Futures
  <2> QED
    BY <2>1, Referenced
<1>3. Active(t) <=> \/ \E q \in Queues : InReady(q, t)
                    \/ \E p \in Tasks : InWait(p, t)
                    \/ \E x \in FramePlaces : InFrame(x, t)
  BY DEF IInv, Spots, Alone
<1> QED
  BY <1>1, <1>2, <1>3

(* The predecessor a frame works with is allocated. *)
LEMMA KeptIsLive ==
    ASSUME IInv, NEW x \in FramePlaces, NEW p \in Tasks, Kept(x[1], x[2], p)
    PROVE  p \in live
<1>1. stack \in [Actors -> Seq(FrameState)]
  BY DEF IInv, TypeOK
<1>2. x[1] \in Actors /\ x[2] \in 1..Len(stack[x[1]]) /\ x[2] = 2
  BY <1>1, PlaceFacts DEF Kept
<1>3. 1 \in 1..Len(stack[x[1]]) /\ stack[x[1]] \in Seq(FrameState)
  BY <1>1, <1>2, SMTT(20)
<1>4. stack[x[1]][1].task \in Owners
  <2>1. stack[x[1]][1] \in FrameState
    BY <1>3, SMTT(20)
  <2> QED
    BY <2>1 DEF FrameState
<1> QED
  BY <1>4, PlacedIsLive DEF Kept

(* The predecessor that schedule_runnable is about to wait for is allocated. *)
LEMMA PredecessorIsLive ==
    ASSUME IInv, NEW x \in FramePlaces, FrameAt(x).at = "schedule",
           m_predecessor[FrameAt(x).task] # Null
    PROVE  m_predecessor[FrameAt(x).task] \in live
<1> DEFINE t == FrameAt(x).task
           p == m_predecessor[t]
<1>1. TypeOK
  BY DEF IInv
<1>2. FrameOK(x[1], x[2], FrameAt(x)) /\ FrameKnows(x[1], x[2], FrameAt(x))
  BY DEF IInv, Shape, Known, FramesKnow
<1>3. FrameAt(x) \in FrameState /\ x[2] \in Nat
  BY <1>1, Basics, PlaceFacts, SMTT(20)
<1>4. t \in Tasks /\ t <= allocated
  <2>1. t # HostCode /\ t \in 0..allocated /\ t \in Owners
    BY <1>2, <1>3 DEF FrameOK, FrameState
  <2> QED
    BY <1>1, <2>1, SMTT(20) DEF Owners, TypeOK
<1>5. p \in Tasks
  <2>1. p \in Owners /\ p # Null
    BY <1>1, <1>4 DEF TypeOK
  <2> QED
    BY <2>1 DEF Owners, HostCode, Null
<1>6. CASE m_is_respawning[t]
  <2>1. t \in Respawning(p)
    BY <1>1, <1>4, <1>6, Basics DEF Respawning
  <2> QED
    BY <1>5, <2>1, Referenced
<1>7. CASE ~m_is_respawning[t]
  <2>1. Kept(x[1], x[2], p)
    BY <1>2, <1>7 DEF FrameKnows
  <2> QED
    BY <1>5, <2>1, KeptIsLive
<1> QED
  BY <1>6, <1>7

(* The entries of an aggregate are allocated. *)
LEMMA EntryIsLive ==
    ASSUME IInv, NEW g \in Tasks, NEW i \in NonNull(g)
    PROVE  vla[g][i] \in live /\ vla[g][i] \in Tasks
<1>1. TypeOK
  BY DEF IInv
<1>2. vla[g] \in Seq(Owners) /\ i \in 1..Len(vla[g]) /\ vla[g][i] # Null /\ Len(vla[g]) <= MaxVla
  BY <1>1 DEF TypeOK, NonNull, IInv, Known, Kinds
<1>3. PICK p : p = vla[g][i]
  OBVIOUS
<1>4. p \in Tasks
  BY <1>2, <1>3, SMTT(20) DEF Owners, HostCode, Null
<1>5. g <= allocated
  <2>1. allocated \in Nat /\ g \in Nat
    BY <1>1, Basics DEF TypeOK
  <2>2. vla[g] # << >>
    BY <1>2, SMTT(20)
  <2> QED
    BY <2>1, <2>2, SMTT(20) DEF IInv, Known, Kinds
<1>6. i \in 1..MaxVla
  BY <1>1, <1>2, Basics, SMTT(20)
<1>7. <<g, i>> \in Entries(p)
  BY <1>1, <1>2, <1>3, <1>5, <1>6, Basics, SMTT(20) DEF Entries
<1> QED
  BY <1>3, <1>4, <1>7, Referenced

(* Only tasks that were created are allocated. *)
LEMMA LiveIsCreated ==
    ASSUME IInv, NEW t \in live
    PROVE  t \in Tasks /\ t <= allocated /\ t \in 0..allocated
<1>1. TypeOK /\ t \in Tasks
  BY DEF IInv, TypeOK
<1>2. m_ref_count[t] > 0
  BY <1>1 DEF IInv, Refs
<1>3. t \in Nat /\ allocated \in Nat /\ (t > allocated => m_ref_count[t] = 0)
  BY <1>1, Basics DEF IInv, Known, Kinds
<1>4. t <= allocated
  BY <1>2, <1>3, SMTT(20)
<1> QED
  BY <1>1, <1>3, <1>4, SMTT(20)

(* The three sets the ready count counts are finite. *)
LEMMA CountFinite ==
    ASSUME IInv
    PROVE  /\ IsFiniteSet(Busy) /\ IsFiniteSet(ReadyTasks) /\ IsFiniteSet(Pushing)
           /\ Cardinality(Busy) \in Nat /\ Cardinality(ReadyTasks) \in Nat
           /\ Cardinality(Pushing) \in Nat
<1>1. Busy \in SUBSET Workers /\ ReadyTasks \in SUBSET Tasks /\ Pushing \in SUBSET FramePlaces
  BY DEF Busy, ReadyTasks, Pushing
<1>2. IsFiniteSet(Workers) /\ IsFiniteSet(Tasks) /\ IsFiniteSet(FramePlaces)
  BY PoolAssumption, PlacesFinite, CountsAssumption, IntervalIsFinite DEF Tasks
<1>3. IsFiniteSet(Busy) /\ IsFiniteSet(ReadyTasks) /\ IsFiniteSet(Pushing)
  BY <1>1, <1>2, SubsetIsFinite
<1> QED
  BY <1>3, CardinalityIsNat

-----------------------------------------------------------------------------
(* What the invariant says: one place for each task *)

(* A list of tasks without repetition is not longer than there are tasks. *)
LEMMA InjIsShort ==
    ASSUME IInv, NEW s \in Seq(Tasks), Inj(s), MaxTasks \in Nat
    PROVE  Len(s) <= MaxTasks
<1>1. Len(s) \in Nat /\ s \in [1..Len(s) -> 1..MaxTasks]
  BY SMTT(20) DEF Tasks
<1>2. \A i, j \in 1..Len(s) : s[i] = s[j] => i = j
  BY DEF Inj
<1> QED
  BY <1>1, <1>2 DEF IInv, SetFacts

(* A set whose elements are all equal counts 0 or 1. *)
LEMMA AtMostOne ==
    ASSUME IInv, NEW S, \A x, y \in S : x = y
    PROVE  Cardinality(S) = IF S = {} THEN 0 ELSE 1
<1>1. CASE S = {}
  BY <1>1, EmptySet
<1>2. CASE S # {}
  <2>1. PICK x : S = {} \cup {x} /\ x \notin {}
    BY <1>2, SMTT(20)
  <2> QED
    BY <1>2, <2>1, EmptySet, OneMore, SMTT(20)
<1> QED
  BY <1>1, <1>2

(* The positions where InOnePlace counts a task, and where the invariant   *)
(* finds it.                                                               *)
LEMMA PlacesOf ==
    ASSUME IInv, NEW t \in Tasks
    PROVE  /\ ReadyAt(t) # {} <=> \E q \in Queues : InReady(q, t)
           /\ WaitingAt(t) # {} <=> \E p \in Tasks : InWait(p, t)
           /\ HeldAt(t) # {} <=> \E x \in FramePlaces : InFrame(x, t)
           /\ \A e, g \in ReadyAt(t) : e = g
           /\ \A e, g \in WaitingAt(t) : e = g
           /\ \A e, g \in HeldAt(t) : e = g
<1>1. TypeOK /\ Spots /\ Alone(t) /\ MaxTasks \in Nat
  BY Basics DEF IInv, Spots
<1>2. \A q \in Queues : /\ m_ready_queues[q] \in Seq(Tasks) /\ Len(m_ready_queues[q]) \in Nat
                        /\ Len(m_ready_queues[q]) <= MaxTasks /\ Inj(m_ready_queues[q])
  <2> SUFFICES ASSUME NEW q \in Queues
               PROVE  /\ m_ready_queues[q] \in Seq(Tasks) /\ Len(m_ready_queues[q]) \in Nat
                      /\ Len(m_ready_queues[q]) <= MaxTasks /\ Inj(m_ready_queues[q])
    OBVIOUS
  <2>1. m_ready_queues[q] \in Seq(Tasks) /\ Inj(m_ready_queues[q])
    BY <1>1 DEF TypeOK, Spots
  <2>2. Len(m_ready_queues[q]) \in Nat
    BY <2>1, SMTT(20)
  <2> QED
    BY <1>1, <2>1, <2>2, InjIsShort
<1>3. \A p \in Tasks : /\ m_wait_queue[p] \in Seq(Tasks) /\ Len(m_wait_queue[p]) \in Nat
                       /\ Len(m_wait_queue[p]) <= MaxTasks /\ Inj(m_wait_queue[p])
  <2> SUFFICES ASSUME NEW p \in Tasks
               PROVE  /\ m_wait_queue[p] \in Seq(Tasks) /\ Len(m_wait_queue[p]) \in Nat
                      /\ Len(m_wait_queue[p]) <= MaxTasks /\ Inj(m_wait_queue[p])
    OBVIOUS
  <2>1. m_wait_queue[p] \in Seq(Tasks) /\ Inj(m_wait_queue[p])
    BY <1>1 DEF TypeOK, Spots
  <2>2. Len(m_wait_queue[p]) \in Nat
    BY <2>1, SMTT(20)
  <2> QED
    BY <1>1, <2>1, <2>2, InjIsShort
<1>4. \A e : e \in ReadyAt(t) <=> \E q \in Queues : \E i \in 1..Len(m_ready_queues[q]) :
                                     e = <<q, i>> /\ m_ready_queues[q][i] = t
  <2>1. \A e \in ReadyAt(t) : \E q \in Queues : \E i \in 1..Len(m_ready_queues[q]) :
            e = <<q, i>> /\ m_ready_queues[q][i] = t
    <3> SUFFICES ASSUME NEW e \in ReadyAt(t)
                 PROVE  \E q \in Queues : \E i \in 1..Len(m_ready_queues[q]) :
                            e = <<q, i>> /\ m_ready_queues[q][i] = t
      OBVIOUS
    <3>1. PICK q \in Queues, i \in 1..MaxTasks : e = <<q, i>> /\ i <= Len(m_ready_queues[q])
                                                 /\ m_ready_queues[q][i] = t
      BY SMTT(20) DEF ReadyAt
    <3>2. i \in 1..Len(m_ready_queues[q])
      BY <1>2, <3>1, SMTT(20)
    <3> QED
      BY <3>1, <3>2
  <2>2. \A q \in Queues : \A i \in 1..Len(m_ready_queues[q]) : m_ready_queues[q][i] = t => <<q, i>> \in ReadyAt(t)
    <3> SUFFICES ASSUME NEW q \in Queues, NEW i \in 1..Len(m_ready_queues[q]), m_ready_queues[q][i] = t
                 PROVE  <<q, i>> \in ReadyAt(t)
      OBVIOUS
    <3>1. i \in 1..MaxTasks /\ i <= Len(m_ready_queues[q])
      BY <1>1, <1>2, SMTT(20)
    <3> QED
      BY <3>1 DEF ReadyAt
  <2> QED
    BY <2>1, <2>2
<1>5. \A e : e \in WaitingAt(t) <=> \E p \in Tasks : \E i \in 1..Len(m_wait_queue[p]) :
                                       e = <<p, i>> /\ m_wait_queue[p][i] = t
  <2>1. \A e \in WaitingAt(t) : \E p \in Tasks : \E i \in 1..Len(m_wait_queue[p]) :
            e = <<p, i>> /\ m_wait_queue[p][i] = t
    <3> SUFFICES ASSUME NEW e \in WaitingAt(t)
                 PROVE  \E p \in Tasks : \E i \in 1..Len(m_wait_queue[p]) :
                            e = <<p, i>> /\ m_wait_queue[p][i] = t
      OBVIOUS
    <3>1. PICK p \in Created, i \in 1..MaxTasks : e = <<p, i>> /\ i <= Len(m_wait_queue[p])
                                                  /\ m_wait_queue[p][i] = t
      BY SMTT(20) DEF WaitingAt
    <3>2. p \in Tasks
      BY <1>1, Basics
    <3>3. i \in 1..Len(m_wait_queue[p])
      BY <1>3, <3>1, <3>2, SMTT(20)
    <3> QED
      BY <3>1, <3>2, <3>3
  <2>2. \A p \in Tasks : \A i \in 1..Len(m_wait_queue[p]) : m_wait_queue[p][i] = t => <<p, i>> \in WaitingAt(t)
    <3> SUFFICES ASSUME NEW p \in Tasks, NEW i \in 1..Len(m_wait_queue[p]), m_wait_queue[p][i] = t
                 PROVE  <<p, i>> \in WaitingAt(t)
      OBVIOUS
    <3>1. InWait(p, t)
      BY DEF InWait, SeqHas
    <3>2. Active(p)
      BY <3>1 DEF IInv, Known, WaitsOnActive
    <3>3. p \in Created
      BY <1>1, <3>2, Basics DEF Active
    <3>4. i \in 1..MaxTasks /\ i <= Len(m_wait_queue[p])
      BY <1>1, <1>3, SMTT(20)
    <3> QED
      BY <3>3, <3>4 DEF WaitingAt
  <2> QED
    BY <2>1, <2>2
<1>6. \A x : x \in HeldAt(t) <=> x \in FramePlaces /\ InFrame(x, t)
  BY DEF HeldAt, InFrame
<1>7. ReadyAt(t) # {} <=> \E q \in Queues : InReady(q, t)
  BY <1>4 DEF InReady, SeqHas
<1>8. WaitingAt(t) # {} <=> \E p \in Tasks : InWait(p, t)
  BY <1>5 DEF InWait, SeqHas
<1>9. HeldAt(t) # {} <=> \E x \in FramePlaces : InFrame(x, t)
  BY <1>6
<1>10. \A e, g \in ReadyAt(t) : e = g
  <2> SUFFICES ASSUME NEW e \in ReadyAt(t), NEW g \in ReadyAt(t) PROVE e = g
    OBVIOUS
  <2>1. PICK q \in Queues : \E i \in 1..Len(m_ready_queues[q]) : e = <<q, i>> /\ m_ready_queues[q][i] = t
    BY <1>4
  <2>2. PICK r \in Queues : \E j \in 1..Len(m_ready_queues[r]) : g = <<r, j>> /\ m_ready_queues[r][j] = t
    BY <1>4
  <2>3. q = r
    <3>1. InReady(q, t) /\ InReady(r, t)
      BY <2>1, <2>2 DEF InReady, SeqHas
    <3> QED
      BY <1>1, <3>1 DEF Alone
  <2>4. PICK i \in 1..Len(m_ready_queues[q]) : e = <<q, i>> /\ m_ready_queues[q][i] = t
    BY <2>1
  <2>5. PICK j \in 1..Len(m_ready_queues[q]) : g = <<q, j>> /\ m_ready_queues[q][j] = t
    BY <2>2, <2>3
  <2> QED
    BY <1>2, <2>4, <2>5 DEF Inj
<1>11. \A e, g \in WaitingAt(t) : e = g
  <2> SUFFICES ASSUME NEW e \in WaitingAt(t), NEW g \in WaitingAt(t) PROVE e = g
    OBVIOUS
  <2>1. PICK q \in Tasks : \E i \in 1..Len(m_wait_queue[q]) : e = <<q, i>> /\ m_wait_queue[q][i] = t
    BY <1>5
  <2>2. PICK r \in Tasks : \E j \in 1..Len(m_wait_queue[r]) : g = <<r, j>> /\ m_wait_queue[r][j] = t
    BY <1>5
  <2>3. q = r
    <3>1. InWait(q, t) /\ InWait(r, t)
      BY <2>1, <2>2 DEF InWait, SeqHas
    <3> QED
      BY <1>1, <3>1 DEF Alone
  <2>4. PICK i \in 1..Len(m_wait_queue[q]) : e = <<q, i>> /\ m_wait_queue[q][i] = t
    BY <2>1
  <2>5. PICK j \in 1..Len(m_wait_queue[q]) : g = <<q, j>> /\ m_wait_queue[q][j] = t
    BY <2>2, <2>3
  <2> QED
    BY <1>3, <2>4, <2>5 DEF Inj
<1>12. \A e, g \in HeldAt(t) : e = g
  BY <1>1, <1>6 DEF Alone
<1> QED
  BY <1>7, <1>8, <1>9, <1>10, <1>11, <1>12

(* A task in one place by the invariant is counted once by InOnePlace. *)
LEMMA InOnePlaceInv ==
    ASSUME IInv
    PROVE  InOnePlace
<1> SUFFICES ASSUME NEW t \in Created
             PROVE  Cardinality(ReadyAt(t)) + Cardinality(WaitingAt(t)) + Cardinality(HeldAt(t))
                       = IF consumed[t] THEN 0 ELSE 1
  BY DEF InOnePlace
<1>1. TypeOK /\ t \in Tasks /\ t <= allocated
  BY Basics DEF IInv
<1>2. Alone(t) /\ (Active(t) <=> ~consumed[t])
  BY <1>1 DEF IInv, Spots, Active
<1>3. /\ ReadyAt(t) # {} <=> \E q \in Queues : InReady(q, t)
      /\ WaitingAt(t) # {} <=> \E p \in Tasks : InWait(p, t)
      /\ HeldAt(t) # {} <=> \E x \in FramePlaces : InFrame(x, t)
      /\ \A e, g \in ReadyAt(t) : e = g
      /\ \A e, g \in WaitingAt(t) : e = g
      /\ \A e, g \in HeldAt(t) : e = g
  BY <1>1, PlacesOf
<1>4. /\ Cardinality(ReadyAt(t)) = IF ReadyAt(t) = {} THEN 0 ELSE 1
      /\ Cardinality(WaitingAt(t)) = IF WaitingAt(t) = {} THEN 0 ELSE 1
      /\ Cardinality(HeldAt(t)) = IF HeldAt(t) = {} THEN 0 ELSE 1
  BY <1>3, AtMostOne
<1>5. /\ ~(ReadyAt(t) # {} /\ WaitingAt(t) # {})
      /\ ~(ReadyAt(t) # {} /\ HeldAt(t) # {})
      /\ ~(WaitingAt(t) # {} /\ HeldAt(t) # {})
      /\ ~consumed[t] <=> ReadyAt(t) # {} \/ WaitingAt(t) # {} \/ HeldAt(t) # {}
  BY <1>2, <1>3 DEF Alone
<1> QED
  BY <1>4, <1>5, SMTT(20)

-----------------------------------------------------------------------------
(* What the invariant says: quiescence, references and order *)

(* With a ready count of 0 and the host back in its own code no task is active: *)
(* of the active tasks the one of least rank would have to wait for another.    *)
LEMMA Quiescent ==
    ASSUME IInv, m_ready_count = 0, Len(stack[Main]) = 1
    PROVE  /\ \A t \in Tasks : t <= allocated => consumed[t]
           /\ \A w \in Workers : stack[w] = << >>
           /\ \A q \in Queues : m_ready_queues[q] = << >>
           /\ \A x \in FramePlaces : FrameAt(x).at = "user" /\ FrameAt(x).task = HostCode
<1>1. TypeOK /\ Main \in Actors /\ stack \in [Actors -> Seq(FrameState)]
      /\ (\A t \in Tasks : t # HostCode) /\ (\A a \in Actors : a \in Workers \/ a = Main)
  BY Basics DEF IInv
<1>2. ReadyTasks = {} /\ Busy = {}
  <2>1. /\ IsFiniteSet(Busy) /\ IsFiniteSet(ReadyTasks)
        /\ Cardinality(Busy) \in Nat /\ Cardinality(ReadyTasks) \in Nat /\ Cardinality(Pushing) \in Nat
    BY <1>1, CountFinite
  <2>2. 0 = Cardinality(ReadyTasks) + Cardinality(Busy) + Cardinality(Pushing)
    BY DEF IInv, Count
  <2>3. Cardinality(ReadyTasks) = 0 /\ Cardinality(Busy) = 0
    BY <2>1, <2>2, SMTT(20)
  <2> QED
    BY <2>1, <2>3, EmptySet
<1>3. \A w \in Workers : stack[w] = << >>
  BY <1>2 DEF Busy
<1>4. \A q \in Queues : m_ready_queues[q] = << >>
  <2> SUFFICES ASSUME NEW q \in Queues, m_ready_queues[q] # << >> PROVE FALSE
    OBVIOUS
  <2>1. m_ready_queues[q] \in Seq(Tasks)
    BY <1>1 DEF TypeOK
  <2>2. Head(m_ready_queues[q]) \in Tasks /\ InReady(q, Head(m_ready_queues[q]))
    BY <2>1, TailSeq DEF InReady
  <2> QED
    BY <1>2, <2>2 DEF ReadyTasks
<1>5. \A x \in FramePlaces : FrameAt(x).at = "user" /\ FrameAt(x).task = HostCode
  <2> SUFFICES ASSUME NEW x \in FramePlaces PROVE FrameAt(x).at = "user" /\ FrameAt(x).task = HostCode
    OBVIOUS
  <2>1. x[1] \in Actors /\ x[2] \in 1..Len(stack[x[1]])
    BY <1>1, PlaceFacts
  <2>2. \A w \in Workers : Len(stack[w]) = 0
    BY <1>3, SMTT(20)
  <2>3. x[1] = Main
    BY <1>1, <2>1, <2>2, SMTT(20)
  <2>4. x[2] = 1
    <3>1. x[2] \in 1..Len(stack[Main])
      BY <2>1, <2>3
    <3> QED
      BY <3>1, SMTT(20)
  <2>5. FrameOK(x[1], x[2], FrameAt(x))
    BY DEF IInv, Shape
  <2> QED
    BY <2>3, <2>4, <2>5 DEF FrameOK
<1>6. \A t \in Tasks : \A x : ~InFrame(x, t)
  BY <1>1, <1>5 DEF InFrame, HoldsTask
<1>7. PICK rank \in Ranks : \A p, t \in Tasks : InWait(p, t) => rank[p] < rank[t]
  BY DEF IInv, Rank
<1>8. \A t \in Tasks : Active(t) => \E p \in Tasks : Active(p) /\ rank[p] < rank[t]
  <2> SUFFICES ASSUME NEW t \in Tasks, Active(t) PROVE \E p \in Tasks : Active(p) /\ rank[p] < rank[t]
    OBVIOUS
  <2>1. Alone(t)
    BY DEF IInv, Spots
  <2>2. \A q \in Queues : ~InReady(q, t)
    BY <1>2 DEF ReadyTasks
  <2>3. PICK p \in Tasks : InWait(p, t)
    BY <1>6, <2>1, <2>2 DEF Alone
  <2>4. Active(p)
    BY <2>3 DEF IInv, Known, WaitsOnActive
  <2> QED
    BY <1>7, <2>3, <2>4
<1>9. \A t \in Tasks : ~Active(t)
  <2> SUFFICES ASSUME NEW t \in Tasks, Active(t) PROVE FALSE
    OBVIOUS
  <2>1. PICK T : T = {rank[u] : u \in {u \in Tasks : Active(u)}}
    OBVIOUS
  <2>2. \A u \in Tasks : rank[u] \in Nat
    BY DEF Ranks, Owners
  <2>3. T \subseteq Nat /\ T # {}
    BY <2>1, <2>2
  <2>4. PICK k \in T : \A l \in T : k <= l
    BY <2>3, Least
  <2>5. PICK u \in Tasks : Active(u) /\ k = rank[u]
    BY <2>1
  <2>6. PICK p \in Tasks : Active(p) /\ rank[p] < rank[u]
    BY <1>8, <2>5
  <2>7. rank[p] \in T
    BY <2>1, <2>6
  <2> QED
    BY <2>2, <2>4, <2>5, <2>6, <2>7, SMTT(20)
<1> QED
  BY <1>3, <1>4, <1>5, <1>9 DEF Active

(* During wait() a ready count of 0 means quiescence. *)
LEMMA DoneInv ==
    ASSUME IInv
    PROVE  DoneMeansQuiescent
<1> SUFFICES ASSUME phase = "execute", m_ready_count = 0
             PROVE  (\A t \in Created : consumed[t]) /\ (\A w \in Workers : stack[w] = << >>)
  BY DEF DoneMeansQuiescent
<1>1. Len(stack[Main]) = 1
  BY DEF IInv, Exec
<1>2. \A t \in Created : t \in Tasks /\ t <= allocated
  BY Basics DEF IInv
<1> QED
  BY <1>1, <1>2, Quiescent

(* At the end nobody has a reference left, so everything was deallocated. *)
LEMMA EndedInv ==
    ASSUME IInv
    PROVE  NothingLeftAtEnd
<1> SUFFICES ASSUME phase = "end"
             PROVE  m_ready_count = 0 /\ live = {} /\ \A q \in Queues : m_ready_queues[q] = << >>
  BY DEF NothingLeftAtEnd
<1>1. m_ready_count = 0 /\ Len(stack[Main]) = 1 /\ holds[HostCode] = {}
  BY DEF IInv, Exec
<1>2. /\ \A t \in Tasks : t <= allocated => consumed[t]
      /\ \A q \in Queues : m_ready_queues[q] = << >>
      /\ \A x \in FramePlaces : FrameAt(x).at = "user" /\ FrameAt(x).task = HostCode
  BY <1>1, Quiescent
<1>3. TypeOK /\ (\A t \in Tasks : t # HostCode /\ t # Null /\ t \in Nat) /\ allocated \in Nat
      /\ \A t \in Created : t \in Tasks /\ t <= allocated
  BY Basics DEF IInv
<1>4. live = {}
  <2> SUFFICES ASSUME NEW t \in live PROVE FALSE
    OBVIOUS
  <2>1. t \in Tasks /\ t <= allocated
    BY LiveIsCreated
  <2>2. \A u \in Tasks : holds[u] = {} /\ (u <= allocated => NonNull(u) = {})
    BY <1>2, <1>3, SMTT(20) DEF IInv, Known, Kinds
  <2>3. Futures(t) = {}
    BY <1>1, <2>2 DEF Futures, Owners
  <2>4. Entries(t) = {}
    <3> SUFFICES ASSUME NEW e \in Entries(t) PROVE FALSE
      OBVIOUS
    <3>1. e[1] \in Tasks /\ e[1] <= allocated /\ e[2] \in 1..MaxVla /\ e[2] <= Len(vla[e[1]]) /\ vla[e[1]][e[2]] = t
      BY <1>3 DEF Entries
    <3>2. Len(vla[e[1]]) \in Nat /\ MaxVla \in Nat
      BY <1>3, <3>1, BoundsAssumption, SMTT(20) DEF TypeOK
    <3>3. e[2] \in 1..Len(vla[e[1]])
      BY <3>1, <3>2, SMTT(20)
    <3>4. e[2] \in NonNull(e[1])
      BY <1>3, <2>1, <3>1, <3>3 DEF NonNull
    <3> QED
      BY <2>2, <3>1, <3>4
  <2>5. Respawning(t) = {}
    <3> SUFFICES ASSUME NEW u \in Respawning(t) PROVE FALSE
      OBVIOUS
    <3>1. u \in Tasks /\ m_is_respawning[u]
      BY <1>3 DEF Respawning
    <3>2. Home(u)
      BY <3>1 DEF IInv, Known, Homes, Settled
    <3> QED
      BY <1>2, <1>3, <3>1, <3>2 DEF Home
  <2>6. Releasing(t) = {} /\ Completing(t) = {}
    BY <1>2 DEF Releasing, Releases, Completing
  <2>7. Own(t) = 0
    BY <1>2, <2>1, <2>6 DEF Own
  <2>8. Cardinality({}) = 0
    BY EmptySet
  <2>9. /\ Cardinality(Futures(t)) = 0 /\ Cardinality(Entries(t)) = 0
        /\ Cardinality(Respawning(t)) = 0 /\ Cardinality(Releasing(t)) = 0
    BY <2>3, <2>4, <2>5, <2>6, <2>8
  <2>10. RefSum(t) = 0
    BY <2>7, <2>9, SMTT(20) DEF RefSum
  <2> QED
    BY <2>1, <2>10, SMTT(20) DEF IInv, Refs
<1> QED
  BY <1>1, <1>2, <1>4

(* The invariant's reference counts are the ones of RefCountIsExact. *)
LEMMA RefCountInv ==
    ASSUME IInv
    PROVE  RefCountIsExact
<1> SUFFICES ASSUME NEW t \in Created
             PROVE  /\ m_ref_count[t] = Cardinality(Futures(t)) + Cardinality(Entries(t))
                                       + Cardinality(Respawning(t)) + Cardinality(Releasing(t))
                                       + (IF ~consumed[t] \/ Completing(t) # {} THEN 1 ELSE 0)
                    /\ t \in live <=> m_ref_count[t] > 0
  BY DEF RefCountIsExact
<1>1. t \in Tasks /\ t <= allocated
  BY Basics DEF IInv
<1>2. Own(t) = IF ~consumed[t] \/ Completing(t) # {} THEN 1 ELSE 0
  BY <1>1 DEF Own
<1> QED
  BY <1>1, <1>2 DEF IInv, Refs, RefSum

(* A task in a ready queue, and a complete aggregate, have nowhere left to *)
(* wait.                                                                   *)
LEMMA ReadyInv ==
    ASSUME IInv
    PROVE  ReadyAfterPredecessors
<1>1. TypeOK /\ Spots /\ (\A t \in Tasks : t # Null)
  BY Basics DEF IInv
<1>2. ASSUME NEW t \in Tasks, NEW p \in after[t], ~consumed[p]
      PROVE  p \in Tasks /\ (p = m_predecessor[t] \/ SeqHas(vla[t], p) \/ InWait(p, t))
  BY <1>1, <1>2 DEF IInv, AfterInv, TypeOK
<1>3. ASSUME NEW t \in Tasks, \A x \in FramePlaces : ~InFrame(x, t)
      PROVE  m_predecessor[t] = Null
  <2>1. ~Home(t)
    BY <1>3 DEF Home, InFrame, HoldsTask
  <2> QED
    BY <2>1 DEF IInv, Known, Homes, Settled
<1>4. ASSUME NEW q \in Queues, NEW i \in 1..Len(m_ready_queues[q]), NEW p \in after[m_ready_queues[q][i]]
      PROVE  consumed[p]
  <2> SUFFICES ASSUME ~consumed[p] PROVE FALSE
    OBVIOUS
  <2>1. PICK t : t = m_ready_queues[q][i]
    OBVIOUS
  <2>2. t \in Tasks /\ InReady(q, t) /\ p \in after[t]
    BY <1>1, <2>1, SMTT(20) DEF TypeOK, InReady, SeqHas
  <2>3. p \in Tasks /\ (p = m_predecessor[t] \/ SeqHas(vla[t], p) \/ InWait(p, t))
    BY <1>2, <2>2
  <2>4. Alone(t)
    BY <1>1, <2>2 DEF Spots
  <2>5. m_predecessor[t] = Null
    BY <1>3, <2>2, <2>4 DEF Alone
  <2>6. vla[t] = << >>
    BY <2>2, SMTT(20) DEF IInv, Known, ReadyRunnable, Kinds
  <2>7. ~SeqHas(vla[t], p)
    BY <2>6, SMTT(20) DEF SeqHas
  <2> QED
    BY <1>1, <2>2, <2>3, <2>4, <2>5, <2>7 DEF Alone
<1>5. ASSUME NEW g \in Created, task_type[g] = "aggregate", consumed[g], NEW p \in after[g]
      PROVE  consumed[p]
  <2> SUFFICES ASSUME ~consumed[p] PROVE FALSE
    OBVIOUS
  <2>1. g \in Tasks
    BY <1>1, Basics
  <2>2. p \in Tasks /\ (p = m_predecessor[g] \/ SeqHas(vla[g], p) \/ InWait(p, g))
    BY <1>2, <2>1
  <2>3. Alone(g) /\ ~Active(g)
    BY <1>1, <1>5, <2>1 DEF Spots, Active
  <2>4. m_predecessor[g] = Null /\ ~InWait(p, g)
    BY <1>3, <2>1, <2>2, <2>3 DEF Alone
  <2>5. NonNull(g) = {}
    BY <1>5, <2>1 DEF IInv, Known, Kinds
  <2>6. ~SeqHas(vla[g], p)
    BY <1>1, <2>2, <2>5 DEF NonNull, SeqHas
  <2> QED
    BY <1>1, <2>2, <2>4, <2>6
<1> QED
  BY <1>4, <1>5 DEF ReadyAfterPredecessors

(* What a frame is going to read or write is allocated. *)
LEMMA TouchesLive ==
    ASSUME IInv, NEW x \in FramePlaces, NEW t \in Touches(FrameAt(x)), t # Null
    PROVE  t \in live
<1>1. PICK f : f = FrameAt(x)
  OBVIOUS
<1>2. /\ TypeOK /\ f \in FrameState /\ FrameOK(x[1], x[2], f) /\ FrameKnows(x[1], x[2], f)
      /\ \A u \in Owners : u # Null => u \in Tasks
  <2>1. TypeOK
    BY DEF IInv
  <2>2. f \in FrameState
    BY <1>1, <2>1, PlaceFacts DEF TypeOK
  <2> QED
    BY <1>1, <2>1, <2>2 DEF IInv, Shape, Known, FramesKnow, Owners, Null, HostCode
<1>3. ASSUME NEW u \in Tasks, HoldsTask(f, u) PROVE u \in live
  <2>1. InFrame(x, u)
    BY <1>1, <1>3 DEF InFrame
  <2> QED
    BY <2>1, PlacedIsLive
<1>4. ASSUME NEW u \in Tasks, Releases(f, u) PROVE u \in live
  <2>1. x \in Releasing(u)
    BY <1>1, <1>4 DEF Releasing
  <2> QED
    BY <2>1, Referenced
<1>5. f.task \in Owners /\ f.pred \in Owners /\ f.at \in Ats
  BY <1>2 DEF FrameState
<1>6. CASE f.at = "schedule"
  <2>1. t = f.task \/ t = m_predecessor[f.task]
    BY <1>1, <1>6 DEF Touches
  <2>2. t = f.task => t \in live
    BY <1>2, <1>3, <1>5, <1>6 DEF HoldsTask
  <2> QED
    BY <1>1, <1>6, <2>1, <2>2, PredecessorIsLive
<1>7. CASE f.at = "info"
  <2>1. t = f.task \/ t = f.pred
    BY <1>1, <1>7 DEF Touches
  <2>2. t = f.task => t \in live
    BY <1>2, <1>3, <1>5, <1>7 DEF HoldsTask
  <2>3. CASE t = f.pred /\ f.next = "unref"
    BY <1>2, <1>4, <1>5, <1>7, <2>3 DEF Releases
  <2>4. CASE t = f.pred /\ f.next = "schedule"
    <3>1. Kept(x[1], x[2], t) /\ t \in Tasks
      BY <1>2, <1>5, <1>7, <2>4 DEF FrameKnows
    <3> QED
      BY <3>1, KeptIsLive
  <2>5. f.next \in {"unref", "schedule"}
    BY <1>2, <1>7 DEF FrameOK
  <2> QED
    BY <2>1, <2>2, <2>3, <2>4, <2>5
<1>8. CASE f.at \in {"unref", "aggregate_unref"}
  <2>1. t = f.pred \/ (f.next # "return" /\ t = f.task)
    BY <1>1, <1>8 DEF Touches
  <2>2. t = f.pred => t \in live
    BY <1>2, <1>4, <1>5, <1>8 DEF Releases
  <2>3. f.next # "return" /\ t = f.task => t \in live
    BY <1>2, <1>3, <1>5, <1>8 DEF HoldsTask
  <2> QED
    BY <2>1, <2>2, <2>3
<1>9. CASE f.at = "aggregate"
  <2>1. t = f.task \/ \E i \in 1..Len(vla[f.task]) : t = vla[f.task][i]
    BY <1>1, <1>9 DEF Touches
  <2>2. t = f.task => t \in live
    BY <1>2, <1>3, <1>5, <1>9 DEF HoldsTask
  <2>3. f.task \in Tasks
    <3>1. f.task # HostCode
      BY <1>2, <1>9 DEF FrameOK
    <3> QED
      BY <1>5, <3>1 DEF Owners
  <2>4. ASSUME NEW i \in 1..Len(vla[f.task]), t = vla[f.task][i] PROVE t \in live
    <3>1. i \in NonNull(f.task)
      BY <2>4 DEF NonNull
    <3> QED
      BY <2>3, <2>4, <3>1, EntryIsLive
  <2> QED
    BY <2>1, <2>2, <2>4
<1>10. CASE f.at = "visit"
  <2>1. t = f.task \/ \E i \in 1..Len(f.rest) : t = f.rest[i]
    BY <1>1, <1>10 DEF Touches
  <2>2. CASE t = f.task
    <3>1. t \in Tasks /\ x \in Completing(t)
      BY <1>1, <1>2, <1>5, <1>10, <2>2 DEF Completing
    <3>2. Own(t) = 1
      BY <3>1, ActiveIsOwned
    <3> QED
      BY <3>1, <3>2, Referenced
  <2>3. ASSUME NEW i \in 1..Len(f.rest), t = f.rest[i] PROVE t \in live
    <3>1. t \in Tasks
      <4>1. f.rest \in Seq(Tasks)
        BY <1>2 DEF FrameState
      <4> QED
        BY <2>3, <4>1, SMTT(20)
    <3>2. HoldsTask(f, t)
      BY <1>10, <2>3 DEF HoldsTask
    <3> QED
      BY <1>3, <3>1, <3>2
  <2> QED
    BY <2>1, <2>2, <2>3
<1>11. CASE f.at \in {"user", "destroy", "complete", "push"}
  <2>1. t = f.task
    BY <1>1, <1>11 DEF Touches
  <2> QED
    BY <1>2, <1>3, <1>5, <1>11, <2>1 DEF HoldsTask
<1>12. f.at # "ready_dec"
  BY <1>1 DEF Touches
<1> QED
  BY <1>5, <1>6, <1>7, <1>8, <1>9, <1>10, <1>11, <1>12 DEF Ats

(* Nor do queues and functors hold what is not allocated. *)
LEMMA NoUseInv ==
    ASSUME IInv
    PROVE  NoUseAfterFree
<1>1. TypeOK
  BY DEF IInv
<1>2. \A f \in Frames : Touches(f) \ {Null} \subseteq live
  <2> SUFFICES ASSUME NEW f \in Frames, NEW t \in Touches(f), t # Null PROVE t \in live
    OBVIOUS
  <2>1. PICK a \in Actors : \E i \in 1..Len(stack[a]) : f = stack[a][i]
    BY DEF Frames
  <2>2. PICK i \in 1..Len(stack[a]) : f = stack[a][i]
    BY <2>1
  <2>3. <<a, i>> \in FramePlaces /\ FrameAt(<<a, i>>) = f
    BY <1>1, <2>2, PlaceFacts DEF TypeOK
  <2> QED
    BY <2>3, TouchesLive
<1>3. \A q \in Queues : \A i \in 1..Len(m_ready_queues[q]) : m_ready_queues[q][i] \in live
  <2> SUFFICES ASSUME NEW q \in Queues, NEW i \in 1..Len(m_ready_queues[q]) PROVE m_ready_queues[q][i] \in live
    OBVIOUS
  <2>1. m_ready_queues[q][i] \in Tasks /\ InReady(q, m_ready_queues[q][i])
    BY <1>1, SMTT(20) DEF TypeOK, InReady, SeqHas
  <2> QED
    BY <2>1, PlacedIsLive
<1>4. \A t \in live : \A i \in 1..Len(m_wait_queue[t]) : m_wait_queue[t][i] \in live
  <2> SUFFICES ASSUME NEW t \in Tasks, NEW i \in 1..Len(m_wait_queue[t]) PROVE m_wait_queue[t][i] \in live
    BY <1>1 DEF TypeOK
  <2>1. m_wait_queue[t][i] \in Tasks /\ InWait(t, m_wait_queue[t][i])
    BY <1>1, SMTT(20) DEF TypeOK, InWait, SeqHas
  <2> QED
    BY <2>1, PlacedIsLive
<1>5. \A o \in Owners : holds[o] \subseteq live
  <2>1. \A o \in Owners : holds[o] \subseteq Tasks
    BY <1>1 DEF TypeOK
  <2> QED
    BY <2>1, PlacedIsLive
<1> QED
  BY <1>2, <1>3, <1>4, <1>5 DEF NoUseAfterFree

-----------------------------------------------------------------------------
(* How the parts of the invariant are preserved *)

(* A step of a thread leaves all frames but its top one alone. *)
StepOf(a) ==
    /\ stack' \in [Actors -> Seq(FrameState)]
    /\ \A b \in Actors : b # a => stack'[b] = stack[b]
    /\ \A x \in FramePlaces : x # <<a, Depth(a)>> => x \in FramePlaces' /\ FrameAt(x)' = FrameAt(x)
    /\ \A x \in FramePlaces' : x \in FramePlaces \/ x = <<a, Depth(a) + 1>>

(* Frames keep their shape while types stay and tasks only become complete. *)
LEMMA ShapeStep ==
    ASSUME IInv, stack'[Main] # << >>, allocated' \in Nat, allocated <= allocated',
           \A t \in Tasks : t <= allocated =>
               task_type'[t] = task_type[t] /\ (consumed[t] => consumed'[t]),
           \A x \in FramePlaces' : \/ x \in FramePlaces /\ FrameAt(x)' = FrameAt(x)
                                   \/ FrameOK(x[1], x[2], FrameAt(x))'
    PROVE  Shape'
<1> SUFFICES ASSUME NEW x \in FramePlaces', x \in FramePlaces, FrameAt(x)' = FrameAt(x)
             PROVE  FrameOK(x[1], x[2], FrameAt(x))'
  BY DEF Shape
<1>1. FrameOK(x[1], x[2], FrameAt(x))
  BY DEF IInv, Shape
<1>2. PICK f : f = FrameAt(x)
  OBVIOUS
<1>3. f.task \in 0..allocated /\ f.pred \in 0..allocated /\ allocated \in 0..MaxTasks /\ MaxTasks \in Nat
  BY <1>1, <1>2, CountsAssumption DEF FrameOK, IInv, TypeOK
<1>4. f.task \in 0..allocated' /\ f.pred \in 0..allocated'
  BY <1>3, SMTT(20)
<1>5. f.task # HostCode => f.task \in Tasks /\ f.task <= allocated
  BY <1>3, SMTT(20) DEF Tasks, HostCode
<1>6. f.task # HostCode => task_type'[f.task] = task_type[f.task] /\ (consumed[f.task] => consumed'[f.task])
  BY <1>5
<1>7. FrameOK(x[1], x[2], f)
  BY <1>1, <1>2
<1>8. FrameAt(x)' = f
  BY <1>2
<1>9. f.at = "visit" => f.task # HostCode
  BY <1>7 DEF FrameOK
<1> QED
  BY <1>4, <1>6, <1>7, <1>8, <1>9 DEF FrameOK

(* The frame below a frame that is not the top one. *)
LEMMA BelowStep ==
    ASSUME IInv, NEW a \in Actors, StepOf(a), NEW b \in Actors, Len(stack[b]) > 0, b = a => Depth(a) > 1
    PROVE  /\ <<b, 1>> \in FramePlaces /\ FrameAt(<<b, 1>>) = stack[b][1]
           /\ <<b, 1>> # <<a, Depth(a)>>
           /\ stack'[b][1] = stack[b][1]
<1>1. stack \in [Actors -> Seq(FrameState)] /\ Len(stack[b]) \in Nat /\ Depth(a) \in Nat
  BY SMTT(20) DEF IInv, TypeOK, StepOf, Depth
<1>2. 1 \in 1..Len(stack[b])
  BY <1>1, SMTT(20)
<1>3. PICK y : y = <<b, 1>>
  OBVIOUS
<1>4. y \in FramePlaces /\ FrameAt(y) = stack[b][1]
  BY <1>1, <1>2, <1>3, PlaceFacts
<1>5. y # <<a, Depth(a)>>
  BY <1>1, <1>3, SMTT(20)
<1>6. FrameAt(y)' = FrameAt(y)
  BY <1>4, <1>5 DEF StepOf
<1>7. stack'[b][1] = stack[b][1]
  BY <1>3, <1>4, <1>6 DEF FrameAt
<1> QED
  BY <1>3, <1>4, <1>5, <1>7

(* The functor's frame below a function it called is still there. *)
LEMMA KeptStep ==
    ASSUME IInv, NEW a \in Actors, StepOf(a), NEW x \in FramePlaces, x # <<a, Depth(a)>>, x[2] = 2
    PROVE  /\ <<x[1], 1>> \in FramePlaces /\ FrameAt(<<x[1], 1>>) = stack[x[1]][1]
           /\ <<x[1], 1>> # <<a, Depth(a)>>
           /\ stack'[x[1]][1] = stack[x[1]][1]
<1>1. PICK b : b = x[1]
  OBVIOUS
<1>2. /\ b \in Actors /\ x[2] \in 1..Len(stack[b]) /\ x = <<b, x[2]>>
      /\ Len(stack[b]) \in Nat /\ Len(stack[a]) \in Nat
  BY <1>1, PlaceFacts DEF IInv, TypeOK
<1>3. Len(stack[b]) > 0
  BY <1>2, SMTT(20)
<1>4. b = a => Depth(a) > 1
  BY <1>2, SMTT(20) DEF Depth
<1> QED
  BY <1>1, <1>2, <1>3, <1>4, BelowStep

(* What frames know of their tasks, where only frames change. *)
LEMMA KnowSame ==
    ASSUME IInv, NEW a \in Actors, StepOf(a),
           UNCHANGED <<m_predecessor, m_is_respawning, holds>>,
           \A x \in FramePlaces' : \/ x \in FramePlaces /\ x # <<a, Depth(a)>>
                                   \/ FrameKnows(x[1], x[2], FrameAt(x))'
    PROVE  FramesKnow'
<1> SUFFICES ASSUME NEW x \in FramePlaces', x \in FramePlaces, x # <<a, Depth(a)>>
             PROVE  FrameKnows(x[1], x[2], FrameAt(x))'
  BY DEF FramesKnow
<1>1. FrameKnows(x[1], x[2], FrameAt(x))
  BY DEF IInv, Known, FramesKnow
<1>2. FrameAt(x)' = FrameAt(x)
  BY DEF StepOf
<1>3. x[2] = 2 => stack'[x[1]][1] = stack[x[1]][1]
  BY KeptStep
<1> QED
  BY <1>1, <1>2, <1>3 DEF FrameKnows, Kept

(* No two frames work on the same task, so a step on one leaves the        *)
(* other's alone.                                                          *)
LEMMA OtherTask ==
    ASSUME IInv, NEW a \in Actors, stack[a] # << >>,
           Top(a).at \in {"schedule", "user", "destroy"},
           NEW x \in FramePlaces, x # <<a, Depth(a)>>,
           FrameAt(x).at \in {"schedule", "user", "destroy", "complete"}
    PROVE  FrameAt(x).task # Top(a).task /\ FrameAt(x).task \in 0..allocated
<1> DEFINE t == FrameAt(x).task
<1>1. /\ <<a, Depth(a)>> \in FramePlaces /\ FrameAt(<<a, Depth(a)>>) = Top(a)
      /\ FrameOK(a, Depth(a), Top(a)) /\ Top(a) \in FrameState
      /\ \A u \in Tasks : InFrame(<<a, Depth(a)>>, u) <=> HoldsTask(Top(a), u)
  BY TopFacts
<1>2. FrameOK(x[1], x[2], FrameAt(x)) /\ x = <<x[1], x[2]>> /\ FrameAt(x) \in FrameState
  BY PlaceFacts DEF IInv, Shape, TypeOK
<1>3. t \in 0..allocated
  BY <1>2 DEF FrameOK
<1>4. CASE t \in Tasks
  <2>1. InFrame(x, t)
    BY DEF InFrame, HoldsTask
  <2>2. ~InFrame(<<a, Depth(a)>>, t)
    BY <1>1, <1>4, <2>1 DEF IInv, Spots, Alone
  <2> QED
    BY <1>1, <1>3, <1>4, <2>2 DEF HoldsTask
<1>5. CASE t \notin Tasks
  <2>1. t = HostCode
    BY <1>2, <1>5 DEF FrameState, Owners
  <2>2. x = <<Main, 1>>
    BY <1>2, <2>1 DEF FrameOK
  <2>3. ~(a = Main /\ Depth(a) = 1)
    BY <2>2
  <2>4. Top(a).task # HostCode
    BY <1>1, <2>3 DEF FrameOK
  <2> QED
    BY <1>3, <2>1, <2>4
<1> QED
  BY <1>4, <1>5

(* What frames know of their tasks, where the top frame's task changes. *)
LEMMA KnowTop ==
    ASSUME IInv, NEW a \in Actors, stack[a] # << >>, StepOf(a),
           Top(a).at \in {"schedule", "user", "destroy"},
           Top(a).at = "schedule" => UNCHANGED holds,
           \A t \in Tasks : t <= allocated /\ t # Top(a).task =>
               m_predecessor'[t] = m_predecessor[t] /\ m_is_respawning'[t] = m_is_respawning[t],
           \A o \in Owners : o <= allocated /\ o # Top(a).task => holds'[o] = holds[o],
           \A x \in FramePlaces' : \/ x \in FramePlaces /\ x # <<a, Depth(a)>>
                                   \/ FrameKnows(x[1], x[2], FrameAt(x))'
    PROVE  FramesKnow'
<1> SUFFICES ASSUME NEW x \in FramePlaces', x \in FramePlaces, x # <<a, Depth(a)>>
             PROVE  FrameKnows(x[1], x[2], FrameAt(x))'
  BY DEF FramesKnow
<1>0. allocated \in Nat /\ TypeOK
  BY SMTT(20) DEF IInv, TypeOK
<1>1. PICK f : f = FrameAt(x)
  OBVIOUS
<1>2. FrameKnows(x[1], x[2], f) /\ FrameOK(x[1], x[2], f)
  BY <1>1 DEF IInv, Known, FramesKnow, Shape
<1>3. FrameAt(x)' = f
  BY <1>1 DEF StepOf
<1>4. /\ x[1] \in Actors /\ x[2] \in 1..Len(stack[x[1]]) /\ x = <<x[1], x[2]>>
      /\ f \in FrameState
  BY <1>0, <1>1, PlaceFacts, Basics
<1>5. f.at \in {"schedule", "user", "destroy", "complete"} =>
        /\ f.task # Top(a).task /\ f.task \in 0..allocated
        /\ f.task # HostCode => /\ f.task \in Tasks
                                /\ m_predecessor'[f.task] = m_predecessor[f.task]
                                /\ m_is_respawning'[f.task] = m_is_respawning[f.task]
        /\ holds'[f.task] = holds[f.task]
  <2> SUFFICES ASSUME f.at \in {"schedule", "user", "destroy", "complete"}
               PROVE  /\ f.task # Top(a).task /\ f.task \in 0..allocated
                      /\ f.task # HostCode => f.task \in Tasks
                      /\ f.task \in Owners /\ f.task <= allocated
    BY <1>0
  <2>1. f.task # Top(a).task /\ f.task \in 0..allocated
    BY <1>1, OtherTask
  <2>2. f.task \in Owners
    BY <1>4 DEF FrameState
  <2> QED
    BY <1>0, <2>1, <2>2, SMTT(20) DEF Owners
<1>6. \A p : Kept(x[1], x[2], p) => Kept(x[1], x[2], p)'
  <2> SUFFICES ASSUME x[2] = 2, stack[x[1]][1].at = "user"
               PROVE  /\ stack'[x[1]][1] = stack[x[1]][1]
                      /\ holds'[stack[x[1]][1].task] = holds[stack[x[1]][1].task]
    BY DEF Kept
  <2>1. PICK y : y = <<x[1], 1>>
    OBVIOUS
  <2>2. /\ y \in FramePlaces /\ FrameAt(y) = stack[x[1]][1] /\ y # <<a, Depth(a)>>
        /\ stack'[x[1]][1] = stack[x[1]][1]
    BY <2>1, KeptStep
  <2>3. FrameAt(y).task # Top(a).task /\ FrameAt(y).task \in 0..allocated
    BY <2>2, OtherTask
  <2>4. FrameAt(y).task \in Owners
    BY <1>0, <2>2, PlaceFacts, Basics DEF FrameState
  <2>5. holds'[FrameAt(y).task] = holds[FrameAt(y).task]
    BY <1>0, <2>3, <2>4, SMTT(20)
  <2> QED
    BY <2>2, <2>5
<1>7. f.at = "info" \/ f.at = "schedule" => f.task # HostCode
  BY <1>2 DEF FrameOK
<1>8. f.at = "complete" => f.task # HostCode
  BY <1>2 DEF FrameOK
<1>9. FrameKnows(x[1], x[2], f)'
  BY <1>2, <1>5, <1>6, <1>7, <1>8 DEF FrameKnows
<1> QED
  BY <1>3, <1>9 DEF FrameKnows

(* A predecessor or a respawn flag is set only while some frame has the    *)
(* task.                                                                   *)
LEMMA HomesStep ==
    ASSUME IInv, NEW a \in Actors, stack[a] # << >>, StepOf(a),
           \A t \in Tasks : Settled(t) => Settled(t)' \/ Home(t)',
           Top(a).at \in {"user", "complete", "schedule"} =>
               \A t \in Tasks : t = Top(a).task => Settled(t)' \/ Home(t)'
    PROVE  Homes'
<1> SUFFICES ASSUME NEW t \in Tasks, ~Settled(t), ~Settled(t)'
             PROVE  Home(t)'
  BY DEF Homes
<1>1. PICK x \in FramePlaces : FrameAt(x).task = t /\ FrameAt(x).at \in {"user", "complete", "schedule"}
  BY DEF IInv, Known, Homes, Home
<1>2. CASE x = <<a, Depth(a)>>
  BY <1>1, <1>2, TopFacts
<1>3. CASE x # <<a, Depth(a)>>
  BY <1>1, <1>3 DEF StepOf, Home
<1> QED
  BY <1>2, <1>3

(* Tasks only come to wait for what they held, preceded or listed before. *)
LEMMA RankStep ==
    ASSUME IInv,
           \A o \in Owners : holds'[o] \subseteq holds[o],
           \A t \in Tasks : m_predecessor'[t] \in holds[t] \cup {m_predecessor[t], Null},
           \A t \in Tasks : \A i \in NonNull(t)' : i \in NonNull(t) /\ vla'[t][i] = vla[t][i],
           \A p, t \in Tasks : InWait(p, t)' =>
               InWait(p, t) \/ p = m_predecessor[t] \/ \E i \in NonNull(t) : vla[t][i] = p
    PROVE  Rank'
<1>1. PICK rank \in Ranks :
         /\ \A o \in Owners : \A t \in holds[o] : rank[t] < rank[o]
         /\ \A t \in Tasks : m_predecessor[t] # Null => rank[m_predecessor[t]] < rank[t]
         /\ \A t \in Tasks : \A i \in NonNull(t) : rank[vla[t][i]] < rank[t]
         /\ \A p, t \in Tasks : InWait(p, t) => rank[p] < rank[t]
  BY DEF IInv, Rank
<1>2. \A t \in Tasks : t \in Owners /\ t # Null
  BY Basics DEF IInv, Owners
<1>3. \A o \in Owners : \A t \in holds'[o] : rank[t] < rank[o]
  BY <1>1
<1>4. \A t \in Tasks : m_predecessor'[t] # Null => rank[m_predecessor'[t]] < rank[t]
  BY <1>1, <1>2
<1>5. \A t \in Tasks : \A i \in NonNull(t)' : rank[vla'[t][i]] < rank[t]
  BY <1>1
<1>6. \A p, t \in Tasks : InWait(p, t)' => rank[p] < rank[t]
  BY <1>1, <1>2, SMTT(20)
<1>7. Ranks' = Ranks
  BY DEF Ranks
<1> QED
  BY <1>1, <1>3, <1>4, <1>5, <1>6 DEF Rank, Ranks

(* A thread in the queue's code is at work, so nobody has seen the end. *)
LEMMA ExecStep ==
    ASSUME IInv, NEW a \in Actors, stack[a] # << >>, Top(a).at # "user",
           \A b \in Actors : b # a => stack'[b] = stack[b],
           UNCHANGED execVars, holds'[HostCode] = holds[HostCode]
    PROVE  Exec'
<1>1. /\ TypeOK /\ Exec /\ Count /\ Shape
      /\ stack \in [Actors -> Seq(FrameState)]
  BY DEF IInv, TypeOK
<1>2. a = Main => Depth(a) # 1
  <2>1. FrameOK(a, Depth(a), Top(a))
    BY TopFacts
  <2> QED
    BY <2>1 DEF FrameOK
<1>3. a # Main => m_ready_count # 0
  <2> SUFFICES ASSUME a # Main PROVE m_ready_count # 0
    OBVIOUS
  <2>1. a \in Busy
    BY ActorsAssumption DEF Busy
  <2>2. IsFiniteSet(Busy) /\ IsFiniteSet(ReadyTasks) /\ IsFiniteSet(Pushing)
    <3>1. Busy \in SUBSET Workers /\ ReadyTasks \in SUBSET Tasks /\ Pushing \in SUBSET FramePlaces
      BY DEF Busy, ReadyTasks, Pushing
    <3>2. IsFiniteSet(Workers) /\ IsFiniteSet(Tasks) /\ IsFiniteSet(FramePlaces)
      BY <1>1, PoolAssumption, PlacesFinite, CountsAssumption, IntervalIsFinite DEF Tasks
    <3> QED
      BY <3>1, <3>2, SubsetIsFinite
  <2>3. /\ Cardinality(Busy) \in Nat /\ Cardinality(ReadyTasks) \in Nat /\ Cardinality(Pushing) \in Nat
        /\ Cardinality(Busy) # 0
    BY <2>1, <2>2, CardinalityIsNat, EmptySet
  <2> QED
    BY <1>1, <2>3, SMTT(20) DEF Count
<1>4. /\ ~(phase = "execute" /\ \E w \in Workers : where[w] = Out)
      /\ ~(phase # "execute" /\ waits = MaxWaits)
  BY <1>1, <1>2, <1>3 DEF Exec, Depth
<1>5. phase = "execute" => a # Main
  BY <1>1, <1>2 DEF Exec, Depth
<1>6. \A w \in Workers : where[w] # AtLoop => w # a
  BY <1>1 DEF Exec
<1>7. \A w \in Workers : where'[w] # AtLoop => stack'[w] = << >>
  BY <1>1, <1>6, ActorsAssumption DEF Exec, execVars
<1>8. phase' = "execute" => Len(stack'[Main]) = 1
  BY <1>1, <1>5, ActorsAssumption DEF Exec, execVars
<1> QED
  BY <1>1, <1>4, <1>7, <1>8 DEF Exec, execVars

(* User code runs in its phase, and the host creates nothing after its     *)
(* last wait().                                                            *)
LEMMA ExecUser ==
    ASSUME IInv, NEW a \in Actors, Running(a),
           \A b \in Actors : b # a => stack'[b] = stack[b],
           UNCHANGED execVars, UNCHANGED m_ready_count,
           a # Main => holds'[HostCode] = holds[HostCode],
           a = Main => waits < MaxWaits \/ UNCHANGED stack
    PROVE  Exec'
<1>1. /\ Exec /\ waits \in Nat /\ MaxWaits \in Nat
  BY BoundsAssumption, SMTT(20) DEF IInv, TypeOK
<1>2. \A w \in Workers : where[w] # AtLoop => w # a
  BY <1>1 DEF Exec, Running, At
<1>3. \A w \in Workers : where'[w] # AtLoop => stack'[w] = << >>
  BY <1>1, <1>2, ActorsAssumption DEF Exec, execVars
<1>4. phase' = "execute" => Len(stack'[Main]) = 1
  BY <1>1, ActorsAssumption DEF Exec, execVars, Running
<1>5. phase' # "execute" /\ waits' = MaxWaits => m_ready_count' = 0 /\ Len(stack'[Main]) = 1
  BY <1>1, ActorsAssumption, SMTT(20) DEF Exec, execVars
<1>6. phase' = "end" => holds'[HostCode] = {} /\ waits' = MaxWaits
  BY <1>1 DEF Exec, execVars, Running
<1> QED
  BY <1>1, <1>3, <1>4, <1>5, <1>6 DEF Exec, execVars

(* The reference counts stay exact where nothing changes. *)
LEMMA RefsSame ==
    ASSUME IInv, UNCHANGED <<m_ref_count, live>>,
           \A t \in Tasks : RefSum(t)' = RefSum(t),
           \A t \in Tasks : \A x, y \in Completing(t)' : x = y
    PROVE  Refs'
BY DEF IInv, Refs

(* The reference counts stay exact when one reference is given up. *)
LEMMA RefsRelease ==
    ASSUME IInv, NEW p \in Tasks, Release(p),
           \A t \in Tasks : t # p => RefSum(t)' = RefSum(t),
           \A t \in Tasks : t = p => RefSum(t)' = RefSum(t) - 1,
           \A t \in Tasks : \A x, y \in Completing(t)' : x = y
    PROVE  Refs'
<1>1. m_ref_count \in [Tasks -> Nat] /\ \A t \in Tasks : RefSum(t) \in Nat
  BY RefsAreNat DEF IInv, TypeOK
<1>2. \A t \in Tasks : m_ref_count[t] = RefSum(t) /\ (t \in live <=> m_ref_count[t] > 0)
  BY DEF IInv, Refs
<1>3. \A t \in Tasks : m_ref_count'[t] = IF t = p THEN m_ref_count[t] - 1 ELSE m_ref_count[t]
  BY <1>1 DEF Release
<1>4. \A t \in Tasks : m_ref_count'[t] = RefSum(t)'
  BY <1>1, <1>2, <1>3
<1>5. \A t \in Tasks : t \in live' <=> m_ref_count'[t] > 0
  BY <1>1, <1>2, <1>3, SMTT(20) DEF Release
<1> QED
  BY <1>4, <1>5 DEF Refs

(* A reference count that is given up was positive, so it does not wrap. *)
LEMMA ReleaseType ==
    ASSUME IInv, NEW p \in Tasks, Release(p), m_ref_count[p] # 0
    PROVE  m_ref_count' \in [Tasks -> Nat] /\ live' \subseteq Tasks
BY SMTT(20) DEF IInv, TypeOK, Release

-----------------------------------------------------------------------------
(* Frames, and steps that only change frames *)

(* The fields of a new frame. *)
NewFrame(f, at, t) ==
    /\ f \in FrameState /\ f.at = at /\ f.task = t /\ f.pred = Null
    /\ f.rest = << >> /\ f.next = "return"
    /\ Inj(f.rest)

(* Frame(at, t) is a frame with those fields. *)
LEMMA FrameFacts ==
    ASSUME NEW at \in Ats, NEW t \in Owners, NEW f, f = Frame(at, t)
    PROVE  NewFrame(f, at, t)
<1>1. << >> \in Seq(Tasks) /\ Inj(<< >>)
  BY EmptyList
<1> QED
  BY <1>1 DEF Frame, FrameState, Nexts, Owners, Null, HostCode, NewFrame

(* A frame of the queue's code belongs to a task. *)
LEMMA TopTask ==
    ASSUME IInv, NEW a \in Actors, stack[a] # << >>, Top(a).at # "user"
    PROVE  /\ Top(a).task \in Tasks /\ Top(a).task <= allocated
           /\ Top(a).at \in {"info", "unref", "aggregate_unref"} => Top(a).pred \in Tasks
           /\ Top(a).at \in {"schedule", "info", "unref", "push"} =>
                 Depth(a) > 1 /\ task_type[Top(a).task] = "runnable"
           /\ Top(a).at \in {"aggregate", "aggregate_unref"} =>
                 Depth(a) > 1 /\ task_type[Top(a).task] = "aggregate"
           /\ Top(a).at \in {"destroy", "complete", "ready_dec"} =>
                 Depth(a) = 1 /\ a # Main /\ task_type[Top(a).task] = "runnable"
           /\ Top(a).at = "visit" => /\ Depth(a) = 1 => task_type[Top(a).task] = "runnable" /\ a # Main
                                     /\ Depth(a) > 1 => task_type[Top(a).task] = "aggregate"
<1>1. FrameOK(a, Depth(a), Top(a)) /\ Top(a) \in FrameState /\ Depth(a) \in Nat \ {0}
  BY TopFacts
<1>2. allocated \in 0..MaxTasks /\ MaxTasks \in Nat
  BY CountsAssumption DEF IInv, TypeOK
<1>3. Top(a).task \in 0..allocated /\ Top(a).task # HostCode
  BY <1>1 DEF FrameOK
<1>4. Top(a).task \in Tasks /\ Top(a).task <= allocated
  BY <1>2, <1>3, SMTT(20) DEF Tasks, HostCode
<1>5. Top(a).at \in {"info", "unref", "aggregate_unref"} => Top(a).pred \in Tasks
  <2>1. Top(a).pred \in Owners
    BY <1>1 DEF FrameState
  <2> QED
    BY <1>1, <2>1 DEF FrameOK, Owners, Null, HostCode
<1> QED
  BY <1>1, <1>4, <1>5, SMTT(20) DEF FrameOK

(* A task that is not moved stays in its one place. *)
LEMMA AloneSame ==
    ASSUME NEW t \in Tasks, Alone(t),
           \A q \in Queues : InReady(q, t)' <=> InReady(q, t),
           \A p \in Tasks : InWait(p, t)' <=> InWait(p, t),
           \A x : InFrame(x, t)' <=> InFrame(x, t),
           Active(t)' <=> Active(t)
    PROVE  Alone(t)'
<1>1. \A x : InFrame(x, t) => x \in FramePlaces
  BY DEF InFrame
<1>2. \A x : InFrame(x, t)' => x \in FramePlaces'
  BY DEF InFrame
<1> QED
  BY <1>1, <1>2 DEF Alone

(* The lists of waiting tasks that are being visited have no repetition. *)
LEMMA RestsStep ==
    ASSUME IInv, NEW a \in Actors, StepOf(a),
           \A x \in FramePlaces' : \/ x \in FramePlaces /\ x # <<a, Depth(a)>> /\ FrameAt(x)' = FrameAt(x)
                                   \/ Inj(FrameAt(x)'.rest)
    PROVE  \A x \in FramePlaces' : Inj(FrameAt(x)'.rest)
BY DEF IInv, Spots

-----------------------------------------------------------------------------
(* The effects of a step of thread a on the frames, for frame f in the     *)
(* place of the top one, frames f and c in its place, or none.             *)
NewTop(a, f) ==
    /\ StepOf(a) /\ stack'[Main] # << >>
    /\ FramePlaces' = FramePlaces /\ <<a, Depth(a)>> \in FramePlaces
    /\ \A x : x = <<a, Depth(a)>> => FrameAt(x)' = f
    /\ \A x \in FramePlaces' : \/ x \in FramePlaces /\ x # <<a, Depth(a)>> /\ FrameAt(x)' = FrameAt(x)
                               \/ x[1] = a /\ x[2] = Depth(a) /\ FrameAt(x)' = f
    /\ \A x, t : InFrame(x, t)' <=> IF x = <<a, Depth(a)>> THEN HoldsTask(f, t) ELSE InFrame(x, t)
    /\ \A x, t : x \in Releasing(t)' <=> IF x = <<a, Depth(a)>> THEN Releases(f, t)
                                                                ELSE x \in Releasing(t)
    /\ \A x, t : x \in Completing(t)' <=> IF x = <<a, Depth(a)>> THEN f.at = "visit" /\ f.task = t
                                                                 ELSE x \in Completing(t)
    /\ \A x : x \in Pushing' <=> IF x = <<a, Depth(a)>> THEN f.at = "push" ELSE x \in Pushing
    /\ Busy' = Busy

NewTops(a, f, c) ==
    /\ StepOf(a) /\ stack'[Main] # << >>
    /\ <<a, Depth(a)>> \in FramePlaces /\ <<a, Depth(a)>> \in FramePlaces'
    /\ <<a, Depth(a) + 1>> \notin FramePlaces /\ <<a, Depth(a) + 1>> \in FramePlaces'
    /\ \A x : x = <<a, Depth(a)>> => FrameAt(x)' = f
    /\ \A x : x = <<a, Depth(a) + 1>> => FrameAt(x)' = c
    /\ \A x \in FramePlaces' : \/ x \in FramePlaces /\ x # <<a, Depth(a)>> /\ FrameAt(x)' = FrameAt(x)
                               \/ x[1] = a /\ x[2] = Depth(a) /\ FrameAt(x)' = f
                               \/ x[1] = a /\ x[2] = Depth(a) + 1 /\ FrameAt(x)' = c
    /\ \A x, t : InFrame(x, t)' <=> IF x = <<a, Depth(a)>> THEN HoldsTask(f, t)
                                    ELSE IF x = <<a, Depth(a) + 1>> THEN HoldsTask(c, t)
                                    ELSE InFrame(x, t)
    /\ \A x, t : x \in Releasing(t)' <=> IF x = <<a, Depth(a)>> THEN Releases(f, t)
                                         ELSE IF x = <<a, Depth(a) + 1>> THEN Releases(c, t)
                                         ELSE x \in Releasing(t)
    /\ \A x, t : x \in Completing(t)' <=>
           IF x = <<a, Depth(a)>> THEN f.at = "visit" /\ f.task = t
           ELSE IF x = <<a, Depth(a) + 1>> THEN c.at = "visit" /\ c.task = t
           ELSE x \in Completing(t)
    /\ \A x : x \in Pushing' <=> IF x = <<a, Depth(a)>> THEN f.at = "push"
                                 ELSE IF x = <<a, Depth(a) + 1>> THEN c.at = "push"
                                 ELSE x \in Pushing
    /\ Busy' = Busy

Popped(a) ==
    /\ StepOf(a) /\ stack'[Main] # << >>
    /\ \A x \in FramePlaces' : x \in FramePlaces /\ x # <<a, Depth(a)>> /\ FrameAt(x)' = FrameAt(x)
    /\ \A x, t : InFrame(x, t)' <=> x # <<a, Depth(a)>> /\ InFrame(x, t)
    /\ \A x, t : x \in Releasing(t)' <=> x # <<a, Depth(a)>> /\ x \in Releasing(t)
    /\ \A x, t : x \in Completing(t)' <=> x # <<a, Depth(a)>> /\ x \in Completing(t)
    /\ \A x : x \in Pushing' <=> x # <<a, Depth(a)>> /\ x \in Pushing
    /\ Busy' = IF Depth(a) = 1 THEN Busy \ {a} ELSE Busy

(* All a function that goes on does to the frames. *)
LEMMA GotoEffect ==
    ASSUME IInv, NEW a \in Actors, stack[a] # << >>, NEW f \in FrameState, Goto(a, f)
    PROVE  NewTop(a, f)
<1> DEFINE l == Len(stack[a])
<1>1. /\ stack \in [Actors -> Seq(FrameState)] /\ stack[Main] # << >>
      /\ stack[a] \in Seq(FrameState) /\ l \in Nat \ {0}
  BY SMTT(20) DEF IInv, TypeOK, Shape
<1>2. PICK s : s = [stack[a] EXCEPT ![l] = f]
  OBVIOUS
<1>3. s \in Seq(FrameState) /\ Len(s) = l /\ \A d \in 1..l : s[d] = IF d = l THEN f ELSE stack[a][d]
  <2>1. l \in 1..Len(stack[a])
    BY <1>1, SMTT(20)
  <2> QED
    BY <1>1, <1>2, <2>1, ReplaceSeq, SMTT(20)
<1>4. /\ stack' \in [Actors -> Seq(FrameState)] /\ stack'[a] = s
      /\ \A b \in Actors : Len(stack'[b]) = Len(stack[b]) /\ (b # a => stack'[b] = stack[b])
  BY <1>1, <1>2, <1>3 DEF Goto
<1>5. FramePlaces' = FramePlaces
  BY <1>4 DEF FramePlaces
<1>6. PICK y : y = <<a, Depth(a)>>
  OBVIOUS
<1>7. y \in FramePlaces /\ y[1] = a /\ y[2] = Depth(a)
  BY <1>1, <1>6, PlaceFacts, SMTT(20) DEF Depth
<1>8. \A x \in FramePlaces : FrameAt(x)' = IF x = y THEN f ELSE FrameAt(x)
  <2> SUFFICES ASSUME NEW x \in FramePlaces PROVE FrameAt(x)' = IF x = y THEN f ELSE FrameAt(x)
    OBVIOUS
  <2>1. x[1] \in Actors /\ x[2] \in 1..Len(stack[x[1]]) /\ x = <<x[1], x[2]>>
    BY <1>1, PlaceFacts
  <2> QED
    BY <2>1, <1>3, <1>4, <1>6, SMTT(20) DEF FrameAt, Depth
<1>9. StepOf(a) /\ stack'[Main] # << >>
  BY <1>1, <1>4, <1>5, <1>6, <1>8, ActorsAssumption DEF StepOf
<1>10. \A x, t : InFrame(x, t)' <=> IF x = y THEN HoldsTask(f, t) ELSE InFrame(x, t)
  BY <1>5, <1>7, <1>8 DEF InFrame, HoldsTask
<1>11. \A x, t : x \in Releasing(t)' <=> IF x = y THEN Releases(f, t) ELSE x \in Releasing(t)
  BY <1>5, <1>7, <1>8 DEF Releasing, Releases
<1>12. \A x, t : x \in Completing(t)' <=> IF x = y THEN f.at = "visit" /\ f.task = t
                                                   ELSE x \in Completing(t)
  BY <1>5, <1>7, <1>8 DEF Completing
<1>13. \A x : x \in Pushing' <=> IF x = y THEN f.at = "push" ELSE x \in Pushing
  BY <1>5, <1>7, <1>8 DEF Pushing
<1>14. Busy' = Busy
  <2>1. \A w \in Workers : w \in Actors /\ stack[w] \in Seq(FrameState) /\ stack'[w] \in Seq(FrameState)
    BY <1>1, <1>4, ActorsAssumption
  <2>2. \A w \in Workers : stack'[w] = << >> <=> stack[w] = << >>
    BY <1>4, <2>1, SMTT(20)
  <2> QED
    BY <2>2 DEF Busy
<1> QED
  BY <1>5, <1>6, <1>7, <1>8, <1>9, <1>10, <1>11, <1>12, <1>13, <1>14 DEF NewTop

(* All a call does to the frames. *)
LEMMA CallEffect ==
    ASSUME IInv, NEW a \in Actors, stack[a] # << >>, NEW f \in FrameState, NEW c \in FrameState,
           Call(a, c, f)
    PROVE  NewTops(a, f, c)
<1> DEFINE l == Len(stack[a])
<1>1. /\ stack \in [Actors -> Seq(FrameState)] /\ stack[Main] # << >>
      /\ stack[a] \in Seq(FrameState) /\ l \in Nat \ {0}
  BY SMTT(20) DEF IInv, TypeOK, Shape
<1>2. PICK r : r = [stack[a] EXCEPT ![l] = f]
  OBVIOUS
<1>3. r \in Seq(FrameState) /\ Len(r) = l /\ \A d \in 1..l : r[d] = IF d = l THEN f ELSE stack[a][d]
  <2>1. l \in 1..Len(stack[a])
    BY <1>1, SMTT(20)
  <2> QED
    BY <1>1, <1>2, <2>1, ReplaceSeq, SMTT(20)
<1>4. PICK s : s = Append(r, c)
  OBVIOUS
<1>5. /\ s \in Seq(FrameState) /\ Len(s) = l + 1 /\ s[l + 1] = c /\ s # << >>
      /\ \A d \in 1..l : s[d] = r[d]
  BY <1>1, <1>3, <1>4, AppendSeq, SMTT(20)
<1>6. /\ stack' \in [Actors -> Seq(FrameState)] /\ stack'[a] = s
      /\ \A b \in Actors : b # a => stack'[b] = stack[b]
  BY <1>1, <1>2, <1>4, <1>5 DEF Call
<1>7. PICK y, z : y = <<a, Depth(a)>> /\ z = <<a, Depth(a) + 1>>
  OBVIOUS
<1>8. /\ y \in FramePlaces /\ y[1] = a /\ y[2] = Depth(a)
      /\ z \notin FramePlaces /\ z[1] = a /\ z[2] = Depth(a) + 1
  BY <1>1, <1>7, PlaceFacts, SMTT(20) DEF Depth
<1>9. \A x : x \in FramePlaces' <=> x \in FramePlaces \/ x = z
  <2>1. \A b, d : <<b, d>> \in FramePlaces' <=> <<b, d>> \in FramePlaces \/ (b = a /\ d = l + 1)
    BY <1>1, <1>5, <1>6, SMTT(20) DEF FramePlaces
  <2>2. \A x \in FramePlaces' : x = <<x[1], x[2]>>
    BY SMTT(20) DEF FramePlaces
  <2>3. \A x \in FramePlaces : x = <<x[1], x[2]>>
    BY SMTT(20) DEF FramePlaces
  <2> QED
    BY <1>7, <2>1, <2>2, <2>3, SMTT(20) DEF Depth
<1>10. \A x \in FramePlaces : FrameAt(x)' = IF x = y THEN f ELSE FrameAt(x)
  <2> SUFFICES ASSUME NEW x \in FramePlaces PROVE FrameAt(x)' = IF x = y THEN f ELSE FrameAt(x)
    OBVIOUS
  <2>1. x[1] \in Actors /\ x[2] \in 1..Len(stack[x[1]]) /\ x = <<x[1], x[2]>>
    BY <1>1, PlaceFacts
  <2> QED
    BY <2>1, <1>3, <1>5, <1>6, <1>7, SMTT(20) DEF FrameAt, Depth
<1>11. FrameAt(z)' = c
  BY <1>5, <1>6, <1>7 DEF FrameAt, Depth
<1>12. StepOf(a) /\ stack'[Main] # << >>
  BY <1>1, <1>5, <1>6, <1>7, <1>9, <1>10, ActorsAssumption DEF StepOf
<1>13. \A x, t : InFrame(x, t)' <=> IF x = y THEN HoldsTask(f, t)
                                    ELSE IF x = z THEN HoldsTask(c, t) ELSE InFrame(x, t)
  BY <1>8, <1>9, <1>10, <1>11, SMTT(20) DEF InFrame, HoldsTask
<1>14. \A x, t : x \in Releasing(t)' <=> IF x = y THEN Releases(f, t)
                                         ELSE IF x = z THEN Releases(c, t) ELSE x \in Releasing(t)
  BY <1>8, <1>9, <1>10, <1>11 DEF Releasing, Releases
<1>15. \A x, t : x \in Completing(t)' <=> IF x = y THEN f.at = "visit" /\ f.task = t
                                          ELSE IF x = z THEN c.at = "visit" /\ c.task = t
                                          ELSE x \in Completing(t)
  BY <1>8, <1>9, <1>10, <1>11 DEF Completing
<1>16. \A x : x \in Pushing' <=> IF x = y THEN f.at = "push"
                                 ELSE IF x = z THEN c.at = "push" ELSE x \in Pushing
  BY <1>8, <1>9, <1>10, <1>11 DEF Pushing
<1>17. Busy' = Busy
  BY <1>5, <1>6, ActorsAssumption DEF Busy
<1> QED
  BY <1>7, <1>8, <1>9, <1>10, <1>11, <1>12, <1>13, <1>14, <1>15, <1>16, <1>17 DEF NewTops

(* All a return does to the frames. *)
LEMMA ReturnEffect ==
    ASSUME IInv, NEW a \in Actors, stack[a] # << >>, Return(a), Depth(a) > 1 \/ a # Main
    PROVE  Popped(a)
<1> DEFINE l == Len(stack[a])
<1>1. /\ stack \in [Actors -> Seq(FrameState)] /\ stack[Main] # << >>
      /\ stack[a] \in Seq(FrameState) /\ l \in Nat \ {0}
  BY SMTT(20) DEF IInv, TypeOK, Shape
<1>2. PICK s : s = SubSeq(stack[a], 1, l - 1)
  OBVIOUS
<1>3. s \in Seq(FrameState) /\ Len(s) = l - 1 /\ \A d \in 1..(l - 1) : s[d] = stack[a][d]
  <2>1. 1 \in Int /\ l - 1 \in Int /\ \A i \in 1..(l - 1) : stack[a][i] \in FrameState
    BY <1>1, SMTT(20)
  <2>2. PICK m \in Nat : m = l - 1
    BY <1>1, SMTT(20)
  <2>3. /\ SubSeq(stack[a], 1, m) \in Seq(FrameState)
        /\ Len(SubSeq(stack[a], 1, m)) = IF 1 <= m THEN m - 1 + 1 ELSE 0
        /\ \A i \in 1..(m - 1 + 1) : SubSeq(stack[a], 1, m)[i] = stack[a][1 + i - 1]
    BY <1>1, <2>1, <2>2, SMTT(20)
  <2>4. s = SubSeq(stack[a], 1, m)
    BY <1>2, <2>2
  <2>5. s \in Seq(FrameState) /\ Len(s) = m
    BY <2>2, <2>3, <2>4, SMTT(20)
  <2>6. \A i \in 1..m : m - 1 + 1 = m /\ 1 + i - 1 = i
    BY <2>2, SMTT(20)
  <2>7. \A i \in 1..m : s[i] = stack[a][i]
    BY <2>2, <2>3, <2>4, <2>6
  <2> QED
    BY <2>2, <2>5, <2>7
<1>4. /\ stack' \in [Actors -> Seq(FrameState)] /\ stack'[a] = s
      /\ \A b \in Actors : b # a => stack'[b] = stack[b]
  BY <1>1, <1>2, <1>3 DEF Return
<1>5. PICK y : y = <<a, Depth(a)>>
  OBVIOUS
<1>6. \A x : x \in FramePlaces' <=> x \in FramePlaces /\ x # y
  <2>1. \A b, d : <<b, d>> \in FramePlaces' <=> <<b, d>> \in FramePlaces /\ ~(b = a /\ d = l)
    BY <1>1, <1>3, <1>4, SMTT(20) DEF FramePlaces
  <2>2. \A x \in FramePlaces' : x = <<x[1], x[2]>>
    BY SMTT(20) DEF FramePlaces
  <2>3. \A x \in FramePlaces : x = <<x[1], x[2]>>
    BY SMTT(20) DEF FramePlaces
  <2> QED
    BY <1>5, <2>1, <2>2, <2>3, SMTT(20) DEF Depth
<1>7. \A x \in FramePlaces : x # y => FrameAt(x)' = FrameAt(x)
  <2> SUFFICES ASSUME NEW x \in FramePlaces, x # y PROVE FrameAt(x)' = FrameAt(x)
    OBVIOUS
  <2>1. x[1] \in Actors /\ x[2] \in 1..Len(stack[x[1]]) /\ x = <<x[1], x[2]>>
    BY <1>1, PlaceFacts
  <2>2. x[1] = a => x[2] \in 1..(l - 1)
    BY <2>1, <1>1, <1>5, SMTT(20) DEF Depth
  <2> QED
    BY <2>1, <2>2, <1>3, <1>4 DEF FrameAt
<1>8. stack'[a] = << >> <=> Depth(a) = 1
  BY <1>1, <1>3, <1>4, SMTT(20) DEF Depth
<1>9. StepOf(a) /\ stack'[Main] # << >>
  <2>1. StepOf(a)
    BY <1>4, <1>5, <1>6, <1>7 DEF StepOf
  <2>2. a = Main => stack'[Main] # << >>
    BY <1>8, SMTT(20)
  <2>3. a # Main => stack'[Main] # << >>
    BY <1>1, <1>4, ActorsAssumption
  <2> QED
    BY <2>1, <2>2, <2>3
<1>10. \A x, t : InFrame(x, t)' <=> x # y /\ InFrame(x, t)
  BY <1>6, <1>7 DEF InFrame, HoldsTask
<1>11. \A x, t : x \in Releasing(t)' <=> x # y /\ x \in Releasing(t)
  BY <1>6, <1>7 DEF Releasing, Releases
<1>12. \A x, t : x \in Completing(t)' <=> x # y /\ x \in Completing(t)
  BY <1>6, <1>7 DEF Completing
<1>13. \A x : x \in Pushing' <=> x # y /\ x \in Pushing
  BY <1>6, <1>7 DEF Pushing
<1>14. Busy' = IF Depth(a) = 1 THEN Busy \ {a} ELSE Busy
  BY <1>4, <1>8, ActorsAssumption DEF Busy
<1> QED
  BY <1>5, <1>6, <1>7, <1>9, <1>10, <1>11, <1>12, <1>13, <1>14 DEF Popped

(* A step that changes only frames, reference counts and the ready count.  *)
LEMMA QuietStep ==
    ASSUME IInv, NEW a \in Actors, stack[a] # << >>, StepOf(a), stack'[Main] # << >>,
           UNCHANGED <<task_type, m_wait_queue, consumed, m_predecessor, m_is_respawning, vla,
                       m_ready_queues, holds, allocated, after>>,
           \A t \in Tasks : t > allocated => m_ref_count'[t] = m_ref_count[t],
           \A t \in Tasks : Alone(t)',
           \A x \in FramePlaces' : \/ x \in FramePlaces /\ x # <<a, Depth(a)>> /\ FrameAt(x)' = FrameAt(x)
                                   \/ /\ FrameOK(x[1], x[2], FrameAt(x))'
                                      /\ FrameKnows(x[1], x[2], FrameAt(x))'
                                      /\ Inj(FrameAt(x)'.rest),
           Top(a).at \in {"user", "complete", "schedule"} =>
               \A t \in Tasks : t = Top(a).task => Settled(t) \/ Home(t)'
    PROVE  Shape' /\ Spots' /\ Known' /\ AfterInv' /\ Rank'
<1>1. Shape'
  <2>1. allocated \in Nat
    BY SMTT(20) DEF IInv, TypeOK
  <2> QED
    BY <2>1, ShapeStep, SMTT(20)
<1>2. Spots'
  <2>1. \A x \in FramePlaces' : Inj(FrameAt(x)'.rest)
    BY RestsStep
  <2> QED
    BY <2>1 DEF IInv, Spots
<1>3. FramesKnow'
  BY KnowSame
<1>4. Homes'
  BY HomesStep DEF Settled
<1>5. WaitsOnActive' /\ ReadyRunnable'
  BY DEF IInv, Known, WaitsOnActive, ReadyRunnable, InWait, InReady, Active
<1>6. Kinds'
  <2>1. Kinds
    BY DEF IInv, Known
  <2>2. \A t \in Tasks : NonNull(t)' = NonNull(t)
    BY DEF NonNull
  <2> QED
    BY <2>1, <2>2 DEF Kinds
<1>7. AfterInv'
  BY DEF IInv, AfterInv, InWait
<1>8. Rank'
  BY RankStep DEF InWait, NonNull
<1> QED
  BY <1>1, <1>2, <1>3, <1>4, <1>5, <1>6, <1>7, <1>8 DEF Known

-----------------------------------------------------------------------------
(* Parts of the invariant that several actions preserve alike *)

(* Where a task may be told of its predecessors, while it is told nothing  *)
(* new.                                                                    *)
LEMMA AfterStep ==
    ASSUME IInv, UNCHANGED after,
           \A t, p \in Tasks :
               consumed[p] \/ p = m_predecessor[t] \/ SeqHas(vla[t], p) \/ InWait(p, t) =>
               consumed'[p] \/ p = m_predecessor'[t] \/ SeqHas(vla'[t], p) \/ InWait(p, t)'
    PROVE  AfterInv'
<1>1. \A t \in Tasks : after[t] \subseteq Tasks
  BY DEF IInv, TypeOK
<1> QED
  BY <1>1 DEF IInv, AfterInv

(* The ready count where none of the three sets changes. *)
LEMMA CountSame ==
    ASSUME IInv, UNCHANGED <<m_ready_queues, m_ready_count>>, Busy' = Busy,
           \A x : x \in Pushing' <=> x \in Pushing
    PROVE  Count'
<1>1. ReadyTasks' = ReadyTasks
  BY DEF ReadyTasks, InReady
<1>2. Pushing' = Pushing
  OBVIOUS
<1> QED
  BY <1>1, <1>2 DEF IInv, Count

(* The reference counts where only frames change. *)
LEMMA QuietRefs ==
    ASSUME IInv, NEW u \in Tasks,
           UNCHANGED <<holds, vla, allocated, m_predecessor, m_is_respawning, consumed>>
    PROVE  /\ Futures(u)' = Futures(u) /\ Entries(u)' = Entries(u) /\ Respawning(u)' = Respawning(u)
           /\ (\A x : x \in Releasing(u)' <=> x \in Releasing(u)) /\ Own(u)' = Own(u) =>
                 RefSum(u)' = RefSum(u)
           /\ \A y : /\ y \in Releasing(u) /\ Own(u)' = Own(u)
                     /\ \A x : x \in Releasing(u)' <=> x \in Releasing(u) /\ x # y
                     => RefSum(u)' = RefSum(u) - 1
           /\ (\A x : x \in Releasing(u)' <=> x \in Releasing(u)) /\ Own(u) = 1 /\ Own(u)' = 0 =>
                 RefSum(u)' = RefSum(u) - 1
           /\ (\A x : x \in Completing(u)' <=> x \in Completing(u)) => Own(u)' = Own(u)
<1>1. Futures(u)' = Futures(u) /\ Entries(u)' = Entries(u) /\ Respawning(u)' = Respawning(u)
  BY DEF Futures, Entries, Respawning, Created
<1>2. TypeOK
  BY DEF IInv
<1>3. /\ Cardinality(Futures(u)) \in Nat /\ Cardinality(Entries(u)) \in Nat
      /\ Cardinality(Respawning(u)) \in Nat /\ Cardinality(Releasing(u)) \in Nat
      /\ IsFiniteSet(Releasing(u))
  BY <1>2, RefsAreNat, RefsFinite
<1>4. ASSUME \A x : x \in Releasing(u)' <=> x \in Releasing(u) PROVE Releasing(u)' = Releasing(u)
  BY <1>4
<1>5. ASSUME NEW y, y \in Releasing(u), \A x : x \in Releasing(u)' <=> x \in Releasing(u) /\ x # y
      PROVE  Cardinality(Releasing(u)') = Cardinality(Releasing(u)) - 1
  <2>1. Releasing(u)' = Releasing(u) \ {y}
    BY <1>5
  <2> QED
    BY <1>3, <1>5, <2>1, OneLess
<1>6. (\A x : x \in Completing(u)' <=> x \in Completing(u)) => Own(u)' = Own(u)
  <2> SUFFICES ASSUME \A x : x \in Completing(u)' <=> x \in Completing(u) PROVE Own(u)' = Own(u)
    OBVIOUS
  <2>1. Completing(u)' = Completing(u)
    OBVIOUS
  <2> QED
    BY <2>1 DEF Own
<1>7. Own(u) \in Nat
  BY DEF Own
<1> QED
  BY <1>1, <1>3, <1>4, <1>5, <1>6, <1>7, SMTT(20) DEF RefSum

(* A task that passes from one frame to another stays in one place. *)
LEMMA AloneHeld ==
    ASSUME NEW t \in Tasks, Alone(t), NEW y \in FramePlaces, InFrame(y, t), NEW z \in FramePlaces',
           \A q \in Queues : InReady(q, t)' <=> InReady(q, t),
           \A p \in Tasks : InWait(p, t)' <=> InWait(p, t),
           \A x : InFrame(x, t)' <=> x = z,
           Active(t)' <=> Active(t)
    PROVE  Alone(t)'
<1>1. Active(t) /\ (\A q \in Queues : ~InReady(q, t)) /\ (\A p \in Tasks : ~InWait(p, t))
  BY DEF Alone
<1> QED
  BY <1>1, SMTT(20) DEF Alone

(* No frame changes while the stacks stay. *)
LEMMA SameStack ==
    ASSUME TypeOK, UNCHANGED stack, NEW a \in Actors
    PROVE  /\ StepOf(a) /\ FramePlaces' = FramePlaces /\ Busy' = Busy /\ Pushing' = Pushing
           /\ \A x : FrameAt(x)' = FrameAt(x)
           /\ \A x, u : InFrame(x, u)' <=> InFrame(x, u)
           /\ \A u : Releasing(u)' = Releasing(u) /\ Completing(u)' = Completing(u)
<1>1. FramePlaces' = FramePlaces /\ \A x : FrameAt(x)' = FrameAt(x)
  BY DEF FramePlaces, FrameAt
<1>2. StepOf(a)
  BY <1>1 DEF StepOf, TypeOK
<1>3. Busy' = Busy
  BY DEF Busy
<1>4. Pushing' = Pushing /\ \A x, u : InFrame(x, u)' <=> InFrame(x, u)
  BY <1>1 DEF Pushing, InFrame, HoldsTask
<1>5. \A u : Releasing(u)' = Releasing(u) /\ Completing(u)' = Completing(u)
  BY <1>1 DEF Releasing, Completing, Releases
<1> QED
  BY <1>1, <1>2, <1>3, <1>4, <1>5

-----------------------------------------------------------------------------
(* The executor *)

(* Steps of the executor that leave tasks and stacks alone. *)
LEMMA ExecOnly ==
    ASSUME IInv, UNCHANGED <<taskVars, queueVars, stack, userVars>>, Exec',
           where' \in [Workers -> 0..Out], phase' \in {"main", "execute", "end"}, waits' \in 0..MaxWaits
    PROVE  IInv'
<1> UNCHANGED <<live, task_type, m_ref_count, m_wait_queue, consumed, m_predecessor,
                m_is_respawning, vla, queue_index, m_ready_queues, m_ready_count,
                stack, holds, allocated, after>>
  BY DEF taskVars, queueVars, userVars
<1>1. TypeOK /\ Main \in Actors /\ stack[Main] # << >>
  BY Basics DEF IInv, Shape
<1>2. TypeOK'
  BY <1>1 DEF TypeOK
<1>3. /\ StepOf(Main) /\ FramePlaces' = FramePlaces /\ Busy' = Busy /\ Pushing' = Pushing
      /\ \A x : FrameAt(x)' = FrameAt(x)
      /\ \A x, u : InFrame(x, u)' <=> InFrame(x, u)
      /\ \A u : Releasing(u)' = Releasing(u) /\ Completing(u)' = Completing(u)
  BY <1>1, SameStack
<1>4. \A u \in Tasks : Alone(u)'
  <2> SUFFICES ASSUME NEW u \in Tasks PROVE Alone(u)'
    OBVIOUS
  <2> QED
    BY <1>3, AloneSame DEF IInv, Spots, InReady, InWait, Active
<1>5. \A x \in FramePlaces' : /\ FrameOK(x[1], x[2], FrameAt(x))'
                              /\ FrameKnows(x[1], x[2], FrameAt(x))'
                              /\ Inj(FrameAt(x)'.rest)
  <2> SUFFICES ASSUME NEW x \in FramePlaces
               PROVE  /\ FrameOK(x[1], x[2], FrameAt(x))'
                      /\ FrameKnows(x[1], x[2], FrameAt(x))'
                      /\ Inj(FrameAt(x)'.rest)
    BY <1>3
  <2>1. FrameOK(x[1], x[2], FrameAt(x)) /\ FrameKnows(x[1], x[2], FrameAt(x)) /\ Inj(FrameAt(x).rest)
    BY DEF IInv, Shape, Spots, Known, FramesKnow
  <2>2. FrameAt(x)' = FrameAt(x)
    BY <1>3
  <2>3. FrameOK(x[1], x[2], FrameAt(x))'
    BY <2>1, <2>2 DEF FrameOK
  <2>4. FrameKnows(x[1], x[2], FrameAt(x))'
    BY <2>1, <2>2 DEF FrameKnows, Kept
  <2> QED
    BY <2>1, <2>2, <2>3, <2>4
<1>6. \A t \in Tasks : Settled(t) \/ Home(t)'
  <2> SUFFICES ASSUME NEW t \in Tasks, Home(t) PROVE Home(t)'
    BY DEF IInv, Known, Homes
  <2> QED
    BY <1>3 DEF Home
<1>7. Shape' /\ Spots' /\ Known' /\ AfterInv' /\ Rank'
  BY <1>1, <1>3, <1>4, <1>5, <1>6, QuietStep
<1>8. Refs'
  <2>1. \A u \in Tasks : RefSum(u)' = RefSum(u)
    <3> SUFFICES ASSUME NEW u \in Tasks PROVE RefSum(u)' = RefSum(u)
      OBVIOUS
    <3>1. Completing(u)' = Completing(u) /\ Releasing(u)' = Releasing(u)
      BY <1>3
    <3>2. Own(u)' = Own(u)
      BY <3>1 DEF Own
    <3> QED
      BY <3>1, <3>2, QuietRefs
  <2>2. \A u \in Tasks : \A x, z \in Completing(u)' : x = z
    BY <1>3 DEF IInv, Refs
  <2> QED
    BY <2>1, <2>2, RefsSame
<1>9. Count'
  BY <1>3, CountSame
<1> QED
  BY <1>2, <1>7, <1>8, <1>9 DEF IInv

(* What the places of the executor are. *)
LEMMA WhereFacts ==
    ASSUME IInv
    PROVE  /\ Exec /\ where \in [Workers -> 0..Out] /\ waits \in 0..MaxWaits /\ MaxWaits \in Nat
           /\ Out = NumQueues + 1 /\ NumQueues \in Nat \ {0} /\ AtLoop = 0 /\ AtLoop # Out
           /\ phase \in {"main", "execute", "end"}
           /\ \A w \in Workers : where[w] # Out => phase = "execute"
           /\ Main \in Actors /\ \A w \in Workers : w # Main /\ w \in Actors
<1>1. TypeOK /\ Exec
  BY DEF IInv
<1>2. NumQueues \in Nat \ {0} /\ MaxWaits \in Nat
  BY <1>1, Basics
<1> QED
  BY <1>1, <1>2, ActorsAssumption, SMTT(20) DEF TypeOK, Exec, Out, AtLoop

(* Wait preserves the invariant. *)
LEMMA WaitInv ==
    ASSUME IInv, Wait
    PROVE  IInv'
<1>1. /\ Exec /\ waits \in 0..MaxWaits /\ MaxWaits \in Nat /\ Main \in Actors
      /\ Out \in Nat /\ AtLoop = 0 /\ AtLoop # Out
  BY WhereFacts, SMTT(20)
<1>2. /\ waits < MaxWaits /\ At(Main, "user") /\ phase' = "execute" /\ waits' = waits + 1
      /\ where' = [w \in Workers |-> AtLoop]
      /\ UNCHANGED <<taskVars, queueVars, stack, userVars>>
  BY DEF Wait
<1>3. Len(stack[Main]) = 1
  <2>1. stack[Main] # << >> /\ Top(Main).at = "user"
    BY <1>2 DEF At
  <2>2. FrameOK(Main, Depth(Main), Top(Main)) /\ Depth(Main) \in Nat \ {0}
    BY <1>1, <2>1, TopFacts
  <2>3. Depth(Main) = 1
    BY <2>1, <2>2, SMTT(20) DEF FrameOK
  <2> QED
    BY <2>3 DEF Depth
<1>4. Exec'
  BY <1>1, <1>2, <1>3 DEF Exec
<1> QED
  BY <1>1, <1>2, <1>4, ExecOnly, SMTT(20)

(* WaitReturns preserves the invariant. *)
LEMMA WaitReturnsInv ==
    ASSUME IInv, WaitReturns
    PROVE  IInv'
<1>1. Exec /\ where \in [Workers -> 0..Out] /\ waits \in 0..MaxWaits
  BY WhereFacts
<1>2. /\ phase = "execute" /\ phase' = "main" /\ \A w \in Workers : where[w] = Out /\ stack[w] = << >>
      /\ UNCHANGED <<taskVars, queueVars, stack, where, waits, userVars>>
  BY DEF WaitReturns
<1>3. m_ready_count = 0 /\ Len(stack[Main]) = 1
  BY <1>1, <1>2, PoolAssumption DEF Exec
<1>4. Exec'
  BY <1>1, <1>2, <1>3 DEF Exec, queueVars
<1> QED
  BY <1>1, <1>2, <1>4, ExecOnly

(* End preserves the invariant. *)
LEMMA EndInv ==
    ASSUME IInv, End
    PROVE  IInv'
<1>1. Exec /\ where \in [Workers -> 0..Out] /\ waits \in 0..MaxWaits
  BY WhereFacts
<1>2. /\ phase = "main" /\ phase' = "end" /\ waits = MaxWaits /\ holds[HostCode] = {}
      /\ UNCHANGED <<taskVars, queueVars, stack, where, waits, userVars>>
  BY DEF End
<1>3. Exec'
  BY <1>1, <1>2 DEF Exec, queueVars, userVars
<1> QED
  BY <1>1, <1>2, <1>3, ExecOnly

(* A worker that is not inside a task goes on looking for one. *)
LEMMA MovesOn ==
    ASSUME IInv, NEW w \in Workers, where[w] # Out, stack[w] = << >>, NEW k \in 0..Out,
           k = Out => m_ready_count = 0,
           where' = [where EXCEPT ![w] = k],
           UNCHANGED <<taskVars, queueVars, stack, phase, waits, userVars>>
    PROVE  IInv'
<1>1. /\ Exec /\ where \in [Workers -> 0..Out] /\ waits \in 0..MaxWaits /\ phase = "execute"
      /\ phase \in {"main", "execute", "end"}
  BY WhereFacts
<1>2. \A v \in Workers : where'[v] = IF v = w THEN k ELSE where[v]
  BY <1>1
<1>3. Exec'
  BY <1>1, <1>2 DEF Exec, queueVars
<1>4. where' \in [Workers -> 0..Out]
  BY <1>1
<1> QED
  BY <1>1, <1>3, <1>4, ExecOnly

(* Loop preserves the invariant. *)
LEMMA LoopInv ==
    ASSUME IInv, NEW w \in Workers, Loop(w)
    PROVE  IInv'
<1>1. Out = NumQueues + 1 /\ NumQueues \in Nat \ {0} /\ AtLoop = 0
  BY WhereFacts
<1>2. PICK k : k = IF m_ready_count = 0 THEN Out ELSE 1
  OBVIOUS
<1>3. k \in 0..Out /\ (k = Out => m_ready_count = 0)
  BY <1>1, <1>2, SMTT(20)
<1>4. /\ where[w] # Out /\ stack[w] = << >> /\ where' = [where EXCEPT ![w] = k]
      /\ UNCHANGED <<taskVars, queueVars, stack, phase, waits, userVars>>
  BY <1>1, <1>2, SMTT(20) DEF Loop
<1> QED
  BY <1>3, <1>4, MovesOn

(* Scan of an empty queue preserves the invariant. *)
LEMMA ScanEmptyInv ==
    ASSUME IInv, NEW w \in Workers, Scan(w), m_ready_queues[where[w]] = << >>
    PROVE  IInv'
<1>1. Out = NumQueues + 1 /\ NumQueues \in Nat \ {0} /\ AtLoop = 0
  BY WhereFacts
<1>2. PICK k : k = IF where[w] = NumQueues THEN AtLoop ELSE where[w] + 1
  OBVIOUS
<1>3. where[w] \in Queues
  BY DEF Scan
<1>4. k \in 0..Out /\ k # Out /\ where[w] # Out
  BY <1>1, <1>2, <1>3, SMTT(20) DEF Queues
<1>5. /\ stack[w] = << >> /\ where' = [where EXCEPT ![w] = k]
      /\ UNCHANGED <<taskVars, queueVars, stack, phase, waits, userVars>>
  BY <1>2 DEF Scan, taskVars, queueVars
<1> QED
  BY <1>4, <1>5, MovesOn

(* A task that a worker pops from a ready queue stays in one place. *)
LEMMA AloneFromReady ==
    ASSUME NEW t \in Tasks, Alone(t), NEW z \in FramePlaces', NEW r \in Queues, InReady(r, t),
           \A p \in Queues : InReady(p, t)' <=> InReady(p, t) /\ p # r,
           \A q \in Tasks : InWait(q, t)' <=> InWait(q, t),
           \A x : InFrame(x, t)' <=> InFrame(x, t) \/ x = z,
           Active(t)' <=> Active(t)
    PROVE  Alone(t)'
<1>1. Active(t) /\ \A x : ~InFrame(x, t)
  BY DEF Alone, InFrame
<1>2. (\A p \in Queues : InReady(p, t) => p = r) /\ (\A q \in Tasks : ~InWait(q, t))
  BY DEF Alone
<1>3. (\A p \in Queues : ~InReady(p, t)') /\ (\A q \in Tasks : ~InWait(q, t)')
  BY <1>2
<1> QED
  BY <1>1, <1>3, SMTT(20) DEF Alone

(* A worker enters the functor of the task it found. *)
Starts(w, f) == stack[w] = << >> /\ stack' = [stack EXCEPT ![w] = <<f>>]

(* A thread without frames starts one. *)
LEMMA StartPlaces ==
    ASSUME TypeOK, NEW w \in Workers, NEW f \in FrameState,
           f.at \notin {"visit", "push", "unref", "aggregate_unref", "info"},
           Starts(w, f), NEW z, z = <<w, 1>>
    PROVE  /\ StepOf(w) /\ FramePlaces' = FramePlaces \cup {z} /\ z \notin FramePlaces
           /\ stack'[Main] = stack[Main] /\ w \in Actors
           /\ z # <<w, Depth(w)>> /\ z[1] = w /\ z[2] = 1
           /\ (\A x : x = z => FrameAt(x)' = f) /\ \A x \in FramePlaces : FrameAt(x)' = FrameAt(x)
           /\ \A x, t : InFrame(x, t)' <=> InFrame(x, t) \/ (x = z /\ HoldsTask(f, t))
           /\ \A x, t : x \in Releasing(t)' <=> x \in Releasing(t)
           /\ \A x, t : x \in Completing(t)' <=> x \in Completing(t)
           /\ \A x : x \in Pushing' <=> x \in Pushing
           /\ Busy' = Busy \cup {w} /\ w \notin Busy
<1> USE DEF Starts
<1>1. stack \in [Actors -> Seq(FrameState)] /\ w \in Actors /\ w # Main /\ Main \in Actors
  BY ActorsAssumption DEF TypeOK
<1>2. /\ stack' \in [Actors -> Seq(FrameState)] /\ Len(<<f>>) = 1 /\ <<f>>[1] = f
      /\ \A b \in Actors : stack'[b] = IF b = w THEN <<f>> ELSE stack[b]
      /\ Len(stack[w]) = 0 /\ Depth(w) = 0 /\ <<f>> # << >>
  BY <1>1, SMTT(20) DEF Depth
<1>3. /\ \A a \in Actors : Len(stack[a]) \in Nat
      /\ \A a \in Actors : \A d : <<a, d>> \in FramePlaces <=> d \in 1..Len(stack[a])
      /\ \A x \in FramePlaces : x[1] \in Actors /\ x[2] \in 1..Len(stack[x[1]]) /\ x = <<x[1], x[2]>>
  BY <1>1, PlaceFacts
<1>4. z \notin FramePlaces /\ z # <<w, Depth(w)>> /\ z[1] = w /\ z[2] = 1
  BY <1>1, <1>2, <1>3, SMTT(20)
<1>5. FramePlaces' = FramePlaces \cup {z}
  <2>1. {w} \X (1..Len(stack[w])) = {} /\ {w} \X (1..Len(<<f>>)) = {z}
    BY <1>2, SMTT(20)
  <2>2. \A b \in Actors : {b} \X (1..Len(stack'[b])) = IF b = w THEN {z} ELSE {b} \X (1..Len(stack[b]))
    BY <1>2, <2>1
  <2> QED
    BY <1>1, <2>1, <2>2, SMTT(20) DEF FramePlaces
<1>6. \A x : x = z => FrameAt(x)' = f
  BY <1>1, <1>2, <1>4 DEF FrameAt
<1>7. \A x \in FramePlaces : x[1] # w /\ FrameAt(x)' = FrameAt(x)
  <2> SUFFICES ASSUME NEW x \in FramePlaces PROVE x[1] # w /\ FrameAt(x)' = FrameAt(x)
    OBVIOUS
  <2>1. x[1] \in Actors /\ x[1] # w
    BY <1>2, <1>3, SMTT(20)
  <2> QED
    BY <1>2, <2>1 DEF FrameAt
<1>8. StepOf(w)
  <2>1. z = <<w, Depth(w) + 1>>
    BY <1>2, SMTT(20)
  <2> QED
    BY <1>2, <1>5, <1>7, <2>1 DEF StepOf
<1>9. Busy' = Busy \cup {w} /\ w \notin Busy
  BY <1>1, <1>2, ActorsAssumption DEF Busy
<1>10. \A x, t : InFrame(x, t)' <=> InFrame(x, t) \/ (x = z /\ HoldsTask(f, t))
  BY <1>4, <1>5, <1>6, <1>7 DEF InFrame, HoldsTask
<1>11. \A x, t : x \in Releasing(t)' <=> x \in Releasing(t)
  BY <1>4, <1>5, <1>6, <1>7 DEF Releasing, Releases
<1>12. \A x, t : x \in Completing(t)' <=> x \in Completing(t)
  BY <1>4, <1>5, <1>6, <1>7 DEF Completing
<1>13. \A x : x \in Pushing' <=> x \in Pushing
  BY <1>4, <1>5, <1>6, <1>7 DEF Pushing
<1> QED
  BY <1>1, <1>2, <1>4, <1>5, <1>6, <1>7, <1>8, <1>9, <1>10, <1>11, <1>12, <1>13

(* Scan that finds a task preserves the invariant. *)
LEMMA ScanPopInv ==
    ASSUME IInv, NEW w \in Workers, Scan(w), m_ready_queues[where[w]] # << >>
    PROVE  IInv'
<1> PICK r, t, f, z : /\ r = where[w] /\ t = Head(m_ready_queues[where[w]])
                      /\ f = Frame("user", Head(m_ready_queues[where[w]])) /\ z = <<w, 1>>
  OBVIOUS
<1>1. /\ r \in Queues /\ stack[w] = << >>
      /\ m_ready_queues' = [m_ready_queues EXCEPT ![r] = Tail(@)]
      /\ m_is_respawning' = [m_is_respawning EXCEPT ![t] = FALSE]
      /\ stack' = [stack EXCEPT ![w] = <<f>>]
      /\ where' = [where EXCEPT ![w] = AtLoop]
  BY DEF Scan
<1> UNCHANGED <<live, task_type, m_ref_count, m_wait_queue, consumed, m_predecessor, vla, queue_index,
                m_ready_count, phase, waits, holds, allocated, after, respawns>>
  BY DEF Scan, userVars
<1>2. TypeOK /\ Spots /\ allocated \in Nat
  BY Basics DEF IInv
<1>3. /\ t \in Tasks /\ InReady(r, t)
      /\ m_ready_queues' \in [Queues -> Seq(Tasks)]
      /\ \A q \in Queues : Inj(m_ready_queues'[q])
      /\ \A q \in Queues : \A u : InReady(q, u)' <=> InReady(q, u) /\ ~(q = r /\ u = t)
  <2>1. m_ready_queues \in [Queues -> Seq(Tasks)]
    BY <1>2 DEF TypeOK
  <2>2. PICK s : s = m_ready_queues[r]
    OBVIOUS
  <2>3. s \in Seq(Tasks) /\ s # << >> /\ Inj(s) /\ t = Head(s)
    BY <1>1, <1>2, <2>1, <2>2 DEF Spots
  <2>4. /\ t \in Tasks /\ Tail(s) \in Seq(Tasks) /\ SeqHas(s, t) /\ Inj(Tail(s))
        /\ \A u : SeqHas(Tail(s), u) <=> SeqHas(s, u) /\ u # t
    BY <2>3, TailSeq
  <2>5. PICK tail : tail = Tail(s)
    OBVIOUS
  <2>6. m_ready_queues' = [m_ready_queues EXCEPT ![r] = tail]
    BY <1>1, <2>2, <2>5
  <2>7. m_ready_queues' \in [Queues -> Seq(Tasks)]
    BY <2>1, <2>4, <2>5, <2>6
  <2>8. \A q \in Queues : m_ready_queues'[q] = IF q = r THEN tail ELSE m_ready_queues[q]
    BY <2>1, <2>6
  <2>9. \A q \in Queues : Inj(m_ready_queues'[q])
    BY <1>2, <2>4, <2>5, <2>8 DEF Spots
  <2>10. \A q \in Queues : \A u : InReady(q, u)' <=> InReady(q, u) /\ ~(q = r /\ u = t)
    BY <2>2, <2>4, <2>5, <2>8 DEF InReady
  <2>11. InReady(r, t)
    BY <2>2, <2>4 DEF InReady
  <2> QED
    BY <2>4, <2>7, <2>9, <2>10, <2>11
<1>4. Alone(t) /\ t \in live /\ Active(t) /\ t \in 0..allocated /\ t # HostCode /\ task_type[t] = "runnable"
  <2>1. Alone(t) /\ t \in live /\ Active(t) /\ t # HostCode
    BY <1>1, <1>2, <1>3, PlacedIsLive, Basics DEF Spots
  <2>2. t \in 0..allocated
    BY <2>1, LiveIsCreated
  <2>3. task_type[t] = "runnable"
    BY <1>1, <1>3 DEF IInv, Known, ReadyRunnable
  <2> QED
    BY <2>1, <2>2, <2>3
<1>5. Settled(t) /\ UNCHANGED m_is_respawning
  <2>1. Settled(t)
    <3> SUFFICES ASSUME Home(t) PROVE FALSE
      BY <1>3 DEF IInv, Known, Homes
    <3>1. PICK x \in FramePlaces : FrameAt(x).task = t /\ FrameAt(x).at \in {"user", "complete", "schedule"}
      BY DEF Home
    <3>2. InFrame(x, t)
      BY <3>1 DEF InFrame, HoldsTask
    <3> QED
      BY <1>1, <1>3, <1>4, <3>2 DEF Alone
  <2> QED
    BY <1>1, <1>2, <1>3, <2>1 DEF Settled, TypeOK
<1>6. /\ f \in FrameState /\ f.at = "user" /\ f.task = t /\ f.pred = Null /\ f.rest = << >> /\ Inj(f.rest)
  <2>1. "user" \in Ats /\ t \in Owners
    BY <1>3 DEF Ats, Owners
  <2>2. NewFrame(f, "user", t)
    BY <2>1, FrameFacts
  <2> QED
    BY <2>2 DEF NewFrame
<1>7. /\ StepOf(w) /\ FramePlaces' = FramePlaces \cup {z} /\ z \notin FramePlaces
      /\ stack'[Main] = stack[Main] /\ w \in Actors
      /\ z # <<w, Depth(w)>> /\ z[1] = w /\ z[2] = 1
      /\ (\A x : x = z => FrameAt(x)' = f) /\ \A x \in FramePlaces : FrameAt(x)' = FrameAt(x)
      /\ \A x, u : InFrame(x, u)' <=> InFrame(x, u) \/ (x = z /\ HoldsTask(f, u))
      /\ \A x, u : x \in Releasing(u)' <=> x \in Releasing(u)
      /\ \A x, u : x \in Completing(u)' <=> x \in Completing(u)
      /\ \A x : x \in Pushing' <=> x \in Pushing
      /\ Busy' = Busy \cup {w} /\ w \notin Busy
  <2>1. f.at \notin {"visit", "push", "unref", "aggregate_unref", "info"}
    BY <1>6
  <2>2. Starts(w, f)
    BY <1>1 DEF Starts
  <2> QED
    BY <1>2, <1>6, <2>1, <2>2, StartPlaces, SMTT(20)
<1>8. w # Main /\ w \in Actors
  BY ActorsAssumption
<1>9. /\ Exec /\ where \in [Workers -> 0..Out] /\ Out \in Nat /\ AtLoop = 0 /\ AtLoop # Out
      /\ phase = "execute" /\ where' \in [Workers -> 0..Out]
      /\ \A v \in Workers : where'[v] = IF v = w THEN AtLoop ELSE where[v]
  <2>1. /\ Exec /\ where \in [Workers -> 0..Out] /\ Out = NumQueues + 1 /\ NumQueues \in Nat \ {0}
        /\ AtLoop = 0 /\ AtLoop # Out /\ (where[w] # Out => phase = "execute")
    BY WhereFacts
  <2>2. where[w] # Out /\ Out \in Nat
    BY <1>1, <2>1, SMTT(20) DEF Queues
  <2> QED
    BY <1>1, <2>1, <2>2, SMTT(20)
<1>10. TypeOK'
  BY <1>2, <1>3, <1>5, <1>7, <1>9 DEF TypeOK, StepOf
<1>11. Shape'
  <2>1. \A x : x = z => FrameOK(x[1], x[2], FrameAt(x))'
    <3>1. Null \in 0..allocated /\ ~(1 > 1)
      BY <1>2, SMTT(20) DEF Null
    <3>2. FrameOK(w, 1, f)'
      BY <1>4, <1>6, <1>8, <3>1 DEF FrameOK
    <3> QED
      BY <1>7, <3>2
  <2>2. stack'[Main] # << >>
    BY <1>7 DEF IInv, Shape
  <2> QED
    BY <1>2, <1>7, <2>1, <2>2, ShapeStep, SMTT(20)
<1>12. Spots'
  <2>1. ASSUME NEW u \in Tasks PROVE Alone(u)'
    <3>0. /\ \A p \in Tasks : InWait(p, u)' <=> InWait(p, u)
          /\ Active(u)' <=> Active(u)
          /\ Alone(u)
          /\ HoldsTask(f, u) <=> u = t
      BY <1>2, <1>6 DEF InWait, Active, Spots, HoldsTask
    <3>1. CASE u # t
      BY <1>3, <1>7, <3>0, <3>1, AloneSame
    <3>2. CASE u = t
      <4>1. \A x : InFrame(x, u)' <=> InFrame(x, u) \/ x = z
        BY <1>7, <3>0, <3>2
      <4>2. z \in FramePlaces' /\ InReady(r, u)
        BY <1>3, <1>7, <3>2
      <4>3. \A p \in Queues : InReady(p, u)' <=> InReady(p, u) /\ p # r
        BY <1>3, <3>2
      <4> QED
        BY <1>1, <3>0, <4>1, <4>2, <4>3, AloneFromReady
    <3> QED
      BY <3>1, <3>2
  <2>2. \A x \in FramePlaces' : Inj(FrameAt(x)'.rest)
    BY <1>2, <1>6, <1>7 DEF Spots
  <2> QED
    BY <1>2, <1>3, <2>1, <2>2 DEF Spots
<1>13. FramesKnow'
  <2>1. \A x : x = z => FrameKnows(x[1], x[2], FrameAt(x))'
    BY <1>5, <1>6, <1>7 DEF FrameKnows, Settled
  <2>2. \A x \in FramePlaces : x # <<w, Depth(w)>>
    <3>1. Depth(w) = 0
      BY <1>1, SMTT(20) DEF Depth
    <3>2. stack \in [Actors -> Seq(FrameState)]
      BY <1>2 DEF TypeOK
    <3> QED
      BY <1>8, <3>1, <3>2, PlaceFacts, SMTT(20)
  <2> QED
    BY <1>5, <1>7, <2>1, <2>2, KnowSame
<1>14. Homes'
  <2> SUFFICES ASSUME NEW u \in Tasks, ~Settled(u)' PROVE Home(u)'
    BY DEF Homes
  <2>1. ~Settled(u)
    BY <1>5 DEF Settled
  <2>2. Home(u)
    BY <2>1 DEF IInv, Known, Homes
  <2> QED
    BY <1>7, <2>2 DEF Home
<1>15. WaitsOnActive' /\ ReadyRunnable' /\ Kinds'
  <2>1. WaitsOnActive'
    BY DEF IInv, Known, WaitsOnActive, InWait, Active
  <2>2. ReadyRunnable'
    BY <1>3 DEF IInv, Known, ReadyRunnable
  <2>3. Kinds'
    BY DEF IInv, Known, Kinds, NonNull
  <2> QED
    BY <2>1, <2>2, <2>3
<1>16. Refs'
  <2>1. \A u \in Tasks : RefSum(u)' = RefSum(u)
    <3> SUFFICES ASSUME NEW u \in Tasks PROVE RefSum(u)' = RefSum(u)
      OBVIOUS
    <3>1. \A x : x \in Completing(u)' <=> x \in Completing(u)
      BY <1>7
    <3>2. Own(u)' = Own(u)
      BY <3>1 DEF Own
    <3>3. \A x : x \in Releasing(u)' <=> x \in Releasing(u)
      BY <1>7
    <3> QED
      BY <1>5, <3>2, <3>3, QuietRefs
  <2>2. \A u \in Tasks : \A x, y \in Completing(u)' : x = y
    BY <1>7 DEF IInv, Refs
  <2> QED
    BY <2>1, <2>2, RefsSame
<1>17. AfterInv'
  BY AfterStep DEF InWait
<1>18. Count'
  <2>1. ReadyTasks' = ReadyTasks \ {t} /\ t \in ReadyTasks
    <3>1. \A u \in Tasks : u \in ReadyTasks' <=> u \in ReadyTasks /\ u # t
      <4>1. \A q \in Queues : InReady(q, t) => q = r
        BY <1>1, <1>3, <1>4 DEF Alone
      <4> QED
        BY <1>3, <4>1 DEF ReadyTasks
    <3> QED
      BY <1>1, <1>3, <3>1 DEF ReadyTasks
  <2>2. Pushing' = Pushing
    BY <1>7 DEF Pushing
  <2>3. /\ IsFiniteSet(Busy) /\ IsFiniteSet(ReadyTasks)
        /\ Cardinality(Busy) \in Nat /\ Cardinality(ReadyTasks) \in Nat /\ Cardinality(Pushing) \in Nat
    BY <1>2, CountFinite
  <2>4. Cardinality(ReadyTasks') = Cardinality(ReadyTasks) - 1
    BY <2>1, <2>3, OneLess
  <2>5. Cardinality(Busy') = Cardinality(Busy) + 1
    BY <1>7, <2>3, OneMore
  <2>6. m_ready_count = Cardinality(ReadyTasks) + Cardinality(Busy) + Cardinality(Pushing)
    BY DEF IInv, Count
  <2>7. m_ready_count = (Cardinality(ReadyTasks) - 1) + (Cardinality(Busy) + 1) + Cardinality(Pushing)
    BY <2>3, <2>6, SMTT(20)
  <2> QED
    BY <2>2, <2>4, <2>5, <2>7 DEF Count
<1>19. Rank'
  BY RankStep DEF InWait, NonNull
<1>20. Exec'
  <2>1. \A v \in Workers : v # w => stack'[v] = stack[v]
    BY <1>7, ActorsAssumption DEF StepOf
  <2> QED
    BY <1>7, <1>9, <2>1 DEF Exec
<1> QED
  BY <1>10, <1>11, <1>12, <1>13, <1>14, <1>15, <1>16, <1>17, <1>18, <1>19, <1>20 DEF IInv, Known

-----------------------------------------------------------------------------
(* The initial states *)

(* The invariant holds at first. *)
LEMMA InitInv ==
    ASSUME Init, SetFacts
    PROVE  IInv
<1> USE DEF Init, CommonInit
<1>1. PICK f : f = Frame("user", HostCode)
  OBVIOUS
<1>2. f \in FrameState /\ f.at = "user" /\ f.task = HostCode /\ f.pred = Null /\ Inj(f.rest)
  <2>1. "user" \in Ats /\ HostCode \in Owners
    BY DEF Ats, Owners
  <2>2. NewFrame(f, "user", HostCode)
    BY <1>1, <2>1, FrameFacts
  <2> QED
    BY <2>2 DEF NewFrame
<1>3. Main \in Actors /\ Main \notin Workers /\ Workers \subseteq Actors /\ MaxTasks \in Nat
      /\ NumQueues \in Nat \ {0} /\ MaxWaits \in Nat /\ MaxVla \in Nat
  BY ActorsAssumption, CountsAssumption, BoundsAssumption
<1>4. /\ stack \in [Actors -> Seq(FrameState)] /\ stack[Main] = <<f>> /\ Len(stack[Main]) = 1
      /\ \A a \in Actors : a # Main => stack[a] = << >>
  BY <1>1, <1>2, <1>3, SMTT(20)
<1>5. TypeOK
  <2>1. \A x : x \in Tasks => x \in Owners
    BY DEF Owners
  <2>2. << >> \in Seq(Tasks) /\ << >> \in Seq(Owners) /\ Null \in Owners /\ 1 \in Queues
    BY <1>3, SMTT(20) DEF Null, Owners, HostCode, Queues
  <2>3. /\ m_wait_queue \in [Tasks -> Seq(Tasks)] /\ vla \in [Tasks -> Seq(Owners)]
        /\ m_predecessor \in [Tasks -> Owners] /\ m_ready_queues \in [Queues -> Seq(Tasks)]
        /\ queue_index \in [Tasks -> Queues]
    BY <2>2
  <2>4. where \in [Workers -> 0..Out] /\ allocated \in 0..MaxTasks /\ waits \in 0..MaxWaits
    BY <1>3, SMTT(20) DEF Out
  <2> QED
    BY <1>4, <2>3, <2>4 DEF TypeOK
<1>6. /\ \A x \in FramePlaces : x = <<Main, 1>> /\ x[1] = Main /\ x[2] = 1 /\ FrameAt(x) = f
      /\ Tasks \subseteq Nat /\ \A t \in Tasks : t # Null /\ t # HostCode
  <2>1. \A x \in FramePlaces : x[1] \in Actors /\ x[2] \in 1..Len(stack[x[1]]) /\ x = <<x[1], x[2]>>
    BY <1>4, PlaceFacts
  <2>2. \A a \in Actors : a # Main => Len(stack[a]) = 0
    BY <1>4
  <2>3. ASSUME NEW x \in FramePlaces PROVE x = <<Main, 1>> /\ x[1] = Main /\ x[2] = 1 /\ FrameAt(x) = f
    <3>1. x[1] \in Actors /\ x[2] \in 1..Len(stack[x[1]]) /\ x = <<x[1], x[2]>>
      BY <2>1
    <3>2. x[1] = Main
      BY <2>2, <3>1, SMTT(20)
    <3>3. x[2] = 1
      BY <1>4, <3>1, <3>2, SMTT(20)
    <3> QED
      BY <1>4, <3>1, <3>2, <3>3, SMTT(20) DEF FrameAt
  <2> QED
    BY <1>5, <2>3, Basics
<1>7. Shape
  BY <1>2, <1>3, <1>4, <1>6, SMTT(20) DEF Shape, FrameOK, Null, HostCode
<1>8. /\ \A q \in Queues : \A t : ~InReady(q, t)
      /\ \A p \in Tasks : \A t : ~InWait(p, t)
      /\ \A x : \A t \in Tasks : ~InFrame(x, t)
  <2>1. \A q \in Queues : Len(m_ready_queues[q]) = 0
    OBVIOUS
  <2>2. \A p \in Tasks : Len(m_wait_queue[p]) = 0
    OBVIOUS
  <2>3. \A t \in Tasks : ~HoldsTask(f, t)
    BY <1>2, <1>6 DEF HoldsTask
  <2> QED
    BY <1>6, <2>1, <2>2, <2>3, SMTT(20) DEF InReady, InWait, InFrame, SeqHas
<1>9. Spots
  <2>1. \A t \in Tasks : ~Active(t)
    BY <1>5, <1>6, SMTT(20) DEF Active, Tasks
  <2>2. \A t \in Tasks : Alone(t)
    BY <1>8, <2>1 DEF Alone
  <2>3. (\A q \in Queues : Inj(m_ready_queues[q])) /\ (\A p \in Tasks : Inj(m_wait_queue[p]))
    BY EmptyList
  <2> QED
    BY <1>2, <1>6, <2>2, <2>3 DEF Spots
<1>10. Known
  <2>1. FramesKnow
    BY <1>2, <1>6 DEF FramesKnow, FrameKnows
  <2>2. Homes
    BY DEF Homes, Settled
  <2>3. WaitsOnActive /\ ReadyRunnable
    BY <1>8 DEF WaitsOnActive, ReadyRunnable
  <2>4. Kinds
    <3>1. \A t \in Tasks : vla[t] = << >> /\ Len(vla[t]) = 0 /\ holds[t] = {} /\ ~consumed[t]
                           /\ after[t] = {} /\ m_ref_count[t] = 0
      BY DEF Owners
    <3>2. \A t \in Tasks : NonNull(t) = {} /\ Len(vla[t]) <= MaxVla
      BY <1>3, <3>1, SMTT(20) DEF NonNull
    <3> QED
      BY <3>1, <3>2 DEF Kinds
  <2> QED
    BY <2>1, <2>2, <2>3, <2>4 DEF Known
<1>11. Refs
  <2>1. ASSUME NEW t \in Tasks
        PROVE  /\ Futures(t) = {} /\ Entries(t) = {} /\ Respawning(t) = {}
               /\ Releasing(t) = {} /\ Completing(t) = {} /\ Own(t) = 0
    <3>1. Created = {}
      BY SMTT(20) DEF Created
    <3>2. Entries(t) = {} /\ Respawning(t) = {}
      BY <3>1 DEF Entries, Respawning
    <3>3. Futures(t) = {}
      BY DEF Futures
    <3>4. Releasing(t) = {} /\ Completing(t) = {}
      BY <1>2, <1>6 DEF Releasing, Completing, Releases
    <3>5. Own(t) = 0
      BY <1>6, SMTT(20) DEF Own, Tasks
    <3> QED
      BY <3>2, <3>3, <3>4, <3>5
  <2>2. Cardinality({}) = 0
    BY DEF SetFacts
  <2>3. ASSUME NEW t \in Tasks PROVE RefSum(t) = 0
    <3>1. /\ Cardinality(Futures(t)) = 0 /\ Cardinality(Entries(t)) = 0
          /\ Cardinality(Respawning(t)) = 0 /\ Cardinality(Releasing(t)) = 0 /\ Own(t) = 0
      BY <2>1, <2>2
    <3> QED
      BY <3>1, SMTT(20) DEF RefSum
  <2> QED
    BY <2>1, <2>3, SMTT(20) DEF Refs
<1>12. AfterInv
  BY DEF AfterInv
<1>13. Count
  <2>1. ReadyTasks = {} /\ Busy = {} /\ Pushing = {}
    BY <1>2, <1>3, <1>4, <1>6, <1>8 DEF ReadyTasks, Busy, Pushing
  <2>2. Cardinality({}) = 0
    BY DEF SetFacts
  <2> QED
    BY <2>1, <2>2, SMTT(20) DEF Count
<1>14. Rank
  <2>1. [o \in Owners |-> 0] \in Ranks
    BY DEF Ranks
  <2>2. \A t \in Tasks : NonNull(t) = {}
    BY SMTT(20) DEF NonNull
  <2>3. \A o \in Owners : holds[o] = {}
    OBVIOUS
  <2>4. \A t \in Tasks : m_predecessor[t] = Null
    OBVIOUS
  <2> QED
    BY <1>8, <2>1, <2>2, <2>3, <2>4 DEF Rank
<1>15. Exec
  BY <1>3, <1>4 DEF Exec
<1> QED
  BY <1>5, <1>7, <1>9, <1>10, <1>11, <1>12, <1>13, <1>14, <1>15 DEF IInv
=============================================================================
