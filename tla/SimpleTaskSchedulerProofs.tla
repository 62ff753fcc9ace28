--------------------- MODULE SimpleTaskSchedulerProofs ----------------------
(***************************************************************************)
(* The safety properties of SimpleTaskScheduler for any number of workers, *)
(* ready queues and tasks and any user code: the steps of user code        *)
(* preserve the invariant, hence all steps do, and the properties follow.  *)
(***************************************************************************)
EXTENDS TaskQueueProofs

(* Steps are proved by Zenon unless they name another prover. *)
USE ZenonT(20)

-----------------------------------------------------------------------------
(* User code: futures and respawning *)

(* The owner o gives up its future of p. *)
GivesUpFuture(a, o, p) ==
    /\ Release(p)
    /\ holds' = [holds EXCEPT ![o] = @ \ {p}]
    /\ UNCHANGED <<task_type, m_wait_queue, consumed, m_predecessor, m_is_respawning, vla, queue_index,
                   m_ready_queues, m_ready_count, stack, allocated, where, phase, waits, after, respawns>>

(* A future that goes away, in a functor that runs or that is being        *)
(* destroyed.                                                              *)
LEMMA GivesUpInv ==
    ASSUME IInv, NEW a \in Actors, stack[a] # << >>, Top(a).at \in {"user", "destroy"},
           NEW o, o = Top(a).task, NEW p \in holds[o], GivesUpFuture(a, o, p),
           Top(a).at = "user" => Running(a)
    PROVE  IInv'
<1> USE DEF GivesUpFuture
<1> TypeOK /\ o \in Owners /\ o \in 0..allocated /\ (a # Main \/ Top(a).at = "destroy" => o # HostCode)
  <2>1. TypeOK
    BY DEF IInv
  <2>2. FrameOK(a, Depth(a), Top(a)) /\ Depth(a) \in Nat \ {0}
    BY TopFacts
  <2>3. \A n \in 0..allocated : n \in Owners
    BY <2>1, Basics, SMTT(20) DEF TypeOK
  <2> QED
    BY <2>1, <2>2, <2>3 DEF FrameOK
<1> p \in Tasks /\ p \in live /\ p <= allocated /\ o \in Futures(p)
  <2>1. p \in Tasks
    BY DEF TypeOK
  <2> QED
    BY <2>1, PlacedIsLive, LiveIsCreated DEF Futures
<1>1. /\ holds' \in [Owners -> SUBSET Tasks]
      /\ \A u \in Owners : holds'[u] = IF u = o THEN holds[o] \ {p} ELSE holds[u]
  BY DEF TypeOK
<1>2. /\ m_ref_count[p] # 0 /\ m_ref_count' \in [Tasks -> Nat] /\ live' \subseteq Tasks
      /\ \A u \in Tasks : u # p => m_ref_count'[u] = m_ref_count[u]
  <2>1. m_ref_count[p] # 0
    BY Referenced
  <2> QED
    BY <2>1, ReleaseType DEF Release, TypeOK
<1>3. /\ StepOf(a) /\ FramePlaces' = FramePlaces /\ Busy' = Busy /\ Pushing' = Pushing
      /\ \A x : FrameAt(x)' = FrameAt(x)
      /\ \A x, u : InFrame(x, u)' <=> InFrame(x, u)
      /\ \A u : Releasing(u)' = Releasing(u) /\ Completing(u)' = Completing(u)
  BY SameStack
<1>4. TypeOK'
  BY <1>1, <1>2 DEF TypeOK
<1>5. Shape'
  <2>1. stack'[Main] # << >>
    BY DEF IInv, Shape
  <2> QED
    BY <1>3, <2>1, Basics, ShapeStep, SMTT(20)
<1>6. Spots'
  <2>1. ASSUME NEW u \in Tasks PROVE Alone(u)'
    BY <1>3, AloneSame DEF IInv, Spots, InReady, InWait, Active
  <2> QED
    BY <1>3, <2>1 DEF IInv, Spots
<1>7. FramesKnow'
  <2>1. Top(a)' = Top(a) /\ FrameKnows(a, Depth(a), Top(a)) /\ FrameAt(<<a, Depth(a)>>) = Top(a)
    BY TopFacts DEF Top
  <2>2. FrameKnows(a, Depth(a), Top(a))'
    BY <2>1 DEF FrameKnows
  <2>3. \A x \in FramePlaces' : \/ x \in FramePlaces /\ x # <<a, Depth(a)>>
                                \/ FrameKnows(x[1], x[2], FrameAt(x))'
    <3> SUFFICES ASSUME NEW x, x = <<a, Depth(a)>> PROVE FrameKnows(x[1], x[2], FrameAt(x))'
      BY <1>3
    <3>1. x[1] = a /\ x[2] = Depth(a) /\ FrameAt(x)' = Top(a)
      BY <1>3, <2>1
    <3> QED
      BY <2>1, <3>1 DEF FrameKnows
  <2> QED
    BY <1>1, <1>3, <2>3, KnowTop
<1>8. Homes'
  BY <1>3 DEF IInv, Known, Homes, Home, Settled
<1>9. WaitsOnActive' /\ ReadyRunnable' /\ Kinds'
  <2>1. WaitsOnActive' /\ ReadyRunnable'
    BY DEF IInv, Known, WaitsOnActive, ReadyRunnable, InWait, InReady, Active
  <2>2. Kinds'
    <3>1. \A u \in Tasks : u \in Owners /\ NonNull(u)' = NonNull(u) /\ (u > allocated => u # p)
      BY Basics, SMTT(20) DEF NonNull, Owners
    <3>2. \A u \in Tasks : holds[u] = {} => holds'[u] = {}
      BY <1>1, <3>1
    <3> QED
      BY <1>2, <3>1, <3>2, SMTT(20) DEF IInv, Known, Kinds
  <2> QED
    BY <2>1, <2>2
<1>10. Refs'
  <2>1. ASSUME NEW u \in Tasks
        PROVE  Entries(u)' = Entries(u) /\ Respawning(u)' = Respawning(u) /\ Own(u)' = Own(u)
    BY <1>3 DEF Entries, Respawning, Own, Created
  <2>2. ASSUME NEW u \in Tasks, u # p PROVE RefSum(u)' = RefSum(u)
    <3>1. Futures(u)' = Futures(u)
      BY <1>1, <2>2 DEF Futures
    <3> QED
      BY <1>3, <2>1, <3>1 DEF RefSum
  <2>3. RefSum(p)' = RefSum(p) - 1
    <3>1. Futures(p)' = Futures(p) \ {o}
      BY <1>1 DEF Futures
    <3>2. Cardinality(Futures(p)') = Cardinality(Futures(p)) - 1
      BY <3>1, RefsFinite, OneLess
    <3>3. /\ Cardinality(Futures(p)) \in Nat /\ Cardinality(Entries(p)) \in Nat
          /\ Cardinality(Respawning(p)) \in Nat /\ Cardinality(Releasing(p)) \in Nat
          /\ Own(p) \in Nat
      BY RefsAreNat, SMTT(20)
    <3>4. RefSum(p)' = (Cardinality(Futures(p)) - 1) + Cardinality(Entries(p))
                       + Cardinality(Respawning(p)) + Cardinality(Releasing(p)) + Own(p)
      BY <1>3, <2>1, <3>2 DEF RefSum
    <3> QED
      BY <3>3, <3>4, SMTT(20) DEF RefSum
  <2>4. \A u \in Tasks : \A x, z \in Completing(u)' : x = z
    BY <1>3 DEF IInv, Refs
  <2> QED
    BY <2>2, <2>3, <2>4, RefsRelease
<1>11. AfterInv'
  BY AfterStep DEF InWait
<1>12. Count'
  BY <1>3, CountSame
<1>13. Rank'
  BY <1>1, RankStep DEF InWait, NonNull
<1>14. Exec'
  <2>1. o # HostCode => holds'[HostCode] = holds[HostCode]
    BY <1>1 DEF Owners
  <2>2. CASE Top(a).at = "user"
    BY <2>1, <2>2, ExecUser DEF execVars
  <2>3. CASE Top(a).at = "destroy"
    BY <2>1, <2>3, ExecStep DEF execVars
  <2> QED
    BY <2>2, <2>3
<1> QED
  BY <1>4, <1>5, <1>6, <1>7, <1>8, <1>9, <1>10, <1>11, <1>12, <1>13, <1>14 DEF IInv, Known

(* DropFuture preserves the invariant. *)
LEMMA DropFutureInv ==
    ASSUME IInv, NEW a \in Actors, NEW p, DropFuture(a, p)
    PROVE  IInv'
<1>1. stack[a] # << >> /\ Top(a).at = "user" /\ Running(a) /\ p \in holds[Top(a).task]
  BY DEF DropFuture, Running, At, Owner
<1>2. GivesUpFuture(a, Top(a).task, p)
  BY DEF DropFuture, GivesUpFuture, Owner, queueVars, execVars
<1> QED
  BY <1>1, <1>2, GivesUpInv

(* DestroyFuture preserves the invariant. *)
LEMMA DestroyFutureInv ==
    ASSUME IInv, NEW a \in Actors, NEW p, DestroyFuture(a, p)
    PROVE  IInv'
<1>1. stack[a] # << >> /\ Top(a).at = "destroy" /\ p \in holds[Top(a).task]
  BY DEF DestroyFuture, At, Owner
<1>2. GivesUpFuture(a, Top(a).task, p)
  BY DEF DestroyFuture, GivesUpFuture, Owner, queueVars, execVars
<1> QED
  BY <1>1, <1>2, GivesUpInv

(* Respawn preserves the invariant. *)
LEMMA RespawnInv ==
    ASSUME IInv, NEW a \in Actors, NEW p, p \in holds[Owner(a)] \cup {Null}, NEW q \in Queues,
           Respawn(a, p, q)
    PROVE  IInv'
<1> PICK t : t = Top(a).task
  OBVIOUS
<1> At(a, "user") /\ a # Main /\ stack[a] # << >> /\ Top(a).at = "user" /\ Running(a)
  BY DEF Respawn, Running, At
<1> /\ TypeOK /\ t \in Tasks /\ t <= allocated /\ Settled(t) /\ ~m_is_respawning[t]
    /\ m_predecessor[t] = Null
  <2>1. t \in Tasks /\ t \in 0..allocated /\ (~m_is_respawning[t] => Settled(t))
    BY FunctorTop
  <2> QED
    BY <2>1, SMTT(20) DEF IInv, Respawn, Owner, Settled
<1> p \in Owners /\ p \in holds[t] \cup {Null} /\ (p # Null => p \in Tasks /\ p \in live /\ p <= allocated)
  <2>1. p \in holds[t] \cup {Null} /\ t \in Owners
    BY DEF Owner, Owners
  <2>2. p # Null => p \in Tasks
    BY <2>1 DEF TypeOK
  <2> QED
    BY <2>1, <2>2, PlacedIsLive, LiveIsCreated DEF Owners, Null, HostCode
<1> UNCHANGED <<live, task_type, m_wait_queue, consumed, vla, m_ready_queues, m_ready_count,
                stack, holds, allocated, where, phase, waits>>
  BY DEF Respawn, queueVars, execVars
<1>1. /\ queue_index' \in [Tasks -> Queues] /\ m_predecessor' \in [Tasks -> Owners]
      /\ m_is_respawning' \in [Tasks -> BOOLEAN]
      /\ \A u \in Tasks : m_predecessor'[u] = IF u = t THEN p ELSE m_predecessor[u]
      /\ \A u \in Tasks : m_is_respawning'[u] = IF u = t THEN TRUE ELSE m_is_respawning[u]
  BY DEF Respawn, Owner, TypeOK
<1>2. /\ m_ref_count' \in [Tasks -> Nat]
      /\ \A u \in Tasks : m_ref_count'[u] = IF u = p THEN m_ref_count[u] + 1 ELSE m_ref_count[u]
      /\ m_ref_count \in [Tasks -> Nat]
  <2>1. m_ref_count' = [u \in Tasks |-> m_ref_count[u] + IF u = p THEN 1 ELSE 0]
    BY DEF Respawn
  <2>2. m_ref_count \in [Tasks -> Nat]
    BY DEF TypeOK
  <2> QED
    BY <2>1, <2>2, SMTT(20)
<1>3. /\ after' \in [Tasks -> SUBSET Tasks] /\ after \in [Tasks -> SUBSET Tasks]
      /\ \A u \in Tasks : after'[u] = IF u = t THEN after[u] \cup ({p} \ {Null}) ELSE after[u]
  <2>1. after \in [Tasks -> SUBSET Tasks]
    BY DEF TypeOK
  <2>2. after' = [after EXCEPT ![t] = after[t] \cup ({p} \ {Null})]
    BY DEF Respawn, Owner
  <2> QED
    BY <2>1, <2>2
<1>4. /\ StepOf(a) /\ FramePlaces' = FramePlaces /\ Busy' = Busy /\ Pushing' = Pushing
      /\ \A x : FrameAt(x)' = FrameAt(x)
      /\ \A x, u : InFrame(x, u)' <=> InFrame(x, u)
      /\ \A u : Releasing(u)' = Releasing(u) /\ Completing(u)' = Completing(u)
  BY SameStack
<1>5. <<a, Depth(a)>> \in FramePlaces /\ FrameAt(<<a, Depth(a)>>) = Top(a)
  BY TopFacts
<1>6. TypeOK'
  BY <1>1, <1>2, <1>3 DEF TypeOK
<1>7. Shape'
  <2>1. stack'[Main] # << >>
    BY DEF IInv, Shape
  <2> QED
    BY <1>4, <2>1, Basics, ShapeStep, SMTT(20)
<1>8. Spots'
  <2>1. ASSUME NEW u \in Tasks PROVE Alone(u)'
    BY <1>4, AloneSame DEF IInv, Spots, InReady, InWait, Active
  <2> QED
    BY <1>4, <2>1 DEF IInv, Spots
<1>9. FramesKnow'
  <2>1. \A x \in FramePlaces' : \/ x \in FramePlaces /\ x # <<a, Depth(a)>>
                                \/ FrameKnows(x[1], x[2], FrameAt(x))'
    <3> SUFFICES ASSUME NEW x, x = <<a, Depth(a)>> PROVE FrameKnows(x[1], x[2], FrameAt(x))'
      BY <1>4
    <3>1. FrameAt(x)'.task = t /\ FrameAt(x)'.at = "user"
      BY <1>4, <1>5
    <3> QED
      BY <1>1, <3>1 DEF FrameKnows
  <2> QED
    BY <1>1, <1>4, <2>1, KnowTop
<1>10. Homes'
  <2>1. Home(t)'
    BY <1>4, <1>5 DEF Home
  <2>2. \A u \in Tasks : u # t => (Settled(u)' <=> Settled(u))
    BY <1>1 DEF Settled
  <2> QED
    BY <1>4, <2>1, <2>2, HomesStep
<1>11. WaitsOnActive' /\ ReadyRunnable' /\ Kinds'
  <2>1. WaitsOnActive' /\ ReadyRunnable'
    BY DEF IInv, Known, WaitsOnActive, ReadyRunnable, InWait, InReady, Active
  <2>2. Kinds'
    <3>1. \A u \in Tasks : NonNull(u)' = NonNull(u)
      BY DEF NonNull
    <3>2. \A u \in Tasks : u > allocated => u # p /\ u # t
      BY Basics, SMTT(20)
    <3> QED
      BY <1>2, <1>3, <3>1, <3>2 DEF IInv, Known, Kinds
  <2> QED
    BY <2>1, <2>2
<1>12. Refs'
  <2>1. ASSUME NEW u \in Tasks
        PROVE  Entries(u)' = Entries(u) /\ Futures(u)' = Futures(u) /\ Own(u)' = Own(u)
    BY <1>4 DEF Entries, Futures, Own, Created
  <2>2. ASSUME NEW u \in Tasks PROVE u # Null /\ (\A v \in Created : v \in Tasks) /\ t \in Created
    BY Basics
  <2>3. ASSUME NEW u \in Tasks, u # p PROVE RefSum(u)' = RefSum(u)
    <3>1. \A v \in Created : m_is_respawning'[v] /\ m_predecessor'[v] = u <=>
                             m_is_respawning[v] /\ m_predecessor[v] = u
      BY <1>1, <2>2, <2>3
    <3>2. Respawning(u)' = Respawning(u)
      BY <3>1 DEF Respawning, Created
    <3> QED
      BY <1>4, <2>1, <3>2 DEF RefSum
  <2>4. ASSUME NEW u \in Tasks, u = p PROVE RefSum(u)' = RefSum(u) + 1
    <3>1. \A v \in Created : m_is_respawning'[v] /\ m_predecessor'[v] = u <=>
                             v = t \/ (m_is_respawning[v] /\ m_predecessor[v] = u)
      BY <1>1, <2>2, <2>4
    <3>2. Respawning(u)' = Respawning(u) \cup {t} /\ t \notin Respawning(u)
      BY <2>2, <2>4, <3>1 DEF Respawning, Created
    <3>3. Cardinality(Respawning(u)') = Cardinality(Respawning(u)) + 1
      BY <3>2, RefsFinite, OneMore
    <3>4. /\ Cardinality(Futures(u)) \in Nat /\ Cardinality(Entries(u)) \in Nat
          /\ Cardinality(Respawning(u)) \in Nat /\ Cardinality(Releasing(u)) \in Nat
          /\ Own(u) \in Nat
      BY RefsAreNat, SMTT(20)
    <3>5. RefSum(u)' = Cardinality(Futures(u)) + Cardinality(Entries(u))
                       + (Cardinality(Respawning(u)) + 1) + Cardinality(Releasing(u)) + Own(u)
      BY <1>4, <2>1, <3>3 DEF RefSum
    <3> QED
      BY <3>4, <3>5, SMTT(20) DEF RefSum
  <2>5. \A u \in Tasks : m_ref_count[u] = RefSum(u) /\ (u \in live <=> m_ref_count[u] > 0)
    BY DEF IInv, Refs
  <2>6. ASSUME NEW u \in Tasks PROVE m_ref_count'[u] = RefSum(u)' /\ (u \in live <=> m_ref_count'[u] > 0)
    <3>1. m_ref_count[u] = RefSum(u) /\ (u \in live <=> m_ref_count[u] > 0) /\ m_ref_count[u] \in Nat
      BY <1>2, <2>5
    <3>2. CASE u = p
      <4>1. RefSum(u)' = RefSum(u) + 1 /\ m_ref_count'[u] = m_ref_count[u] + 1 /\ u \in live
        BY <1>2, <2>2, <2>4, <3>2
      <4> QED
        BY <3>1, <4>1, SMTT(20)
    <3>3. CASE u # p
      BY <1>2, <2>3, <3>1, <3>3
    <3> QED
      BY <3>2, <3>3
  <2>7. \A u \in Tasks : \A x, z \in Completing(u)' : x = z
    BY <1>4 DEF IInv, Refs
  <2> QED
    BY <2>6, <2>7 DEF Refs
<1>13. AfterInv'
  <2> SUFFICES ASSUME NEW u \in Tasks, NEW r \in after'[u]
               PROVE  consumed[r] \/ r = m_predecessor'[u] \/ SeqHas(vla[u], r) \/ InWait(r, u)
    BY DEF AfterInv, InWait
  <2>1. CASE r \in after[u]
    <3>1. r \in Tasks /\ r # Null
      BY <1>3, <2>1, Basics
    <3>2. consumed[r] \/ r = m_predecessor[u] \/ SeqHas(vla[u], r) \/ InWait(r, u)
      BY <2>1 DEF IInv, AfterInv
    <3> QED
      BY <1>1, <3>1, <3>2
  <2>2. CASE u = t /\ r = p
    BY <1>1, <2>2
  <2> QED
    BY <1>3, <2>1, <2>2
<1>14. Count'
  BY <1>4, CountSame
<1>15. Rank'
  BY <1>1, RankStep DEF InWait, NonNull
<1>16. Exec'
  BY ExecUser DEF execVars
<1> QED
  BY <1>6, <1>7, <1>8, <1>9, <1>10, <1>11, <1>12, <1>13, <1>14, <1>15, <1>16 DEF IInv, Known

-----------------------------------------------------------------------------
(* User code: creating tasks *)

(* The predecessor of any task is allocated. *)
LEMMA PredecessorIsHeld ==
    ASSUME IInv, NEW t \in Tasks, m_predecessor[t] # Null
    PROVE  m_predecessor[t] \in live
<1> PICK p : p = m_predecessor[t]
  OBVIOUS
<1>1. TypeOK /\ p \in Tasks
  BY DEF IInv, TypeOK, Owners, HostCode, Null
<1>2. PICK x \in FramePlaces : FrameAt(x).task = t /\ FrameAt(x).at \in {"user", "complete", "schedule"}
  BY DEF IInv, Known, Homes, Home, Settled
<1>3. CASE m_is_respawning[t]
  <2>1. t \in Created
    <3>1. FrameAt(x).task \in 0..allocated
      BY <1>2 DEF IInv, Shape, FrameOK
    <3> QED
      BY <1>1, <1>2, <3>1, Basics, SMTT(20)
  <2>2. t \in Respawning(p)
    BY <1>3, <2>1 DEF Respawning
  <2> QED
    BY <1>1, <2>2, Referenced
<1>4. CASE ~m_is_respawning[t]
  <2>1. FrameKnows(x[1], x[2], FrameAt(x)) /\ t # HostCode
    BY <1>1, <1>2, Basics DEF IInv, Known, FramesKnow
  <2>2. Kept(x[1], x[2], p)
    BY <1>2, <1>4, <2>1 DEF FrameKnows
  <2> QED
    BY <1>1, <1>2, <2>2, KeptIsLive
<1> QED
  BY <1>3, <1>4

(* Nothing refers to the task that is allocated next. *)
LEMMA Fresh ==
    ASSUME IInv, NEW n, n = allocated + 1, allocated < MaxTasks
    PROVE  /\ n \in Tasks /\ n > allocated /\ n \notin 0..allocated /\ n # Null /\ n # HostCode
           /\ n \notin live /\ m_ref_count[n] = 0
           /\ ~consumed[n] /\ holds[n] = {} /\ vla[n] = << >> /\ after[n] = {} /\ Settled(n)
           /\ \A q \in Queues : ~InReady(q, n)
           /\ \A p \in Tasks : ~InWait(p, n) /\ ~InWait(n, p)
           /\ \A x : ~InFrame(x, n) /\ x \notin Releasing(n) /\ x \notin Completing(n)
           /\ \A o \in Owners : n \notin holds[o]
           /\ \A t \in Tasks : m_predecessor[t] # n
           /\ \A t \in Tasks : \A i \in NonNull(t) : vla[t][i] # n
           /\ Futures(n) = {} /\ Entries(n) = {} /\ Respawning(n) = {}
<1>1. /\ TypeOK /\ n \in Tasks /\ n > allocated /\ n \notin 0..allocated /\ n # Null /\ n # HostCode
      /\ ~(n <= allocated)
  <2>1. TypeOK
    BY DEF IInv
  <2>2. allocated \in Nat /\ MaxTasks \in Nat
    BY <2>1, Basics
  <2> QED
    BY <2>1, <2>2, SMTT(20) DEF Tasks, Null, HostCode
<1>2. n \notin live
  BY <1>1, LiveIsCreated
<1>3. /\ holds[n] = {} /\ vla[n] = << >> /\ ~consumed[n] /\ after[n] = {} /\ m_ref_count[n] = 0
  BY <1>1 DEF IInv, Known, Kinds
<1>4. \A x \in FramePlaces : FrameAt(x).task # n
  BY <1>1 DEF IInv, Shape, FrameOK
<1>5. Settled(n)
  BY <1>1, <1>4 DEF IInv, Known, Homes, Home
<1>6. \A x : ~InFrame(x, n) /\ x \notin Completing(n)
  <2>1. Alone(n) /\ ~Active(n)
    BY <1>1 DEF IInv, Spots, Active
  <2> QED
    BY <1>4, <2>1 DEF Alone, InFrame, Completing
<1>7. /\ \A q \in Queues : ~InReady(q, n)
      /\ \A p \in Tasks : ~InWait(p, n) /\ ~InWait(n, p)
  <2>1. Alone(n) /\ ~Active(n)
    BY <1>1 DEF IInv, Spots, Active
  <2>2. \A p \in Tasks : ~InWait(n, p)
    BY <1>1, <2>1 DEF IInv, Known, WaitsOnActive
  <2> QED
    BY <2>1, <2>2 DEF Alone
<1>8. Futures(n) = {} /\ Entries(n) = {} /\ Respawning(n) = {} /\ Releasing(n) = {}
  BY <1>1, Referenced
<1>9. \A o \in Owners : n \notin holds[o]
  BY <1>8 DEF Futures
<1>10. \A t \in Tasks : m_predecessor[t] # n
  BY <1>1, <1>2, PredecessorIsHeld
<1>11. \A t \in Tasks : \A i \in NonNull(t) : vla[t][i] # n
  BY <1>2, EntryIsLive
<1> QED
  BY <1>1, <1>2, <1>3, <1>5, <1>6, <1>7, <1>8, <1>9, <1>10, <1>11

(* What Spawn and WhenAll share: user code o on thread a creates task n    *)
(* and calls c.                                                            *)
Creates(a, o, n, kind, p, s, copies, c) ==
    /\ Running(a) /\ o = Top(a).task /\ n = allocated + 1 /\ allocated < MaxTasks
    /\ a = Main => waits < MaxWaits
    /\ kind \in {"runnable", "aggregate"}
    /\ kind = "runnable" => s = << >>
    /\ kind = "aggregate" => p = Null /\ copies = {}
    /\ p \in holds[o] \cup {Null} /\ copies \subseteq holds[o]
    /\ s \in Seq(Owners) /\ Len(s) <= MaxVla /\ \A i \in 1..Len(s) : s[i] \in holds[o] \cup {Null}
    /\ allocated' = n
    /\ live' = live \cup {n}
    /\ task_type' = [task_type EXCEPT ![n] = kind]
    /\ m_ref_count' \in [Tasks -> Nat] /\ \A t \in Tasks : t > n => m_ref_count'[t] = 0
    /\ m_predecessor' = [m_predecessor EXCEPT ![n] = p]
    /\ vla' = [vla EXCEPT ![n] = s]
    /\ queue_index' \in [Tasks -> Queues]
    /\ holds' = [holds EXCEPT ![o] = @ \cup {n}, ![n] = copies]
    /\ after' = [after EXCEPT ![n] = ({p} \cup {s[i] : i \in 1..Len(s)}) \ {Null}]
    /\ c.at = (IF kind = "runnable" THEN "schedule" ELSE "aggregate") /\ c.task = n
    /\ c.pred = Null /\ Inj(c.rest)
    /\ NewTops(a, Top(a), c)
    /\ UNCHANGED <<m_wait_queue, consumed, m_is_respawning, m_ready_queues, m_ready_count,
                   where, phase, waits>>

(* The same, variable by variable. *)
CreateFacts(a, o, n, kind, p, s, copies) ==
    /\ TypeOK /\ stack[a] # << >> /\ Top(a).at = "user" /\ Depth(a) = 1
    /\ o \in Owners /\ o \in 0..allocated /\ o # n
    /\ o \in Tasks => task_type[o] = "runnable" /\ ~consumed[o]
    /\ a # Main => o # HostCode
    /\ p \in Owners /\ (p # Null => p \in Tasks /\ p <= allocated)
    /\ n \in Tasks /\ n # Null
    /\ \A t \in holds[o] : t \in Tasks /\ t <= allocated /\ t # n
    /\ \A t \in Tasks : task_type'[t] = IF t = n THEN kind ELSE task_type[t]
    /\ \A t \in Tasks : m_predecessor'[t] = IF t = n THEN p ELSE m_predecessor[t]
    /\ \A t \in Tasks : vla'[t] = IF t = n THEN s ELSE vla[t]
    /\ \A t \in Owners : holds'[t] = IF t = n THEN copies ELSE IF t = o THEN holds[o] \cup {n} ELSE holds[t]
    /\ \A t \in Tasks : after'[t] = IF t = n THEN ({p} \cup {s[i] : i \in 1..Len(s)}) \ {Null} ELSE after[t]

(* What creating a task does, variable by variable. *)
LEMMA CreateBasics ==
    ASSUME IInv, NEW a \in Actors, NEW o, NEW n, NEW kind, NEW p, NEW s, NEW copies, NEW c,
           Creates(a, o, n, kind, p, s, copies, c)
    PROVE  CreateFacts(a, o, n, kind, p, s, copies) /\ TypeOK'
<1> USE DEF Creates
<1>1. TypeOK /\ stack[a] # << >> /\ Top(a).at = "user"
  BY DEF IInv, Running, At
<1>2. n \in Tasks /\ n \notin 0..allocated /\ n # Null /\ n # HostCode
  BY Fresh
<1>3. FrameOK(a, Depth(a), Top(a)) /\ Depth(a) \in Nat \ {0}
  BY <1>1, TopFacts
<1>4. Depth(a) = 1
  BY <1>1, <1>3, SMTT(20) DEF FrameOK
<1>5. /\ o \in 0..allocated /\ o \in Owners /\ o # n /\ (a # Main => o # HostCode)
  <2>1. \A m \in 0..allocated : m \in Owners
    BY <1>1, Basics, SMTT(20) DEF TypeOK
  <2> QED
    BY <1>2, <1>3, <1>4, <2>1 DEF FrameOK
<1>6. o \in Tasks => task_type[o] = "runnable" /\ ~consumed[o]
  <2> SUFFICES ASSUME o \in Tasks PROVE task_type[o] = "runnable" /\ ~consumed[o]
    OBVIOUS
  <2>1. InFrame(<<a, Depth(a)>>, o) /\ <<a, Depth(a)>> \in FramePlaces
    <3>1. HoldsTask(Top(a), o)
      BY <1>1 DEF HoldsTask
    <3> QED
      BY <1>1, <3>1, TopFacts
  <2>2. Active(o)
    BY <2>1, PlacedIsLive
  <2>3. o # HostCode
    BY <1>1, Basics
  <2> QED
    BY <1>1, <1>3, <1>4, <2>2, <2>3 DEF FrameOK, Active
<1>7. \A t \in holds[o] : t \in Tasks /\ t <= allocated /\ t # n
  <2> SUFFICES ASSUME NEW t \in holds[o] PROVE t \in Tasks /\ t <= allocated /\ t # n
    OBVIOUS
  <2>1. t \in Tasks
    BY <1>1, <1>5 DEF TypeOK
  <2>2. t \in live /\ t # n
    BY <1>5, <2>1, PlacedIsLive, Fresh, SMTT(20)
  <2> QED
    BY <2>1, <2>2, LiveIsCreated
<1>8. p \in Owners /\ (p # Null => p \in Tasks /\ p <= allocated)
  BY <1>7 DEF Owners, HostCode, Null
<1>9. /\ \A t \in Tasks : task_type'[t] = IF t = n THEN kind ELSE task_type[t]
      /\ \A t \in Tasks : m_predecessor'[t] = IF t = n THEN p ELSE m_predecessor[t]
      /\ \A t \in Tasks : vla'[t] = IF t = n THEN s ELSE vla[t]
      /\ task_type' \in [Tasks -> {"runnable", "aggregate"}]
      /\ m_predecessor' \in [Tasks -> Owners] /\ vla' \in [Tasks -> Seq(Owners)]
  BY <1>1, <1>2, <1>8 DEF TypeOK
<1>10. /\ \A t \in Owners : holds'[t] = IF t = n THEN copies ELSE IF t = o THEN holds[o] \cup {n} ELSE holds[t]
       /\ holds' \in [Owners -> SUBSET Tasks]
  <2>1. holds \in [Owners -> SUBSET Tasks] /\ n \in Owners
    BY <1>1, <1>2 DEF TypeOK, Owners
  <2>2. copies \in SUBSET Tasks /\ holds[o] \cup {n} \in SUBSET Tasks
    BY <1>2, <1>7
  <2> QED
    BY <1>5, <2>1, <2>2
<1>11. /\ \A t \in Tasks : after'[t] = IF t = n THEN ({p} \cup {s[i] : i \in 1..Len(s)}) \ {Null} ELSE after[t]
       /\ after' \in [Tasks -> SUBSET Tasks]
  <2>1. after \in [Tasks -> SUBSET Tasks]
    BY <1>1 DEF TypeOK
  <2>2. ({p} \cup {s[i] : i \in 1..Len(s)}) \ {Null} \in SUBSET Tasks
    BY <1>7, <1>8, SMTT(20)
  <2> QED
    BY <1>2, <2>1, <2>2
<1>12. TypeOK'
  <2>1. allocated' \in 0..MaxTasks /\ live' \subseteq Tasks
    BY <1>1, <1>2, SMTT(20) DEF TypeOK, Tasks
  <2> QED
    BY <1>1, <1>9, <1>10, <1>11, <2>1 DEF TypeOK, NewTops, StepOf
<1> QED
  BY <1>1, <1>2, <1>4, <1>5, <1>6, <1>7, <1>8, <1>9, <1>10, <1>11, <1>12 DEF CreateFacts

(* Creating a task: it is in the hands of its creator, all others stay. *)
LEMMA CreateSpots ==
    ASSUME IInv, NEW a \in Actors, NEW o, NEW n, NEW kind, NEW p, NEW s, NEW copies, NEW c,
           Creates(a, o, n, kind, p, s, copies, c)
    PROVE  Shape' /\ Spots'
<1> PICK y, z : y = <<a, Depth(a)>> /\ z = <<a, Depth(a) + 1>>
  OBVIOUS
<1>1. CreateFacts(a, o, n, kind, p, s, copies)
  BY CreateBasics
<1>2. /\ n = allocated + 1 /\ allocated' = n /\ allocated \in Nat /\ NewTops(a, Top(a), c)
      /\ UNCHANGED <<m_wait_queue, consumed, m_ready_queues>>
      /\ c.at = (IF kind = "runnable" THEN "schedule" ELSE "aggregate") /\ c.task = n
      /\ c.pred = Null /\ Inj(c.rest) /\ kind \in {"runnable", "aggregate"}
  BY <1>1, Basics DEF Creates, CreateFacts
<1>3. /\ n \in Tasks /\ n # Null /\ n # HostCode /\ Null \in 0..n /\ n \in 0..n /\ ~consumed[n]
      /\ \A q \in Queues : ~InReady(q, n)
      /\ \A r \in Tasks : ~InWait(r, n)
      /\ \A x : ~InFrame(x, n)
  <2>1. allocated < MaxTasks
    BY DEF Creates
  <2> QED
    BY <1>2, <2>1, Fresh, SMTT(20) DEF Null
<1>4. Depth(a) = 1 /\ y \in FramePlaces /\ FrameAt(y) = Top(a) /\ z \notin FramePlaces
  BY <1>1, <1>2, TopFacts DEF CreateFacts, NewTops
<1>5. Shape'
  <2>1. \A x : FrameAt(x)' = c /\ x[1] = a /\ x[2] = Depth(a) + 1 => FrameOK(x[1], x[2], FrameAt(x))'
    BY <1>1, <1>2, <1>3, <1>4, SMTT(20) DEF FrameOK, CreateFacts
  <2>2. \A x \in FramePlaces' : \/ x \in FramePlaces /\ FrameAt(x)' = FrameAt(x)
                                \/ FrameOK(x[1], x[2], FrameAt(x))'
    <3>1. \A x : FrameAt(x)' = Top(a) /\ x[1] = a /\ x[2] = Depth(a) => FrameOK(x[1], x[2], FrameAt(x))'
      <4>1. FrameOK(a, Depth(a), Top(a)) /\ Top(a).at = "user"
        BY <1>1, <1>4, TopFacts DEF CreateFacts
      <4>2. Top(a).task = o /\ (o # HostCode => o \in Tasks /\ o # n) /\ o \in 0..allocated
        BY <1>1 DEF Creates, CreateFacts, Owners
      <4>3. \A m \in 0..allocated : m \in 0..n
        BY <1>2, SMTT(20)
      <4>4. o # HostCode => task_type'[o] = task_type[o]
        BY <1>1, <4>2 DEF CreateFacts
      <4> QED
        BY <1>2, <1>4, <4>1, <4>2, <4>3, <4>4 DEF FrameOK
    <3> QED
      BY <1>2, <2>1, <3>1 DEF NewTops
  <2>3. \A t \in Tasks : t <= allocated => task_type'[t] = task_type[t]
    <3> SUFFICES ASSUME NEW t \in Tasks, t <= allocated PROVE task_type'[t] = task_type[t]
      OBVIOUS
    <3>1. t # n
      BY <1>2, SMTT(20)
    <3> QED
      BY <1>1, <3>1 DEF CreateFacts
  <2>4. allocated' \in Nat /\ allocated <= allocated' /\ stack'[Main] # << >>
    BY <1>2, SMTT(20) DEF NewTops
  <2> QED
    BY <1>2, <2>2, <2>3, <2>4, ShapeStep
<1>6. \A u : HoldsTask(c, u) <=> u = n
  BY <1>2 DEF HoldsTask
<1>7. ASSUME NEW u \in Tasks, u # n PROVE Alone(u)'
  <2>1. \A x : InFrame(x, u)' <=> InFrame(x, u)
    BY <1>2, <1>4, <1>6, <1>7, SMTT(20) DEF NewTops, InFrame
  <2>2. Active(u)' <=> Active(u)
    <3>1. u \in Nat
      BY <1>1, Basics DEF CreateFacts
    <3> QED
      BY <1>2, <1>7, <3>1, SMTT(20) DEF Active
  <2> QED
    BY <1>2, <2>1, <2>2, AloneSame DEF IInv, Spots, InReady, InWait
<1>8. Alone(n)'
  <2>1. \A x : InFrame(x, n)' <=> x = z
    BY <1>2, <1>3, <1>4, <1>6, SMTT(20) DEF NewTops, InFrame
  <2>2. Active(n)' /\ z \in FramePlaces'
    BY <1>2, <1>3, SMTT(20) DEF Active, NewTops
  <2>3. (\A q \in Queues : ~InReady(q, n)') /\ (\A r \in Tasks : ~InWait(r, n)')
    BY <1>2, <1>3 DEF InReady, InWait
  <2> QED
    BY <2>1, <2>2, <2>3, SMTT(20) DEF Alone
<1>9. \A x \in FramePlaces' : Inj(FrameAt(x)'.rest)
  <2>1. Inj(Top(a).rest)
    BY <1>4 DEF IInv, Spots
  <2> QED
    BY <1>2, <2>1, RestsStep DEF NewTops
<1> QED
  BY <1>2, <1>5, <1>7, <1>8, <1>9 DEF IInv, Spots

(* Creating a task: what is known of it and of its creator. *)
LEMMA CreateKnown ==
    ASSUME IInv, NEW a \in Actors, NEW o, NEW n, NEW kind, NEW p, NEW s, NEW copies, NEW c,
           Creates(a, o, n, kind, p, s, copies, c)
    PROVE  Known'
<1> PICK y, z : y = <<a, Depth(a)>> /\ z = <<a, Depth(a) + 1>>
  OBVIOUS
<1>1. CreateFacts(a, o, n, kind, p, s, copies) /\ NewTops(a, Top(a), c)
  BY CreateBasics DEF Creates
<1>2. /\ n = allocated + 1 /\ allocated' = n /\ allocated \in Nat
      /\ UNCHANGED <<m_wait_queue, consumed, m_ready_queues, m_is_respawning>>
      /\ c.at = (IF kind = "runnable" THEN "schedule" ELSE "aggregate") /\ c.task = n
      /\ kind \in {"runnable", "aggregate"} /\ o = Top(a).task
  BY <1>1, Basics DEF Creates, CreateFacts
<1>3. /\ n \in Tasks /\ n > allocated /\ n # Null /\ n # HostCode /\ ~consumed[n] /\ Settled(n)
      /\ (\A q \in Queues : ~InReady(q, n)) /\ (\A r \in Tasks : ~InWait(r, n))
  <2>1. allocated < MaxTasks
    BY DEF Creates
  <2> QED
    BY <1>2, <2>1, Fresh
<1>4. /\ y \in FramePlaces /\ FrameAt(y) = Top(a) /\ FrameKnows(a, Depth(a), Top(a))
      /\ stack[a] # << >> /\ Top(a).at = "user" /\ Depth(a) = 1
  BY <1>1, TopFacts DEF CreateFacts
<1>5. /\ \A t \in Tasks : t # n => m_predecessor'[t] = m_predecessor[t]
      /\ m_predecessor'[n] = p
  BY <1>1 DEF CreateFacts
<1>6. FramesKnow'
  <2>1. \A x : x[1] = a /\ x[2] = Depth(a) /\ FrameAt(x)' = Top(a) => FrameKnows(x[1], x[2], FrameAt(x))'
    <3>1. o # HostCode => o \in Tasks /\ o # n
      BY <1>1 DEF CreateFacts, Owners
    <3>2. o # HostCode /\ ~m_is_respawning[o] => m_predecessor[o] = Null
      BY <1>2, <1>4 DEF FrameKnows
    <3> QED
      BY <1>2, <1>4, <1>5, <3>1, <3>2 DEF FrameKnows
  <2>2. \A x : x[1] = a /\ x[2] = Depth(a) + 1 /\ FrameAt(x)' = c => FrameKnows(x[1], x[2], FrameAt(x))'
    <3>1. \A d : d = Depth(a) + 1 /\ p # Null => Kept(a, d, p)'
      <4>1. p # Null => p \in holds'[o]
        <5>1. p \in holds[o] \cup {Null}
          BY DEF Creates
        <5>2. holds'[o] = holds[o] \cup {n}
          BY <1>1 DEF CreateFacts
        <5> QED
          BY <5>1, <5>2
      <4>2. stack'[a][1] = Top(a)
        <5>1. FrameAt(<<a, 1>>)' = Top(a)
          BY <1>1, <1>4 DEF NewTops
        <5> QED
          BY <5>1 DEF FrameAt
      <4> QED
        BY <1>2, <1>4, <4>1, <4>2, SMTT(20) DEF Kept
    <3> QED
      BY <1>2, <1>5, <3>1 DEF FrameKnows
  <2>3. \A x \in FramePlaces' : \/ x \in FramePlaces /\ x # <<a, Depth(a)>>
                                \/ FrameKnows(x[1], x[2], FrameAt(x))'
    BY <1>1, <2>1, <2>2 DEF NewTops
  <2>4. /\ StepOf(a)
        /\ \A t \in Tasks : t <= allocated /\ t # Top(a).task =>
               m_predecessor'[t] = m_predecessor[t] /\ m_is_respawning'[t] = m_is_respawning[t]
    BY <1>1, <1>2, <1>5, SMTT(20) DEF NewTops
  <2>5. \A u \in Owners : u <= allocated /\ u # Top(a).task => holds'[u] = holds[u]
    BY <1>1, <1>2, SMTT(20) DEF CreateFacts
  <2> QED
    BY <1>4, <2>3, <2>4, <2>5, KnowTop
<1>7. Homes'
  <2>1. Home(o)'
    BY <1>1, <1>2, <1>4 DEF Home, NewTops
  <2>2. Settled(n)' \/ Home(n)'
    <3>1. CASE kind = "runnable"
      <4>1. z \in FramePlaces' /\ FrameAt(z)' = c
        BY <1>1 DEF NewTops
      <4> QED
        BY <1>2, <3>1, <4>1 DEF Home
    <3>2. CASE kind = "aggregate"
      <4>1. p = Null
        BY <3>2 DEF Creates
      <4> QED
        BY <1>2, <1>3, <1>5, <4>1 DEF Settled
    <3> QED
      BY <1>2, <3>1, <3>2
  <2>3. \A t \in Tasks : Settled(t) => Settled(t)' \/ Home(t)'
    BY <1>2, <1>5, <2>2 DEF Settled
  <2>4. StepOf(a)
    BY <1>1 DEF NewTops
  <2> QED
    BY <1>2, <1>4, <2>1, <2>3, <2>4, HomesStep
<1>8. WaitsOnActive'
  <2>1. \A r \in Tasks : r \in Nat
    BY <1>1, Basics DEF CreateFacts
  <2> QED
    BY <1>2, <2>1, SMTT(20), Z3T(20) DEF IInv, Known, WaitsOnActive, InWait, Active
<1>9. ReadyRunnable'
  BY <1>1, <1>2, <1>3 DEF IInv, Known, ReadyRunnable, InReady, CreateFacts
<1>10. Kinds'
  <2>1. Kinds
    BY DEF IInv, Known
  <2>2. ASSUME NEW t \in Tasks, t # n
        PROVE  /\ task_type'[t] = "runnable" => vla'[t] = << >>
               /\ task_type'[t] = "aggregate" => holds'[t] = {}
               /\ consumed[t] => holds'[t] = {} /\ NonNull(t)' = {}
               /\ Len(vla'[t]) <= MaxVla
               /\ t > n => /\ holds'[t] = {} /\ vla'[t] = << >> /\ ~consumed[t]
                           /\ after'[t] = {} /\ m_ref_count'[t] = 0
    <3>1. /\ task_type'[t] = task_type[t] /\ vla'[t] = vla[t] /\ after'[t] = after[t]
          /\ t # o => holds'[t] = holds[t]
          /\ t = o => task_type[t] = "runnable" /\ ~consumed[t] /\ t <= allocated
          /\ t > n => t > allocated /\ t # o
      <4>1. t \in Nat /\ t \in Owners
        BY <1>1, Basics DEF CreateFacts, Owners
      <4>2. t = o => t <= allocated
        BY <1>1, SMTT(20), Z3T(20) DEF CreateFacts
      <4>3. task_type'[t] = task_type[t] /\ vla'[t] = vla[t] /\ after'[t] = after[t]
        BY <1>1, <2>2 DEF CreateFacts
      <4>4. t # o => holds'[t] = holds[t]
        BY <1>1, <2>2, <4>1 DEF CreateFacts
      <4>5. t = o => task_type[t] = "runnable" /\ ~consumed[t]
        BY <1>1 DEF CreateFacts
      <4>6. t > n => t > allocated /\ ~(t <= allocated)
        BY <1>2, <4>1, SMTT(20), Z3T(20)
      <4> QED
        BY <4>2, <4>3, <4>4, <4>5, <4>6
    <3>2. NonNull(t)' = NonNull(t)
      BY <3>1 DEF NonNull
    <3>3. t > n => m_ref_count'[t] = 0
      BY DEF Creates
    <3> QED
      BY <2>1, <3>1, <3>2, <3>3 DEF Kinds
  <2>3. /\ task_type'[n] = "runnable" => vla'[n] = << >>
        /\ task_type'[n] = "aggregate" => holds'[n] = {}
        /\ ~consumed[n] /\ Len(vla'[n]) <= MaxVla /\ ~(n > n)
    <3>1. task_type'[n] = kind /\ vla'[n] = s /\ holds'[n] = copies
      BY <1>1, <1>3 DEF CreateFacts, Owners
    <3> QED
      BY <1>2, <1>3, <3>1, SMTT(20), Z3T(20) DEF Creates
  <2> QED
    BY <1>2, <2>2, <2>3 DEF Kinds
<1> QED
  BY <1>6, <1>7, <1>8, <1>9, <1>10 DEF Known

(* Creating a task: it ranks between what its creator holds and its creator. *)
LEMMA CreateRank ==
    ASSUME IInv, NEW a \in Actors, NEW o, NEW n, NEW kind, NEW p, NEW s, NEW copies, NEW c,
           Creates(a, o, n, kind, p, s, copies, c)
    PROVE  Rank'
<1>1. CreateFacts(a, o, n, kind, p, s, copies)
  BY CreateBasics
<1>2. /\ p \in holds[o] \cup {Null} /\ copies \subseteq holds[o] /\ UNCHANGED m_wait_queue
      /\ \A i \in 1..Len(s) : s[i] \in holds[o] \cup {Null}
  BY DEF Creates
<1>3. /\ n \in Tasks /\ n # Null
      /\ \A r \in Tasks : ~InWait(r, n) /\ ~InWait(n, r)
      /\ \A u \in Owners : n \notin holds[u]
      /\ \A t \in Tasks : m_predecessor[t] # n
      /\ \A t \in Tasks : \A i \in NonNull(t) : vla[t][i] # n
  BY Fresh DEF Creates
<1>4. PICK rank \in Ranks :
       /\ \A u \in Owners : \A t \in holds[u] : rank[t] < rank[u]
       /\ \A t \in Tasks : m_predecessor[t] # Null => rank[m_predecessor[t]] < rank[t]
       /\ \A t \in Tasks : \A i \in NonNull(t) : rank[vla[t][i]] < rank[t]
       /\ \A r, t \in Tasks : InWait(r, t) => rank[r] < rank[t]
  BY DEF IInv, Rank
<1>5. PICK new \in Ranks : \A u \in Owners : new[u] = IF u = n THEN 2 * rank[o] ELSE 2 * rank[u] + 1
  <2>1. rank[o] \in Nat /\ \A u \in Owners : rank[u] \in Nat
    BY <1>1, <1>4 DEF Ranks, CreateFacts
  <2>2. [u \in Owners |-> IF u = n THEN 2 * rank[o] ELSE 2 * rank[u] + 1] \in Ranks
    BY <2>1, SMTT(20), Z3T(20) DEF Ranks
  <2> QED
    BY <2>2
<1>6. /\ \A t, u \in Owners : t # n /\ u # n /\ rank[t] < rank[u] => new[t] < new[u]
      /\ new[n] < new[o]
      /\ \A t \in holds[o] : new[t] < new[n]
      /\ \A t \in Tasks : t \in Owners
  <2>1. rank[o] \in Nat /\ o \in Owners /\ o # n /\ n \in Owners /\ \A u \in Owners : rank[u] \in Nat
    BY <1>1, <1>3, <1>4 DEF Ranks, CreateFacts, Owners
  <2>2. \A t \in holds[o] : t \in Owners /\ t # n
    BY <1>1 DEF CreateFacts, Owners
  <2>3. \A t \in Tasks : t \in Owners
    BY DEF Owners
  <2>4. \A t, u \in Owners : t # n /\ u # n /\ rank[t] < rank[u] => new[t] < new[u]
    BY <1>5, <2>1, SMTT(20), Z3T(20)
  <2>5. new[n] < new[o]
    BY <1>5, <2>1, SMTT(20), Z3T(20)
  <2>6. \A t \in holds[o] : new[t] < new[n]
    <3> SUFFICES ASSUME NEW t \in holds[o] PROVE new[t] < new[n]
      OBVIOUS
    <3>1. rank[t] < rank[o] /\ new[t] = 2 * rank[t] + 1 /\ new[n] = 2 * rank[o] /\ rank[t] \in Nat
      BY <1>4, <1>5, <2>1, <2>2
    <3> QED
      BY <2>1, <3>1, SMTT(20), Z3T(20)
  <2> QED
    BY <2>3, <2>4, <2>5, <2>6
<1>7. \A u \in Owners : \A t \in holds'[u] : new[t] < new[u]
  <2> SUFFICES ASSUME NEW u \in Owners, NEW t \in holds'[u] PROVE new[t] < new[u]
    OBVIOUS
  <2>1. holds \in [Owners -> SUBSET Tasks]
    BY <1>1 DEF CreateFacts, TypeOK
  <2>2. CASE u = n
    BY <1>1, <1>2, <1>6, <2>2 DEF CreateFacts
  <2>3. CASE u = o /\ t = n
    BY <1>6, <2>3
  <2>4. CASE u # n /\ t \in holds[u]
    <3>1. rank[t] < rank[u] /\ t \in Owners /\ t # n
      BY <1>3, <1>4, <1>6, <2>1, <2>4
    <3> QED
      BY <1>6, <2>4, <3>1
  <2> QED
    BY <1>1, <2>2, <2>3, <2>4 DEF CreateFacts
<1>8. \A t \in Tasks : m_predecessor'[t] # Null => new[m_predecessor'[t]] < new[t]
  <2> SUFFICES ASSUME NEW t \in Tasks, m_predecessor'[t] # Null PROVE new[m_predecessor'[t]] < new[t]
    OBVIOUS
  <2>1. CASE t = n
    BY <1>1, <1>2, <1>6, <2>1 DEF CreateFacts
  <2>2. CASE t # n
    <3>1. m_predecessor'[t] = m_predecessor[t] /\ m_predecessor[t] \in Owners
      BY <1>1, <2>2 DEF CreateFacts, TypeOK
    <3> QED
      BY <1>3, <1>4, <1>6, <2>2, <3>1
  <2> QED
    BY <2>1, <2>2
<1>9. \A t \in Tasks : \A i \in NonNull(t)' : new[vla'[t][i]] < new[t]
  <2> SUFFICES ASSUME NEW t \in Tasks, NEW i \in NonNull(t)' PROVE new[vla'[t][i]] < new[t]
    OBVIOUS
  <2>1. CASE t = n
    <3>1. vla'[t] = s
      BY <1>1, <2>1 DEF CreateFacts
    <3>2. vla'[t][i] \in holds[o]
      BY <1>2, <3>1 DEF NonNull
    <3> QED
      BY <1>6, <2>1, <3>2
  <2>2. CASE t # n
    <3>1. vla'[t] = vla[t] /\ vla[t] \in Seq(Owners)
      BY <1>1, <2>2 DEF CreateFacts, TypeOK
    <3>2. i \in NonNull(t) /\ vla[t][i] \in Owners
      BY <3>1, SMTT(20), Z3T(20) DEF NonNull
    <3> QED
      BY <1>3, <1>4, <1>6, <2>2, <3>1, <3>2
  <2> QED
    BY <2>1, <2>2
<1>10. \A r, t \in Tasks : InWait(r, t)' => new[r] < new[t]
  BY <1>2, <1>3, <1>4, <1>6 DEF InWait
<1> QED
  BY <1>5, <1>7, <1>8, <1>9, <1>10 DEF Rank

(* Where the new aggregate n has entries that are t. *)
OccursAt(n, s, t) == {<<n, i>> : i \in {i \in 1..Len(s) : s[i] = t}}

(* There are as many pairs with n as there are elements to pair it with. *)
LEMMA PairsWith ==
    ASSUME IInv, NEW n, NEW S, IsFiniteSet(S), NEW T, T = {n} \X S
    PROVE  IsFiniteSet(T) /\ Cardinality(T) = Cardinality(S)
<1>1. {n} = {} \cup {n} /\ n \notin {}
  OBVIOUS
<1>2. IsFiniteSet({n})
  BY <1>1, EmptySet, OneMore
<1> QED
  BY <1>2 DEF IInv, SetFacts

(* Sets with no element in common add up. *)
LEMMA DisjointUnion ==
    ASSUME IInv, NEW S, NEW T, IsFiniteSet(S), IsFiniteSet(T), S \cap T = {}, NEW U, U = S \cup T
    PROVE  Cardinality(U) = Cardinality(S) + Cardinality(T)
BY DEF IInv, SetFacts

(* The entries of an aggregate that are some task. *)
LEMMA OccurrencesAt ==
    ASSUME IInv, NEW n, NEW s \in Seq(Owners), NEW t, NEW E, E = OccursAt(n, s, t)
    PROVE  IsFiniteSet(E) /\ Cardinality(E) = Occurrences(s, t) /\ Occurrences(s, t) \in Nat
<1>0. PICK I : I = {i \in 1..Len(s) : s[i] = t}
  OBVIOUS
<1>1. IsFiniteSet(I)
  <2>1. Len(s) \in Nat /\ I \in SUBSET (1..Len(s))
    BY <1>0, SMTT(20), Z3T(20)
  <2> QED
    BY <2>1, IntervalIsFinite, SubsetIsFinite
<1>2. E = {n} \X I
  BY <1>0, SMTT(20), Z3T(20) DEF OccursAt
<1>3. IsFiniteSet(E) /\ Cardinality(E) = Cardinality(I)
  BY <1>1, <1>2, PairsWith
<1>4. Occurrences(s, t) = Cardinality(I)
  BY <1>0 DEF Occurrences
<1> QED
  BY <1>1, <1>3, <1>4, CardinalityIsNat

(* The references that creating n adds. *)
CreatesCounted(n, s, copies) ==
    \A t \in Tasks : m_ref_count'[t] =
        IF t = n THEN 2 ELSE m_ref_count[t] + (IF t \in copies THEN 1 ELSE 0) + Occurrences(s, t)

(* What the references to a task that is not new become. *)
LEMMA CreateOther ==
    ASSUME IInv, NEW a \in Actors, NEW o, NEW n, NEW kind, NEW p, NEW s, NEW copies, NEW c,
           Creates(a, o, n, kind, p, s, copies, c), NEW u \in Tasks, u # n
    PROVE  /\ Cardinality(Futures(u)') = Cardinality(Futures(u)) + (IF u \in copies THEN 1 ELSE 0)
           /\ Cardinality(Entries(u)') = Cardinality(Entries(u)) + Occurrences(s, u)
           /\ Occurrences(s, u) \in Nat
<1>1. CreateFacts(a, o, n, kind, p, s, copies)
  BY CreateBasics
<1>2. s \in Seq(Owners) /\ Len(s) <= MaxVla /\ n = allocated + 1 /\ allocated' = n /\ allocated \in Nat
  BY <1>1, Basics DEF Creates, CreateFacts
<1>3. n \in Tasks /\ n \notin 0..allocated /\ holds[n] = {}
  BY Fresh DEF Creates
<1>4. TypeOK
  BY DEF IInv
<1>5. IsFiniteSet(Futures(u)) /\ IsFiniteSet(Entries(u))
  BY <1>4, RefsFinite
<1>6. Cardinality(Futures(u)') = Cardinality(Futures(u)) + (IF u \in copies THEN 1 ELSE 0)
  <2>1. \A v \in Owners : u \in holds'[v] <=> IF v = n THEN u \in copies ELSE u \in holds[v]
    BY <1>1, SMTT(20), Z3T(20) DEF CreateFacts
  <2>2. n \in Owners /\ n \notin Futures(u)
    BY <1>3 DEF Owners, Futures
  <2>3. CASE u \in copies
    <3>1. Futures(u)' = Futures(u) \cup {n}
      BY <2>1, <2>2, <2>3 DEF Futures
    <3> QED
      BY <1>5, <2>2, <2>3, <3>1, OneMore
  <2>4. CASE u \notin copies
    <3>1. Futures(u)' = Futures(u)
      BY <1>3, <2>1, <2>4 DEF Futures
    <3>2. Cardinality(Futures(u)) \in Nat
      BY <1>5, CardinalityIsNat
    <3> QED
      BY <2>4, <3>1, <3>2, SMTT(20), Z3T(20)
  <2> QED
    BY <2>3, <2>4
<1>7. PICK E : E = OccursAt(n, s, u)
  OBVIOUS
<1>8. IsFiniteSet(E) /\ Cardinality(E) = Occurrences(s, u) /\ Occurrences(s, u) \in Nat
  BY <1>2, <1>7, OccurrencesAt
<1>9. Entries(u)' = Entries(u) \cup E
  <2>1. \A t \in Tasks : vla'[t] = IF t = n THEN s ELSE vla[t]
    BY <1>1 DEF CreateFacts
  <2>2. Created' = Created \cup {n} /\ n \notin Created /\ Created \subseteq Tasks
    <3>1. allocated \in 0..MaxTasks /\ MaxTasks \in Nat
      BY <1>4, Basics DEF TypeOK
    <3> QED
      BY <1>2, <3>1, SMTT(20), Z3T(20) DEF Created, Tasks
  <2>3. MaxVla \in Nat /\ Len(s) \in Nat
    BY <1>2, BoundsAssumption, SMTT(20), Z3T(20)
  <2>4. \A e \in Created' \X (1..MaxVla) : e \in Entries(u)' <=> e \in Entries(u) \cup E
    <3> SUFFICES ASSUME NEW t \in Created', NEW i \in 1..MaxVla
                 PROVE  <<t, i>> \in Entries(u)' <=> <<t, i>> \in Entries(u) \cup E
      BY SMTT(20), Z3T(20)
    <3>1. <<t, i>> \in Entries(u)' <=> i <= Len(vla'[t]) /\ vla'[t][i] = u
      BY DEF Entries
    <3>2. CASE t = n
      <4>1. <<t, i>> \notin Entries(u) /\ vla'[t] = s
        BY <1>3, <2>1, <2>2, <3>2 DEF Entries
      <4>2. <<t, i>> \in E <=> i \in 1..Len(s) /\ s[i] = u
        BY <1>7, <3>2 DEF OccursAt
      <4> QED
        BY <2>3, <3>1, <4>1, <4>2, SMTT(20), Z3T(20)
    <3>3. CASE t # n
      <4>1. <<t, i>> \notin E /\ vla'[t] = vla[t] /\ t \in Created
        BY <1>7, <2>1, <2>2, <3>3 DEF OccursAt
      <4>2. <<t, i>> \in Entries(u) <=> i <= Len(vla[t]) /\ vla[t][i] = u
        BY <4>1 DEF Entries
      <4> QED
        BY <3>1, <4>1, <4>2
    <3> QED
      BY <3>2, <3>3
  <2>5. Entries(u)' \subseteq Created' \X (1..MaxVla) /\ Entries(u) \subseteq Created' \X (1..MaxVla)
    BY <2>2 DEF Entries
  <2>6. E \subseteq Created' \X (1..MaxVla)
    BY <1>2, <1>7, <2>2, <2>3, SMTT(20), Z3T(20) DEF OccursAt
  <2> QED
    BY <2>4, <2>5, <2>6
<1>10. Entries(u) \cap E = {}
  BY <1>2, <1>3, <1>7, SMTT(20), Z3T(20) DEF Entries, Created, OccursAt
<1>11. Cardinality(Entries(u)') = Cardinality(Entries(u)) + Occurrences(s, u)
  <2>1. Cardinality(Entries(u)') = Cardinality(Entries(u)) + Cardinality(E)
    BY <1>5, <1>8, <1>9, <1>10, DisjointUnion
  <2>2. Cardinality(Entries(u)) \in Nat
    BY <1>5, CardinalityIsNat
  <2> QED
    BY <1>8, <2>1, <2>2
<1> QED
  BY <1>6, <1>8, <1>11

(* Creating a task: the reference counts stay exact. *)
LEMMA CreateRefs ==
    ASSUME IInv, NEW a \in Actors, NEW o, NEW n, NEW kind, NEW p, NEW s, NEW copies, NEW c,
           Creates(a, o, n, kind, p, s, copies, c), CreatesCounted(n, s, copies)
    PROVE  Refs'
<1>1. CreateFacts(a, o, n, kind, p, s, copies) /\ NewTops(a, Top(a), c) /\ TypeOK'
  BY CreateBasics DEF Creates
<1>2. /\ n = allocated + 1 /\ allocated' = n /\ allocated \in Nat /\ live' = live \cup {n}
      /\ UNCHANGED <<consumed, m_is_respawning>> /\ copies \subseteq holds[o]
      /\ c.at \in {"schedule", "aggregate"} /\ Top(a).at = "user"
      /\ \A i \in 1..Len(s) : s[i] \in holds[o] \cup {Null}
  BY <1>1, Basics DEF Creates, CreateFacts
<1>3. /\ n \in Tasks /\ n # Null /\ n \notin 0..allocated /\ ~consumed[n] /\ Settled(n) /\ n \notin live
      /\ \A x : x \notin Releasing(n)
      /\ \A v \in Owners : n \notin holds[v]
      /\ \A t \in Tasks : m_predecessor[t] # n
      /\ \A t \in Tasks : \A i \in NonNull(t) : vla[t][i] # n
  BY Fresh DEF Creates
<1>4. TypeOK /\ \A t \in Tasks : m_ref_count[t] = RefSum(t) /\ (t \in live <=> m_ref_count[t] > 0)
  BY DEF IInv, Refs
<1>5. /\ \A t : Releasing(t)' = Releasing(t)
      /\ \A t : Completing(t)' = Completing(t)
  <2>1. <<a, Depth(a)>> \in FramePlaces /\ FrameAt(<<a, Depth(a)>>) = Top(a)
        /\ <<a, Depth(a) + 1>> \notin FramePlaces
    BY <1>1, TopFacts DEF CreateFacts, NewTops
  <2>2. \A x, t : x \in Releasing(t)' <=> x \in Releasing(t)
    BY <1>1, <1>2, <2>1 DEF NewTops, Releases, Releasing
  <2>3. \A x, t : x \in Completing(t)' <=> x \in Completing(t)
    BY <1>1, <1>2, <2>1 DEF NewTops, Completing
  <2>4. \A t : Releasing(t)' = Releasing(t)
    BY <2>2 DEF Releasing
  <2>5. \A t : Completing(t)' = Completing(t)
    BY <2>3 DEF Completing
  <2> QED
    BY <2>4, <2>5
<1>6. Created' = Created \cup {n} /\ Created \subseteq Tasks /\ n \notin Created
  <2>1. allocated \in 0..MaxTasks /\ MaxTasks \in Nat
    BY <1>4, Basics DEF TypeOK
  <2> QED
    BY <1>2, <2>1, SMTT(20), Z3T(20) DEF Created, Tasks
<1>7. ASSUME NEW u \in Tasks, u # n
      PROVE  m_ref_count'[u] = RefSum(u)' /\ (u \in live' <=> m_ref_count'[u] > 0)
  <2>1. /\ Cardinality(Futures(u)') = Cardinality(Futures(u)) + (IF u \in copies THEN 1 ELSE 0)
        /\ Cardinality(Entries(u)') = Cardinality(Entries(u)) + Occurrences(s, u)
        /\ Occurrences(s, u) \in Nat
    BY <1>7, CreateOther
  <2>2. Respawning(u)' = Respawning(u)
    <3>1. ~m_is_respawning[n]
      BY <1>3 DEF Settled
    <3>2. \A t \in Tasks : t # n => m_predecessor'[t] = m_predecessor[t]
      BY <1>1 DEF CreateFacts
    <3> QED
      BY <1>2, <1>6, <3>1, <3>2 DEF Respawning
  <2>3. Own(u)' = Own(u)
    <3>1. u \in Nat
      BY <1>4, Basics
    <3>2. u <= allocated' <=> u <= allocated
      BY <1>2, <1>7, <3>1, SMTT(20), Z3T(20)
    <3> QED
      BY <1>2, <1>5, <3>2 DEF Own
  <2>4. RefSum(u)' = Cardinality(Futures(u)') + Cardinality(Entries(u)')
                     + Cardinality(Respawning(u)') + Cardinality(Releasing(u)') + Own(u)'
    BY DEF RefSum
  <2>5. RefSum(u) = Cardinality(Futures(u)) + Cardinality(Entries(u))
                    + Cardinality(Respawning(u)) + Cardinality(Releasing(u)) + Own(u)
    BY DEF RefSum
  <2>6. /\ Cardinality(Futures(u)) \in Nat /\ Cardinality(Entries(u)) \in Nat
        /\ Cardinality(Respawning(u)) \in Nat /\ Cardinality(Releasing(u)) \in Nat
        /\ Own(u) \in Nat /\ m_ref_count[u] \in Nat
    <3>1. m_ref_count[u] \in Nat
      BY <1>4 DEF TypeOK
    <3>2. 0..1 \subseteq Nat
      BY SMTT(20), Z3T(20)
    <3> QED
      BY <3>1, <3>2, RefsAreNat
  <2>7. PICK k \in Nat : k = (IF u \in copies THEN 1 ELSE 0)
    OBVIOUS
  <2>8. m_ref_count'[u] = m_ref_count[u] + k + Occurrences(s, u)
    BY <1>7, <2>7 DEF CreatesCounted
  <2>9. RefSum(u)' = RefSum(u) + k + Occurrences(s, u)
    <3>1. Releasing(u)' = Releasing(u)
      BY <1>5
    <3> QED
      BY <2>1, <2>2, <2>3, <2>4, <2>5, <2>6, <2>7, <3>1, SMTT(20), Z3T(20)
  <2>10. m_ref_count'[u] = RefSum(u)'
    BY <1>4, <2>8, <2>9
  <2>11. u \in holds[o] => m_ref_count[u] > 0
    <3>1. u \in holds[o] => Futures(u) # {}
      BY <1>1 DEF CreateFacts, Futures
    <3> QED
      BY <3>1, Referenced, SMTT(20), Z3T(20)
  <2>12. u \notin holds[o] => k = 0 /\ Occurrences(s, u) = 0
    <3> SUFFICES ASSUME u \notin holds[o] PROVE k = 0 /\ Occurrences(s, u) = 0
      OBVIOUS
    <3>1. u # Null
      BY <1>4, Basics DEF Null, HostCode
    <3>2. {i \in 1..Len(s) : s[i] = u} = {}
      BY <1>2, <3>1
    <3> QED
      BY <1>2, <2>7, <3>2, EmptySet DEF Occurrences
  <2>13. u \in live' <=> m_ref_count[u] > 0
    BY <1>2, <1>4, <1>7
  <2> QED
    BY <2>1, <2>6, <2>8, <2>10, <2>11, <2>12, <2>13, SMTT(20), Z3T(20)
<1>8. m_ref_count'[n] = RefSum(n)' /\ n \in live' /\ m_ref_count'[n] = 2
  <2>1. Futures(n)' = {o}
    <3>1. \A v \in Owners : n \in holds'[v] <=> v = o
      <4>1. \A v \in Owners : holds'[v] = IF v = n THEN copies ELSE IF v = o THEN holds[o] \cup {n} ELSE holds[v]
        BY <1>1 DEF CreateFacts
      <4>2. o \in Owners /\ o # n /\ n \notin copies
        BY <1>1, <1>2, <1>3 DEF CreateFacts
      <4> QED
        BY <1>3, <4>1, <4>2
    <3>2. o \in Owners
      BY <1>1 DEF CreateFacts
    <3> QED
      BY <3>1, <3>2 DEF Futures
  <2>2. Entries(n)' = {}
    <3>1. \A t \in Tasks : \A i \in 1..Len(vla'[t]) : vla'[t][i] # n
      <4> SUFFICES ASSUME NEW t \in Tasks, NEW i \in 1..Len(vla'[t]) PROVE vla'[t][i] # n
        OBVIOUS
      <4>1. CASE t = n
        <5>1. vla'[t] = s /\ n \notin holds[o]
          BY <1>1, <4>1 DEF CreateFacts
        <5> QED
          BY <1>2, <1>3, <5>1
      <4>2. CASE t # n
        <5>1. vla'[t] = vla[t]
          BY <1>1, <4>2 DEF CreateFacts
        <5> QED
          BY <1>3, <5>1 DEF NonNull
      <4> QED
        BY <4>1, <4>2
    <3>2. \A t \in Tasks : Len(vla'[t]) \in Nat
      BY <1>1, SMTT(20), Z3T(20) DEF TypeOK
    <3>3. MaxVla \in Nat
      BY BoundsAssumption
    <3> QED
      BY <1>3, <1>6, <3>1, <3>2, <3>3, SMTT(20), Z3T(20) DEF Entries
  <2>3. Respawning(n)' = {}
    <3>1. \A t \in Tasks : m_predecessor'[t] # n
      <4>1. p # n
        BY <1>1, <1>2, <1>3, SMTT(20), Z3T(20) DEF CreateFacts
      <4> QED
        BY <1>1, <1>3, <4>1 DEF CreateFacts
    <3> QED
      BY <1>3, <1>6, <3>1 DEF Respawning
  <2>4. Releasing(n)' = {}
    BY <1>3, <1>5
  <2>5. Own(n)' = 1
    <3>1. n <= allocated'
      BY <1>2, SMTT(20), Z3T(20)
    <3> QED
      BY <1>2, <1>3, <3>1 DEF Own
  <2>6. Cardinality({}) = 0 /\ Cardinality({o}) = 1
    BY EmptySet, OneMore, SMTT(20), Z3T(20)
  <2>7. RefSum(n)' = Cardinality(Futures(n)') + Cardinality(Entries(n)')
                     + Cardinality(Respawning(n)') + Cardinality(Releasing(n)') + Own(n)'
    BY DEF RefSum
  <2>8. m_ref_count'[n] = 2
    BY <1>3 DEF CreatesCounted
  <2>9. /\ Cardinality(Futures(n)') = 1 /\ Cardinality(Entries(n)') = 0
        /\ Cardinality(Respawning(n)') = 0 /\ Cardinality(Releasing(n)') = 0
    BY <2>1, <2>2, <2>3, <2>4, <2>6
  <2>10. RefSum(n)' = 2
    BY <2>5, <2>7, <2>9, SMTT(20), Z3T(20)
  <2>11. n \in live'
    BY <1>2
  <2> QED
    BY <2>8, <2>10, <2>11
<1>9. \A t \in Tasks : \A x, y \in Completing(t)' : x = y
  BY <1>5 DEF IInv, Refs
<1>10. \A t \in Tasks : m_ref_count'[t] = RefSum(t)' /\ (t \in live' <=> m_ref_count'[t] > 0)
  <2> SUFFICES ASSUME NEW t \in Tasks PROVE m_ref_count'[t] = RefSum(t)' /\ (t \in live' <=> m_ref_count'[t] > 0)
    OBVIOUS
  <2>1. CASE t = n
    <3>1. RefSum(t)' = RefSum(n)'
      BY <2>1
    <3> QED
      BY <1>8, <2>1, <3>1, SMTT(20), Z3T(20)
  <2>2. CASE t # n
    BY <1>7, <2>2
  <2> QED
    BY <2>1, <2>2
<1> QED
  BY <1>9, <1>10 DEF Refs

(* Creating a task preserves the invariant. *)
LEMMA CreateInv ==
    ASSUME IInv, NEW a \in Actors, NEW o, NEW n, NEW kind, NEW p, NEW s, NEW copies, NEW c,
           Creates(a, o, n, kind, p, s, copies, c), CreatesCounted(n, s, copies)
    PROVE  IInv'
<1>1. CreateFacts(a, o, n, kind, p, s, copies) /\ NewTops(a, Top(a), c) /\ TypeOK'
  BY CreateBasics DEF Creates
<1>2. AfterInv'
  <2> SUFFICES ASSUME NEW t \in Tasks, NEW r \in after'[t]
               PROVE  consumed'[r] \/ r = m_predecessor'[t] \/ SeqHas(vla'[t], r) \/ InWait(r, t)'
    BY DEF AfterInv
  <2>1. UNCHANGED <<consumed, m_wait_queue>>
    BY DEF Creates
  <2>2. CASE t = n
    <3>1. m_predecessor'[n] = p /\ vla'[n] = s
          /\ after'[n] = ({p} \cup {s[i] : i \in 1..Len(s)}) \ {Null}
      BY <1>1, <2>2 DEF CreateFacts
    <3> QED
      BY <2>2, <3>1 DEF SeqHas
  <2>3. CASE t # n
    <3>1. /\ m_predecessor'[t] = m_predecessor[t] /\ vla'[t] = vla[t] /\ after'[t] = after[t]
      BY <1>1, <2>3 DEF CreateFacts
    <3> QED
      BY <2>1, <3>1 DEF IInv, AfterInv, InWait
  <2> QED
    BY <2>2, <2>3
<1>3. Count'
  <2>1. c.at # "push" /\ Top(a).at = "user" /\ UNCHANGED <<m_ready_queues, m_ready_count>>
    BY <1>1 DEF Creates, CreateFacts
  <2>2. <<a, Depth(a)>> \in FramePlaces /\ FrameAt(<<a, Depth(a)>>) = Top(a)
    BY <1>1, TopFacts DEF CreateFacts
  <2>3. \A x : x \in Pushing' <=> x \in Pushing
    BY <1>1, <2>1, <2>2 DEF NewTops, Pushing
  <2>4. Busy' = Busy
    BY <1>1 DEF NewTops
  <2> QED
    BY <2>1, <2>3, <2>4, CountSame
<1>4. Exec'
  <2>1. /\ Running(a) /\ UNCHANGED execVars /\ UNCHANGED m_ready_count /\ (a = Main => waits < MaxWaits)
    BY DEF Creates, execVars
  <2>2. \A b \in Actors : b # a => stack'[b] = stack[b]
    BY <1>1 DEF NewTops, StepOf
  <2>3. a # Main => holds'[HostCode] = holds[HostCode]
    <3>1. HostCode # n /\ HostCode \in Owners
      BY Fresh DEF Creates, Owners
    <3> QED
      BY <1>1, <3>1 DEF CreateFacts
  <2> QED
    BY <2>1, <2>2, <2>3, ExecUser
<1>5. Shape' /\ Spots'
  BY CreateSpots
<1>6. Known'
  BY CreateKnown
<1>7. Rank'
  BY CreateRank
<1>8. Refs'
  BY CreateRefs
<1> QED
  BY <1>1, <1>2, <1>3, <1>4, <1>5, <1>6, <1>7, <1>8 DEF IInv

(* The frame of the function that schedules a new task. *)
LEMMA CreateCall ==
    ASSUME IInv, NEW a \in Actors, MayCreate(a), NEW at \in {"schedule", "aggregate"}, NEW n,
           n = allocated + 1, NEW c, c = Frame(at, n), Call(a, c, Top(a))
    PROVE  /\ NewTops(a, Top(a), c) /\ c.at = at /\ c.task = n /\ c.pred = Null /\ Inj(c.rest)
           /\ Running(a) /\ allocated < MaxTasks /\ (a = Main => waits < MaxWaits)
           /\ Top(a).task \in Owners /\ stack[a] # << >>
<1>1. Running(a) /\ allocated < MaxTasks /\ (a = Main => waits < MaxWaits) /\ stack[a] # << >>
  BY DEF MayCreate, Running, At
<1>2. n \in Tasks /\ n \in Owners
  BY <1>1, Fresh DEF Owners
<1>3. c \in FrameState /\ c.at = at /\ c.task = n /\ c.pred = Null /\ Inj(c.rest)
  <2>1. at \in Ats
    BY DEF Ats
  <2>2. NewFrame(c, at, n)
    BY <1>2, <2>1, FrameFacts
  <2> QED
    BY <2>2 DEF NewFrame
<1>4. Top(a) \in FrameState
  BY <1>1, TopFacts
<1>5. Top(a).task \in Owners
  BY <1>4 DEF FrameState
<1>6. NewTops(a, Top(a), c)
  BY <1>1, <1>3, <1>4, CallEffect
<1> QED
  BY <1>1, <1>3, <1>5, <1>6

(* What user code holds was created before. *)
LEMMA HeldIsCreated ==
    ASSUME IInv, NEW o \in Owners, NEW t \in Tasks, t > allocated
    PROVE  t \notin holds[o] /\ m_ref_count[t] = 0
<1>1. TypeOK /\ t \in Nat /\ allocated \in Nat
  BY Basics DEF IInv
<1>2. m_ref_count[t] = 0
  BY DEF IInv, Known, Kinds
<1>3. t \in holds[o] => t <= allocated
  BY PlacedIsLive, LiveIsCreated
<1> QED
  BY <1>1, <1>2, <1>3, SMTT(20), Z3T(20)

(* Spawn preserves the invariant. *)
LEMMA SpawnInv ==
    ASSUME IInv, NEW a \in Actors, NEW p, p \in holds[Owner(a)] \cup {Null},
           NEW copies, copies \in Copies(a), NEW q \in Queues, Spawn(a, p, copies, q)
    PROVE  IInv'
<1> PICK n, o, c, s : n = allocated + 1 /\ o = Top(a).task /\ c = Frame("schedule", n) /\ s = << >>
  OBVIOUS
<1>1. /\ MayCreate(a) /\ Call(a, c, Top(a))
      /\ allocated' = n /\ live' = live \cup {n}
      /\ task_type' = [task_type EXCEPT ![n] = "runnable"]
      /\ m_ref_count' = [t \in Tasks |-> IF t = n THEN 2 ELSE IF t \in copies THEN m_ref_count[t] + 1
                                         ELSE m_ref_count[t]]
      /\ m_predecessor' = [m_predecessor EXCEPT ![n] = p]
      /\ queue_index' = [queue_index EXCEPT ![n] = q]
      /\ holds' = [holds EXCEPT ![o] = @ \cup {n}, ![n] = copies]
      /\ after' = [after EXCEPT ![n] = {p} \ {Null}]
      /\ UNCHANGED <<m_wait_queue, consumed, m_is_respawning, vla, m_ready_queues, m_ready_count,
                     where, phase, waits>>
  BY DEF Spawn, Owner, queueVars, execVars
<1>2. /\ NewTops(a, Top(a), c) /\ c.at = "schedule" /\ c.task = n /\ c.pred = Null /\ Inj(c.rest)
      /\ Running(a) /\ allocated < MaxTasks /\ (a = Main => waits < MaxWaits) /\ o \in Owners
  BY <1>1, CreateCall
<1>3. n \in Tasks /\ n > allocated /\ vla[n] = << >> /\ n \in Nat /\ allocated \in Nat /\ TypeOK
  BY <1>2, Fresh, Basics DEF IInv
<1>4. copies \subseteq holds[o] /\ p \in holds[o] \cup {Null}
  BY DEF Copies, Owner
<1>5. /\ s \in Seq(Owners) /\ Len(s) = 0 /\ (\A i \in 1..Len(s) : s[i] \in holds[o] \cup {Null})
      /\ {s[i] : i \in 1..Len(s)} = {}
  BY SMTT(20), Z3T(20)
<1>6. vla' = [vla EXCEPT ![n] = s]
  BY <1>1, <1>3 DEF TypeOK
<1>7. m_ref_count \in [Tasks -> Nat]
  BY <1>3 DEF TypeOK
<1>8. /\ m_ref_count' \in [Tasks -> Nat]
      /\ \A t \in Tasks : t > n => m_ref_count'[t] = 0
  <2>1. \A t \in Tasks : t > n => t \notin copies /\ m_ref_count[t] = 0 /\ t # n
    <3> SUFFICES ASSUME NEW t \in Tasks, t > n PROVE t \notin copies /\ m_ref_count[t] = 0 /\ t # n
      OBVIOUS
    <3>1. t > allocated /\ t # n
      BY <1>3, Basics, SMTT(20), Z3T(20)
    <3> QED
      BY <1>2, <1>4, <3>1, HeldIsCreated
  <2> QED
    BY <1>1, <1>7, <2>1, SMTT(20), Z3T(20)
<1>9. CreatesCounted(n, s, copies)
  <2>1. \A t \in Tasks : Occurrences(s, t) = 0
    <3>1. \A t \in Tasks : {i \in 1..Len(s) : s[i] = t} = {}
      BY <1>5
    <3> QED
      BY <3>1, EmptySet DEF Occurrences
  <2> QED
    BY <1>1, <1>7, <2>1, SMTT(20), Z3T(20) DEF CreatesCounted
<1>10. queue_index' \in [Tasks -> Queues]
  BY <1>1, <1>3 DEF TypeOK
<1>11. after' = [after EXCEPT ![n] = ({p} \cup {s[i] : i \in 1..Len(s)}) \ {Null}]
  BY <1>1, <1>5
<1>12. s = << >> /\ Len(s) <= MaxVla
  <2>1. MaxVla \in Nat
    BY BoundsAssumption
  <2> QED
    BY <1>5, <2>1, SMTT(20), Z3T(20)
<1>13. PICK kind : kind = "runnable"
  OBVIOUS
<1>14. Creates(a, o, n, kind, p, s, copies, c)
  BY <1>13, <1>1, <1>2, <1>4, <1>5, <1>6, <1>8, <1>10, <1>11, <1>12 DEF Creates
<1> QED
  BY <1>9, <1>14, CreateInv

(* WhenAll preserves the invariant. *)
LEMMA WhenAllInv ==
    ASSUME IInv, NEW a \in Actors, NEW s \in [1..MaxVla -> holds[Owner(a)] \cup {Null}], WhenAll(a, s)
    PROVE  IInv'
<1> PICK n, o, c, p, copies :
       n = allocated + 1 /\ o = Top(a).task /\ c = Frame("aggregate", n) /\ p = Null /\ copies = {}
  OBVIOUS
<1>1. /\ MayCreate(a) /\ Call(a, c, Top(a))
      /\ allocated' = n /\ live' = live \cup {n}
      /\ task_type' = [task_type EXCEPT ![n] = "aggregate"]
      /\ m_ref_count' = [t \in Tasks |-> IF t = n THEN 2 ELSE m_ref_count[t] + Occurrences(s, t)]
      /\ vla' = [vla EXCEPT ![n] = s]
      /\ holds' = [holds EXCEPT ![o] = @ \cup {n}]
      /\ after' = [after EXCEPT ![n] = {s[i] : i \in 1..Len(s)} \ {Null}]
      /\ UNCHANGED <<m_wait_queue, consumed, m_predecessor, m_is_respawning, queue_index,
                     m_ready_queues, m_ready_count, where, phase, waits>>
  BY DEF WhenAll, Owner, queueVars, execVars
<1>2. /\ NewTops(a, Top(a), c) /\ c.at = "aggregate" /\ c.task = n /\ c.pred = Null /\ Inj(c.rest)
      /\ Running(a) /\ allocated < MaxTasks /\ (a = Main => waits < MaxWaits) /\ o \in Owners
  BY <1>1, CreateCall
<1>3. /\ n \in Tasks /\ n > allocated /\ holds[n] = {} /\ m_predecessor[n] = Null
      /\ n \in Nat /\ allocated \in Nat /\ TypeOK
  BY <1>2, Fresh, Basics DEF IInv, Settled
<1>4. o # n
  <2>1. o \in 0..allocated
    BY <1>2, TopFacts DEF FrameOK, Running, At
  <2> QED
    BY <1>3, <2>1, SMTT(20), Z3T(20)
<1>5. /\ s \in Seq(Owners) /\ Len(s) <= MaxVla /\ \A i \in 1..Len(s) : s[i] \in holds[o] \cup {Null}
  <2>1. holds[o] \cup {Null} \subseteq Owners
    BY <1>2, <1>3 DEF TypeOK, Owners, Null, HostCode
  <2>2. MaxVla \in Nat
    BY BoundsAssumption
  <2>3. s \in [1..MaxVla -> holds[o] \cup {Null}]
    BY DEF Owner
  <2> QED
    BY <2>1, <2>2, <2>3, SMTT(20), Z3T(20)
<1>6. m_ref_count \in [Tasks -> Nat] /\ \A t \in Tasks : Occurrences(s, t) \in Nat
  <2>1. \A t \in Tasks : Occurrences(s, t) \in Nat
    <3> SUFFICES ASSUME NEW t \in Tasks PROVE Occurrences(s, t) \in Nat
      OBVIOUS
    <3>1. PICK E : E = OccursAt(n, s, t)
      OBVIOUS
    <3> QED
      BY <1>5, <3>1, OccurrencesAt
  <2> QED
    BY <1>3, <2>1 DEF TypeOK
<1>7. /\ m_ref_count' \in [Tasks -> Nat]
      /\ \A t \in Tasks : t > n => m_ref_count'[t] = 0
  <2>1. \A t \in Tasks : t > n => Occurrences(s, t) = 0 /\ m_ref_count[t] = 0 /\ t # n
    <3> SUFFICES ASSUME NEW t \in Tasks, t > n
                 PROVE  Occurrences(s, t) = 0 /\ m_ref_count[t] = 0 /\ t # n
      OBVIOUS
    <3>1. t > allocated /\ t # n /\ t # Null
      BY <1>3, Basics, SMTT(20), Z3T(20) DEF Null
    <3>2. t \notin holds[o] /\ m_ref_count[t] = 0
      BY <1>2, <3>1, HeldIsCreated
    <3>3. {i \in 1..Len(s) : s[i] = t} = {}
      BY <1>5, <3>1, <3>2
    <3> QED
      BY <3>1, <3>2, <3>3, EmptySet DEF Occurrences
  <2> QED
    BY <1>1, <1>6, <2>1, SMTT(20), Z3T(20)
<1>8. CreatesCounted(n, s, copies)
  BY <1>1, <1>6, SMTT(20), Z3T(20) DEF CreatesCounted
<1>9. m_predecessor' = [m_predecessor EXCEPT ![n] = p]
  BY <1>1, <1>3 DEF TypeOK
<1>10. holds' = [holds EXCEPT ![o] = @ \cup {n}, ![n] = copies]
  BY <1>1, <1>2, <1>3, <1>4 DEF TypeOK, Owners
<1>11. after' = [after EXCEPT ![n] = ({p} \cup {s[i] : i \in 1..Len(s)}) \ {Null}]
  <2>1. ({p} \cup {s[i] : i \in 1..Len(s)}) \ {Null} = {s[i] : i \in 1..Len(s)} \ {Null}
    OBVIOUS
  <2> QED
    BY <1>1, <2>1
<1>12. queue_index' \in [Tasks -> Queues]
  BY <1>1, <1>3 DEF TypeOK
<1>13. Creates(a, o, n, "aggregate", p, s, copies, c)
  BY <1>1, <1>2, <1>5, <1>7, <1>9, <1>10, <1>11, <1>12 DEF Creates
<1> QED
  BY <1>8, <1>13, CreateInv

-----------------------------------------------------------------------------
(* The invariant *)

(* User code preserves the invariant. *)
LEMMA UserStepInv ==
    ASSUME IInv, NEW a \in Actors, UserStep(a)
    PROVE  IInv'
<1>1. ASSUME NEW p \in holds[Owner(a)] \cup {Null}, NEW q \in Queues, NEW copies \in Copies(a),
             Spawn(a, p, copies, q)
      PROVE  IInv'
  BY <1>1, SpawnInv
<1>2. ASSUME NEW s \in [1..MaxVla -> holds[Owner(a)] \cup {Null}], WhenAll(a, s) PROVE IInv'
  BY <1>2, WhenAllInv
<1>3. ASSUME NEW p \in holds[Owner(a)] \cup {Null}, NEW q \in Queues, Respawn(a, p, q) PROVE IInv'
  BY <1>3, RespawnInv
<1>4. ASSUME NEW p \in holds[Owner(a)], DropFuture(a, p) PROVE IInv'
  BY <1>4, DropFutureInv
<1>5. CASE FunctorReturns(a)
  BY <1>5, FunctorReturnsInv
<1> QED
  BY <1>1, <1>2, <1>3, <1>4, <1>5 DEF UserStep

(* The code of the queue preserves the invariant. *)
LEMMA LibraryStepInv ==
    ASSUME IInv, NEW a \in Actors, LibraryStep(a)
    PROVE  IInv'
<1>1. CASE QueueStep(a) /\ UNCHANGED <<userVars, execVars>>
  <2>1. CASE ScheduleReady(a)
    BY <1>1, <2>1, ScheduleReadyInv
  <2>2. CASE ScheduleWaiting(a)
    BY <1>1, <2>2, ScheduleWaitingInv
  <2>3. CASE ScheduleInfo(a)
    BY <1>1, <2>3, ScheduleInfoInv
  <2>4. CASE ScheduleUnref(a) \/ AggregateUnref(a)
    BY <1>1, <2>4, UnrefInv
  <2>5. CASE SchedulePush(a)
    BY <1>1, <2>5, SchedulePushInv
  <2>6. CASE AggregateTry(a)
    BY <1>1, <2>6, AggregateTryInv
  <2>7. CASE CompleteRespawn(a)
    BY <1>1, <2>7, CompleteRespawnInv
  <2>8. CASE Consume(a)
    BY <1>1, <2>8, ConsumeInv
  <2>9. CASE Visit(a)
    BY <1>1, <2>9, VisitInv
  <2>10. CASE Finish(a)
    BY <1>1, <2>10, FinishInv
  <2>11. CASE ReadyDec(a)
    BY <1>1, <2>11, ReadyDecInv
  <2> QED
    BY <1>1, <2>1, <2>2, <2>3, <2>4, <2>5, <2>6, <2>7, <2>8, <2>9, <2>10, <2>11 DEF QueueStep
<1>2. ASSUME NEW p \in Tasks, DestroyFuture(a, p) PROVE IInv'
  BY <1>2, DestroyFutureInv
<1>3. CASE Destroyed(a)
  BY <1>3, DestroyedInv
<1> QED
  BY <1>1, <1>2, <1>3 DEF LibraryStep

(* Stuttering preserves the invariant. *)
LEMMA StutterInv ==
    ASSUME IInv, UNCHANGED vars
    PROVE  IInv'
<1>1. UNCHANGED <<taskVars, queueVars, stack, userVars>> /\ UNCHANGED <<where, phase, waits>>
  BY DEF vars, taskVars, queueVars, userVars
<1>2. /\ where \in [Workers -> 0..Out] /\ phase \in {"main", "execute", "end"}
      /\ waits \in 0..MaxWaits /\ Exec
  BY WhereFacts
<1>3. Exec'
  BY <1>1, <1>2 DEF Exec, queueVars, userVars
<1> QED
  BY <1>1, <1>2, <1>3, ExecOnly

(* The invariant is inductive. *)
LEMMA NextInv ==
    ASSUME IInv, [Next]_vars
    PROVE  IInv'
<1>1. Main \in Actors /\ \A w \in Workers : w \in Actors
  BY ActorsAssumption
<1>2. CASE MainStep
  BY <1>1, <1>2, UserStepInv, LibraryStepInv, WaitInv, WaitReturnsInv, EndInv DEF MainStep
<1>3. ASSUME NEW w \in Workers, WorkerStep(w) PROVE IInv'
  <2>1. CASE Scan(w)
    <3>1. CASE m_ready_queues[where[w]] = << >>
      BY <2>1, <3>1, ScanEmptyInv
    <3>2. CASE m_ready_queues[where[w]] # << >>
      BY <2>1, <3>2, ScanPopInv
    <3> QED
      BY <3>1, <3>2
  <2> QED
    BY <1>1, <1>3, <2>1, UserStepInv, LibraryStepInv, LoopInv DEF WorkerStep
<1>4. CASE Ended \/ UNCHANGED vars
  BY <1>4, StutterInv DEF Ended
<1> QED
  BY <1>2, <1>3, <1>4 DEF Next

-----------------------------------------------------------------------------
(* The facts about sets, from the library *)

(* The definition of a finite set, in FiniteSets. *)
Listed(S) == \E s \in Seq(S) : \A x \in S : \E i \in 1..Len(s) : s[i] = x

(* The definition of the size of a finite set, in FiniteSets. *)
Counted(S) ==
    LET CS[T \in SUBSET S] == IF T = {} THEN 0 ELSE 1 + CS[T \ {CHOOSE x : x \in T}]
    IN  CS[S]

(* Spelt out, what the scheduler's invariant means by a finite set and by  *)
(* its size.                                                               *)
LEMMA SchedulerSets == \A S : (IsFiniteSet(S) <=> Listed(S)) /\ Cardinality(S) = Counted(S)
BY DEF IsFiniteSet, Cardinality, Listed, Counted

LOCAL INSTANCE FiniteSetTheorems

(* The library's theorems mean the same by them. *)
LEMMA LibrarySets == \A S : (IsFiniteSet(S) <=> Listed(S)) /\ Cardinality(S) = Counted(S)
BY DEF IsFiniteSet, Cardinality, Listed, Counted

(* The empty set, and the sizes of finite sets. *)
LEMMA ListedEmpty ==
    /\ Listed({}) /\ Counted({}) = 0
    /\ \A S : Listed(S) => Counted(S) \in Nat /\ (Counted(S) = 0 <=> S = {})
BY LibrarySets, FS_EmptySet, FS_CardinalityType

(* A new element makes a finite set larger by one. *)
LEMMA ListedAdd ==
    ASSUME NEW S, NEW x, Listed(S), x \notin S
    PROVE  Listed(S \cup {x}) /\ Counted(S \cup {x}) = Counted(S) + 1
<1>1. IsFiniteSet(S)
  BY LibrarySets
<1> QED
  BY <1>1, LibrarySets, FS_AddElement

(* Without one of its elements a finite set is smaller by one. *)
LEMMA ListedRemove ==
    ASSUME NEW S, NEW x, Listed(S), x \in S
    PROVE  Listed(S \ {x}) /\ Counted(S \ {x}) = Counted(S) - 1
<1>1. IsFiniteSet(S)
  BY LibrarySets
<1> QED
  BY <1>1, LibrarySets, FS_RemoveElement

(* A part of a finite set is finite. *)
LEMMA ListedSubset ==
    ASSUME NEW S, NEW T, Listed(S), T \subseteq S
    PROVE  Listed(T)
<1>1. IsFiniteSet(S)
  BY LibrarySets
<1>2. IsFiniteSet(T)
  BY <1>1, FS_Subset
<1> QED
  BY <1>2, LibrarySets

(* The numbers up to n are finitely many. *)
LEMMA ListedInterval ==
    ASSUME NEW n \in Nat
    PROVE  Listed(1..n)
<1>1. 1 \in Int /\ n \in Int
  BY SMTT(20), Z3T(20)
<1>2. IsFiniteSet(1..n)
  BY <1>1, FS_Interval
<1> QED
  BY <1>2, LibrarySets

(* The pairs of elements of two finite sets. *)
LEMMA ListedProduct ==
    ASSUME NEW S, NEW T, Listed(S), Listed(T)
    PROVE  Listed(S \X T) /\ Counted(S \X T) = Counted(S) * Counted(T)
<1>1. IsFiniteSet(S) /\ IsFiniteSet(T)
  BY LibrarySets
<1>2. IsFiniteSet(S \X T) /\ Cardinality(S \X T) = Cardinality(S) * Cardinality(T)
  BY <1>1, FS_Product
<1> QED
  BY <1>2, LibrarySets

(* The union of two finite sets with no element in common. *)
LEMMA ListedUnion ==
    ASSUME NEW S, NEW T, Listed(S), Listed(T), S \cap T = {}
    PROVE  Counted(S \cup T) = Counted(S) + Counted(T)
<1>1. IsFiniteSet(S) /\ IsFiniteSet(T)
  BY LibrarySets
<1>2. Cardinality(S \cup T) = Cardinality(S) + Cardinality(T) - Cardinality({})
  BY <1>1, FS_Union, SMTT(20), Z3T(20)
<1>3. Cardinality({}) = 0 /\ Cardinality(S) \in Nat /\ Cardinality(T) \in Nat
  BY <1>1, FS_EmptySet, FS_CardinalityType
<1>4. Cardinality(S \cup T) = Cardinality(S) + Cardinality(T)
  BY <1>2, <1>3, SMTT(20), Z3T(20)
<1> QED
  BY <1>4, LibrarySets

(* What lies in the union of finitely many finite sets. *)
LEMMA ListedUnions ==
    ASSUME NEW S, NEW f, NEW T, Listed(S), \A x \in S : Listed(f[x]), \A y \in T : \E x \in S : y \in f[x]
    PROVE  Listed(T)
<1>1. PICK U : U = {f[x] : x \in S}
  OBVIOUS
<1>2. PICK g : g = [x \in S |-> f[x]]
  OBVIOUS
<1>3. g \in Surjection(S, U)
  BY <1>1, <1>2 DEF Surjection
<1>4. IsFiniteSet(S)
  BY LibrarySets
<1>5. IsFiniteSet(U)
  BY <1>3, <1>4, FS_Surjection
<1>6. \A u \in U : IsFiniteSet(u)
  BY <1>1, LibrarySets
<1>7. IsFiniteSet(UNION U)
  BY <1>5, <1>6, FS_UNION
<1>8. T \subseteq UNION U
  BY <1>1
<1> QED
  BY <1>7, <1>8, LibrarySets, ListedSubset

(* Some numbers have a least one. *)
LEMMA LeastNumber ==
    ASSUME NEW T, T \subseteq Nat, T # {}
    PROVE  \E x \in T : \A y \in T : x <= y
<1>1. PICK R : R = {ss \in Nat \X Nat : ss[1] < ss[2]} /\ IsWellFoundedOn(R, Nat)
  BY NatLessThanWellFounded DEF OpToRel
<1>2. PICK x \in T : \A y \in T : ~(<<y, x>> \in R)
  BY <1>1, WFMin
<1>3. ASSUME NEW y \in T PROVE x <= y
  <2>1. x \in Nat /\ y \in Nat /\ <<y, x>> \notin R
    BY <1>2
  <2>2. R = {ss \in Nat \X Nat : ss[1] < ss[2]}
    BY <1>1
  <2>3. ~(y < x)
    BY <2>1, <2>2
  <2> QED
    BY <2>1, <2>3, SMTT(20), Z3T(20)
<1> QED
  BY <1>3

(* A list without repetition of numbers up to m has at most m of them. *)
LEMMA Pigeons ==
    ASSUME NEW m \in Nat, NEW n \in Nat, NEW s \in [1..n -> 1..m], \A i, j \in 1..n : s[i] = s[j] => i = j
    PROVE  n <= m
<1>1. 1 \in Int /\ m \in Int /\ n \in Int
  BY SMTT(20), Z3T(20)
<1>2. IsFiniteSet(1..m) /\ Cardinality(1..m) = m /\ Cardinality(1..n) = n
  BY <1>1, FS_Interval, SMTT(20), Z3T(20)
<1>3. s \in Injection(1..n, 1..m)
  BY DEF Injection, IsInjective
<1> QED
  BY <1>2, <1>3, FS_Injection, SMTT(20), Z3T(20)

(* SetFacts is true. *)
LEMMA SetFactsHold == SetFacts
<1>1. ASSUME NEW S, NEW x, Listed(S) PROVE Counted({x} \X S) = Counted(S)
  <2>1. {x} = {} \cup {x} /\ x \notin {}
    OBVIOUS
  <2>2. Listed({x}) /\ Counted({x}) = 1
    BY <2>1, ListedEmpty, ListedAdd, SMTT(20), Z3T(20)
  <2>3. Counted({x} \X S) = Counted({x}) * Counted(S) /\ Counted(S) \in Nat
    BY <1>1, <2>2, ListedProduct, ListedEmpty
  <2> QED
    BY <2>2, <2>3, SMTT(20), Z3T(20)
<1> QED
  BY <1>1, SchedulerSets, ListedEmpty, ListedAdd, ListedRemove, ListedSubset, ListedInterval, ListedProduct,
     ListedUnion, ListedUnions, LeastNumber, Pigeons DEF SetFacts

-----------------------------------------------------------------------------
(* The theorems *)

(* Every reachable state satisfies the invariant, for any number of        *)
(* workers, queues and tasks.                                              *)
THEOREM Invariant == Spec => []IInv
<1>1. Init => IInv
  BY InitInv, SetFactsHold
<1>2. IInv /\ [Next]_vars => IInv'
  BY NextInv
<1> QED
  BY <1>1, <1>2, PTL DEF Spec

-----------------------------------------------------------------------------
(* No thread reads or writes a task that was deallocated, and no queue or  *)
(* functor refers to one, whatever user code spawns, waits for and         *)
(* respawns: Release deallocates only what nobody refers to any more.      *)
THEOREM TasksAreMemorySafe == Spec => []NoUseAfterFree
<1>1. IInv => NoUseAfterFree
  BY NoUseInv
<1> QED
  BY <1>1, Invariant, PTL

(* The reference count of every task is exactly the number of references,  *)
(* so none is leaked and none is given up twice.                           *)
THEOREM ReferencesAreCounted == Spec => []RefCountIsExact
<1>1. IInv => RefCountIsExact
  BY RefCountInv
<1> QED
  BY <1>1, Invariant, PTL

(* A task that is not complete is in exactly one ready queue, wait queue   *)
(* or thread: none is lost and none runs twice at a time.                  *)
THEOREM TasksAreInOnePlace == Spec => []InOnePlace
<1>1. IInv => InOnePlace
  BY InOnePlaceInv
<1> QED
  BY <1>1, Invariant, PTL

(* Tasks become ready, and aggregates complete, only after everything they *)
(* were told to wait for.                                                  *)
THEOREM PredecessorsComeFirst == Spec => []ReadyAfterPredecessors
<1>1. IInv => ReadyAfterPredecessors
  BY ReadyInv
<1> QED
  BY <1>1, Invariant, PTL

(* A worker that sees the ready count at 0 may leave wait(): every task is *)
(* complete and no worker is inside one.                                   *)
THEOREM DoneIsQuiescent == Spec => []DoneMeansQuiescent
<1>1. IInv => DoneMeansQuiescent
  BY DoneInv
<1> QED
  BY <1>1, Invariant, PTL

(* After the last wait() and with all futures gone every task has been     *)
(* deallocated and the queues are empty.                                   *)
THEOREM NothingIsLeft == Spec => []NothingLeftAtEnd
<1>1. IInv => NothingLeftAtEnd
  BY EndedInv
<1> QED
  BY <1>1, Invariant, PTL
=============================================================================
