-------------------------- MODULE TaskQueueProofs ---------------------------
(***************************************************************************)
(* The steps of the task queue preserve the invariant of the scheduler:    *)
(* scheduling a task, completing one, and the loop over the predecessors   *)
(* of an aggregate.                                                        *)
(***************************************************************************)
EXTENDS TaskInvariantProofs

(* Steps are proved by Zenon unless they name another prover. *)
USE ZenonT(20)

-----------------------------------------------------------------------------
(* Scheduling a task that is ready *)

(* A task that a thread pushes on a ready queue stays in one place. *)
LEMMA AloneToReady ==
    ASSUME NEW t \in Tasks, Alone(t), NEW y \in FramePlaces, InFrame(y, t), NEW r \in Queues,
           \A q \in Queues : InReady(q, t)' <=> InReady(q, t) \/ q = r,
           \A p \in Tasks : InWait(p, t)' <=> InWait(p, t),
           \A x : ~InFrame(x, t)',
           Active(t)' <=> Active(t)
    PROVE  Alone(t)'
<1>1. Active(t) /\ (\A q \in Queues : ~InReady(q, t)) /\ (\A p \in Tasks : ~InWait(p, t))
  BY DEF Alone
<1> QED
  BY <1>1 DEF Alone

(* ScheduleReady preserves the invariant. *)
LEMMA ScheduleReadyInv ==
    ASSUME IInv, NEW a \in Actors, ScheduleReady(a), UNCHANGED <<userVars, execVars>>
    PROVE  IInv'
<1> PICK t, f : t = Top(a).task /\ f = Frame("push", t)
  OBVIOUS
<1> stack[a] # << >> /\ Top(a).at = "schedule"
  BY DEF ScheduleReady, At
<1> /\ t \in Tasks /\ t \in 0..allocated /\ t # HostCode /\ Null \in 0..allocated
  BY TopTask, Basics, SMTT(20) DEF IInv, HostCode, Null
<1>1. Depth(a) > 1 /\ Depth(a) # 1 /\ task_type[t] = "runnable"
  BY TopTask, TopFacts, Depths
<1>2. f \in FrameState /\ f.at = "push" /\ f.task = t /\ f.pred = Null /\ Inj(f.rest)
  <2>1. "push" \in Ats /\ t \in Owners
    BY DEF Ats, Owners
  <2>2. NewFrame(f, "push", t)
    BY <2>1, FrameFacts
  <2> QED
    BY <2>2 DEF NewFrame
<1>3. m_is_respawning' = [m_is_respawning EXCEPT ![t] = FALSE] /\ m_predecessor[t] = Null
  BY DEF ScheduleReady
<1>4. Goto(a, f) /\ m_ready_count' = m_ready_count + 1
  BY DEF ScheduleReady
<1> UNCHANGED <<live, task_type, m_ref_count, m_wait_queue, consumed,
                m_predecessor, vla, queue_index, m_ready_queues,
                holds, allocated, after, respawns, where, phase, waits>>
  BY DEF ScheduleReady, userVars, execVars
<1>5. NewTop(a, f)
  BY <1>2, <1>4, GotoEffect
<1>6. /\ <<a, Depth(a)>> \in FramePlaces /\ FrameAt(<<a, Depth(a)>>) = Top(a)
      /\ \A u \in Tasks : InFrame(<<a, Depth(a)>>, u) <=> HoldsTask(Top(a), u)
  BY TopFacts
<1>7. \A u : /\ HoldsTask(f, u) <=> u = t
             /\ HoldsTask(Top(a), u) <=> u = t
             /\ ~Releases(f, u) /\ ~Releases(Top(a), u)
  BY <1>2 DEF HoldsTask, Releases
<1>8. TypeOK
  BY DEF IInv
<1>9. \A u \in Tasks : /\ m_is_respawning'[u] <=> m_is_respawning[u] /\ u # t
                       /\ Settled(u) => Settled(u)'
                       /\ Settled(t)'
  BY <1>3, <1>8 DEF TypeOK, Settled
<1>10. TypeOK'
  <2>1. m_is_respawning' \in [Tasks -> BOOLEAN] /\ m_ready_count' \in Nat
    BY <1>3, <1>4, <1>8, SMTT(20) DEF TypeOK
  <2> QED
    BY <1>5, <1>8, <2>1 DEF TypeOK, NewTop, StepOf
<1>11. Shape'
  <2>1. \A x : FrameAt(x)' = f /\ x[1] = a /\ x[2] = Depth(a) => FrameOK(x[1], x[2], FrameAt(x))'
    BY <1>1, <1>2 DEF FrameOK
  <2>2. allocated \in Nat /\ allocated <= allocated
    BY <1>8, Numbers
  <2> QED
    BY <1>5, <2>1, <2>2, ShapeStep DEF NewTop
<1>12. Spots'
  <2>1. ASSUME NEW u \in Tasks PROVE Alone(u)'
    <3>1. \A x : InFrame(x, u)' <=> InFrame(x, u)
      BY <1>5, <1>6, <1>7 DEF NewTop
    <3> QED
      BY <3>1, AloneSame DEF IInv, Spots, InReady, InWait, Active
  <2>2. \A x \in FramePlaces' : Inj(FrameAt(x)'.rest)
    BY <1>2, <1>5, RestsStep DEF NewTop
  <2> QED
    BY <2>1, <2>2 DEF IInv, Spots
<1>13. FramesKnow'
  <2>1. \A x : FrameAt(x)' = f => FrameKnows(x[1], x[2], FrameAt(x))'
    BY <1>2 DEF FrameKnows
  <2>2. \A u \in Tasks : u # t => m_is_respawning'[u] = m_is_respawning[u]
    BY <1>3, <1>8 DEF TypeOK
  <2> QED
    BY <1>5, <2>1, <2>2, KnowTop DEF NewTop
<1>14. Homes'
  BY <1>5, <1>9, HomesStep DEF NewTop
<1>15. WaitsOnActive' /\ ReadyRunnable' /\ Kinds'
  BY SMTT(20) DEF IInv, Known, WaitsOnActive, ReadyRunnable, Kinds, InWait, InReady, Active, NonNull
<1>16. Refs'
  <2>1. ASSUME NEW u \in Tasks PROVE RefSum(u)' = RefSum(u)
    <3>1. Futures(u)' = Futures(u) /\ Entries(u)' = Entries(u)
      BY DEF Futures, Entries, Created
    <3>2. Respawning(u)' = Respawning(u)
      <4>1. \A x \in Created : x \in Tasks
        BY <1>8, Basics
      <4>2. u # Null
        BY <1>8, Basics
      <4> QED
        BY <1>3, <1>9, <4>1, <4>2 DEF Respawning, Created
    <3>3. Releasing(u)' = Releasing(u)
      BY <1>5, <1>6, <1>7, SMTT(20) DEF NewTop, Releasing
    <3>4. Completing(u)' = Completing(u)
      BY <1>2, <1>5, <1>6 DEF NewTop, Completing
    <3> QED
      BY <3>1, <3>2, <3>3, <3>4 DEF RefSum, Own
  <2>2. \A u \in Tasks : \A x, z \in Completing(u)' : x = z
    BY <1>2, <1>5 DEF NewTop, IInv, Refs
  <2> QED
    BY <2>1, <2>2, RefsSame
<1>17. AfterInv'
  BY AfterStep DEF InWait
<1>18. Count'
  <2>1. ReadyTasks' = ReadyTasks /\ Busy' = Busy
    BY <1>5 DEF ReadyTasks, InReady, NewTop
  <2>2. Pushing' = Pushing \cup {<<a, Depth(a)>>} /\ <<a, Depth(a)>> \notin Pushing
    BY <1>2, <1>5, <1>6 DEF Pushing, NewTop
  <2>3. Cardinality(Pushing') = Cardinality(Pushing) + 1
    BY <1>8, <2>2, CountFinite, OneMore
  <2>4. m_ready_count = Cardinality(ReadyTasks) + Cardinality(Busy) + Cardinality(Pushing)
    BY DEF IInv, Count
  <2>5. /\ Cardinality(Busy) \in Nat /\ Cardinality(ReadyTasks) \in Nat
        /\ Cardinality(Pushing) \in Nat
    BY <1>8, CountFinite
  <2>6. m_ready_count' = Cardinality(ReadyTasks) + Cardinality(Busy) + (Cardinality(Pushing) + 1)
    BY <1>4, <2>4, <2>5, SMTT(20)
  <2> QED
    BY <2>1, <2>3, <2>6 DEF Count
<1>19. Rank'
  BY RankStep DEF InWait, NonNull
<1>20. Exec'
  BY <1>5, ExecStep DEF NewTop, StepOf, execVars
<1> QED
  BY <1>10, <1>11, <1>12, <1>13, <1>14, <1>15, <1>16, <1>17, <1>18, <1>19, <1>20 DEF IInv, Known

(* SchedulePush preserves the invariant. *)
LEMMA SchedulePushInv ==
    ASSUME IInv, NEW a \in Actors, SchedulePush(a), UNCHANGED <<userVars, execVars>>
    PROVE  IInv'
<1> PICK t, r : t = Top(a).task /\ r = queue_index[Top(a).task]
  OBVIOUS
<1> stack[a] # << >> /\ Top(a).at = "push"
  BY DEF SchedulePush, At
<1>1. TypeOK
  BY DEF IInv
<1> t \in Tasks
  BY TopTask
<1> r \in Queues
  BY <1>1 DEF TypeOK
<1>2. Depth(a) > 1 /\ task_type[t] = "runnable"
  BY TopTask
<1> UNCHANGED <<live, task_type, m_ref_count, m_wait_queue, consumed,
                m_predecessor, m_is_respawning, vla, queue_index, m_ready_count,
                holds, allocated, after, respawns, where, phase, waits>>
  BY DEF SchedulePush, taskVars, userVars, execVars
<1>3. Popped(a)
  BY <1>2, ReturnEffect DEF SchedulePush
<1>4. m_ready_queues' = [m_ready_queues EXCEPT ![r] = <<t>> \o m_ready_queues[r]]
  BY DEF SchedulePush
<1>5. /\ <<a, Depth(a)>> \in FramePlaces /\ FrameAt(<<a, Depth(a)>>) = Top(a)
      /\ \A u \in Tasks : InFrame(<<a, Depth(a)>>, u) <=> HoldsTask(Top(a), u)
      /\ Depth(a) # 1
  BY <1>2, TopFacts, Depths
<1>6. \A u : (HoldsTask(Top(a), u) <=> u = t) /\ ~Releases(Top(a), u)
  BY DEF HoldsTask, Releases
<1>7. InFrame(<<a, Depth(a)>>, t) /\ Alone(t)
  BY <1>5, <1>6 DEF IInv, Spots
<1>8. \A q \in Queues : ~InReady(q, t)
  BY <1>5, <1>7 DEF Alone
<1>9. /\ m_ready_queues' \in [Queues -> Seq(Tasks)]
      /\ \A q \in Queues : Inj(m_ready_queues'[q])
      /\ \A q \in Queues : \A u : InReady(q, u)' <=> InReady(q, u) \/ (q = r /\ u = t)
  <2>1. PICK s : s = <<t>> \o m_ready_queues[r]
    OBVIOUS
  <2>2. m_ready_queues \in [Queues -> Seq(Tasks)]
    BY <1>1 DEF TypeOK
  <2>3. m_ready_queues[r] \in Seq(Tasks) /\ Inj(m_ready_queues[r]) /\ ~SeqHas(m_ready_queues[r], t)
    BY <1>8, <2>2 DEF IInv, Spots, InReady
  <2>4. s \in Seq(Tasks) /\ Inj(s) /\ \A u : SeqHas(s, u) <=> u = t \/ SeqHas(m_ready_queues[r], u)
    BY <2>1, <2>3, PushSeq
  <2>5. \A q \in Queues : m_ready_queues'[q] = IF q = r THEN s ELSE m_ready_queues[q]
    BY <1>4, <2>1, <2>2
  <2>6. m_ready_queues' \in [Queues -> Seq(Tasks)]
    BY <1>4, <2>1, <2>2, <2>4
  <2> QED
    BY <2>4, <2>5, <2>6 DEF IInv, Spots, InReady
<1>10. TypeOK'
  BY <1>1, <1>3, <1>9 DEF TypeOK, Popped, StepOf
<1>11. Shape'
  <2>2. allocated \in Nat /\ allocated <= allocated
    BY <1>1, Numbers
  <2> QED
    BY <1>3, <2>2, ShapeStep DEF Popped
<1>12. Spots'
  <2>1. ASSUME NEW u \in Tasks PROVE Alone(u)'
    <3>0. /\ \A p \in Tasks : InWait(p, u)' <=> InWait(p, u)
          /\ Active(u)' <=> Active(u)
          /\ Alone(u)
      BY DEF InWait, Active, IInv, Spots
    <3>1. CASE u # t
      <4>1. \A x : InFrame(x, u)' <=> InFrame(x, u)
        BY <1>3, <1>5, <1>6, <3>1 DEF Popped
      <4> QED
        BY <1>9, <3>0, <3>1, <4>1, AloneSame
    <3>2. CASE u = t
      <4>1. \A x : InFrame(x, u) => x = <<a, Depth(a)>>
        BY <1>5, <1>7, <3>2 DEF Alone, InFrame
      <4>2. \A x : ~InFrame(x, u)'
        BY <1>3, <4>1 DEF Popped
      <4> QED
        BY <1>5, <1>7, <1>9, <3>0, <3>2, <4>2, AloneToReady, SMTT(20)
    <3> QED
      BY <3>1, <3>2
  <2>2. \A x \in FramePlaces' : Inj(FrameAt(x)'.rest)
    BY <1>3, RestsStep DEF Popped
  <2> QED
    BY <1>9, <2>1, <2>2 DEF IInv, Spots
<1>13. FramesKnow'
  BY <1>3, KnowSame DEF Popped
<1>14. Homes'
  BY <1>3, HomesStep DEF Popped, Settled
<1>15. WaitsOnActive' /\ ReadyRunnable' /\ Kinds'
  BY <1>2, <1>9, SMTT(20) DEF IInv, Known, WaitsOnActive, ReadyRunnable, Kinds, InWait, Active, NonNull
<1>16. Refs'
  <2>1. ASSUME NEW u \in Tasks
        PROVE  /\ \A x : x \in Releasing(u)' <=> x \in Releasing(u)
               /\ \A x : x \in Completing(u)' <=> x \in Completing(u)
    BY <1>3, <1>5, <1>6, SMTT(20) DEF Popped, Releasing, Completing
  <2>2. \A u \in Tasks : RefSum(u)' = RefSum(u)
    BY <2>1, QuietRefs
  <2>3. \A u \in Tasks : \A x, z \in Completing(u)' : x = z
    BY <2>1 DEF IInv, Refs
  <2> QED
    BY <2>2, <2>3, RefsSame
<1>17. AfterInv'
  BY AfterStep DEF InWait
<1>18. Count'
  <2>1. ReadyTasks' = ReadyTasks \cup {t} /\ t \notin ReadyTasks
    BY <1>8, <1>9 DEF ReadyTasks
  <2>2. Pushing' = Pushing \ {<<a, Depth(a)>>} /\ <<a, Depth(a)>> \in Pushing /\ Busy' = Busy
    BY <1>3, <1>5 DEF Pushing, Popped
  <2>3. Cardinality(Pushing') = Cardinality(Pushing) - 1
    BY <1>1, <2>2, CountFinite, OneLess
  <2>4. Cardinality(ReadyTasks') = Cardinality(ReadyTasks) + 1
    BY <1>1, <2>1, CountFinite, OneMore
  <2>5. m_ready_count = Cardinality(ReadyTasks) + Cardinality(Busy) + Cardinality(Pushing)
    BY DEF IInv, Count
  <2>6. /\ Cardinality(Busy) \in Nat /\ Cardinality(ReadyTasks) \in Nat
        /\ Cardinality(Pushing) \in Nat
    BY <1>1, CountFinite
  <2>7. m_ready_count = (Cardinality(ReadyTasks) + 1) + Cardinality(Busy) + (Cardinality(Pushing) - 1)
    BY <2>5, <2>6, SMTT(20)
  <2> QED
    BY <2>2, <2>3, <2>4, <2>7 DEF Count
<1>19. Rank'
  BY RankStep DEF InWait, NonNull
<1>20. Exec'
  BY <1>3, ExecStep DEF Popped, StepOf, execVars
<1> QED
  BY <1>10, <1>11, <1>12, <1>13, <1>14, <1>15, <1>16, <1>17, <1>18, <1>19, <1>20 DEF IInv, Known

-----------------------------------------------------------------------------
(* Scheduling a task that waits *)

(* A task that a thread adds to a wait queue stays in one place. *)
LEMMA AloneToWait ==
    ASSUME NEW t \in Tasks, Alone(t), NEW y \in FramePlaces, InFrame(y, t), NEW r \in Tasks,
           \A q \in Queues : InReady(q, t)' <=> InReady(q, t),
           \A p \in Tasks : InWait(p, t)' <=> InWait(p, t) \/ p = r,
           \A x : ~InFrame(x, t)',
           Active(t)' <=> Active(t)
    PROVE  Alone(t)'
<1>1. Active(t) /\ (\A q \in Queues : ~InReady(q, t)) /\ (\A p \in Tasks : ~InWait(p, t))
  BY DEF Alone
<1> QED
  BY <1>1 DEF Alone

(* A task is added to the wait queue of a predecessor unless that is       *)
(* consumed.                                                               *)
TriesToWait(p, t) ==
    /\ consumed[p] => UNCHANGED m_wait_queue
    /\ ~consumed[p] => m_wait_queue' = [m_wait_queue EXCEPT ![p] = <<t>> \o @]

(* try_add_waiting puts the task in the wait queue of a predecessor that   *)
(* is not done.                                                            *)
LEMMA JoinWaitQueue ==
    ASSUME IInv, NEW p \in Tasks, NEW t \in Tasks, NEW y \in FramePlaces, InFrame(y, t),
           TriesToWait(p, t)
    PROVE  /\ m_wait_queue' \in [Tasks -> Seq(Tasks)]
           /\ \A r \in Tasks : Inj(m_wait_queue'[r])
           /\ \A r \in Tasks : \A u : InWait(r, u)' <=> InWait(r, u) \/ (~consumed[p] /\ r = p /\ u = t)
<1> USE DEF TriesToWait
<1>1. m_wait_queue \in [Tasks -> Seq(Tasks)] /\ \A r \in Tasks : Inj(m_wait_queue[r])
  BY DEF IInv, TypeOK, Spots
<1>2. CASE consumed[p]
  BY <1>1, <1>2 DEF InWait
<1>3. CASE ~consumed[p]
  <2>1. PICK s : s = <<t>> \o m_wait_queue[p]
    OBVIOUS
  <2>2. ~SeqHas(m_wait_queue[p], t)
    <3>1. Alone(t)
      BY DEF IInv, Spots
    <3> QED
      BY <3>1 DEF Alone, InWait
  <2>3. s \in Seq(Tasks) /\ Inj(s) /\ \A u : SeqHas(s, u) <=> u = t \/ SeqHas(m_wait_queue[p], u)
    BY <1>1, <2>1, <2>2, PushSeq
  <2>4. \A r \in Tasks : m_wait_queue'[r] = IF r = p THEN s ELSE m_wait_queue[r]
    BY <1>1, <1>3, <2>1
  <2>5. m_wait_queue' \in [Tasks -> Seq(Tasks)]
    BY <1>1, <1>3, <2>1, <2>3
  <2> QED
    BY <1>1, <1>3, <2>3, <2>4, <2>5 DEF InWait
<1> QED
  BY <1>2, <1>3

(* The task t of the top frame y forgets its predecessor p. *)
StopsPreceding(a, y, t, p) ==
    /\ stack[a] # << >> /\ Top(a).at = "schedule" /\ y = <<a, Depth(a)>>
    /\ t = Top(a).task /\ p = m_predecessor[t]
    /\ m_predecessor' = [m_predecessor EXCEPT ![t] = Null]
    /\ m_is_respawning' = [m_is_respawning EXCEPT ![t] = FALSE]
    /\ TriesToWait(p, t) /\ (consumed[p] => y \in FramePlaces')
    /\ UNCHANGED <<live, task_type, m_ref_count, consumed, vla, queue_index, m_ready_queues,
                   m_ready_count, holds, allocated, after, respawns, where, phase, waits>>
    /\ StepOf(a) /\ stack'[Main] # << >> /\ Busy' = Busy
    /\ \A x, u : InFrame(x, u)' <=> IF x = y THEN consumed[p] /\ u = t ELSE InFrame(x, u)
    /\ \A x, u : x \in Releasing(u)' <=> IF x = y THEN m_is_respawning[t] /\ u = p
                                                  ELSE x \in Releasing(u)
    /\ \A x, u : x \in Completing(u)' <=> x # y /\ x \in Completing(u)
    /\ \A x : x \in Pushing' <=> x # y /\ x \in Pushing
    /\ \A x \in FramePlaces' : \/ x \in FramePlaces /\ x # y /\ FrameAt(x)' = FrameAt(x)
                               \/ /\ FrameOK(x[1], x[2], FrameAt(x))'
                                  /\ FrameKnows(x[1], x[2], FrameAt(x))'
                                  /\ Inj(FrameAt(x)'.rest)

(* A task that stops having a predecessor: what all three outcomes share. *)
LEMMA WaitingRest ==
    ASSUME IInv, NEW a \in Actors, NEW y, NEW t \in Tasks, NEW p \in Tasks, StopsPreceding(a, y, t, p)
    PROVE  IInv'
<1> USE DEF StopsPreceding
<1> /\ y \in FramePlaces /\ FrameAt(y) = Top(a) /\ InFrame(y, t) /\ Active(t)
    /\ \A u : InFrame(y, u) <=> u = t
    /\ \A u : y \notin Releasing(u) /\ y \notin Completing(u)
    /\ y \notin Pushing
  <2>1. y \in FramePlaces /\ FrameAt(y) = Top(a)
    BY TopFacts
  <2>2. \A u : InFrame(y, u) <=> u = t
    BY <2>1 DEF InFrame, HoldsTask
  <2>3. Active(t)
    BY <2>1, <2>2, PlacedIsLive
  <2> QED
    BY <2>1, <2>2, <2>3 DEF Releasing, Completing, Pushing, Releases
<1>1. /\ TypeOK /\ t \in Created /\ t # Null /\ p # Null
      /\ \A u \in Created : u \in Tasks
  BY Basics DEF IInv, Active
<1>2. /\ \A u \in Tasks : m_predecessor'[u] = IF u = t THEN Null ELSE m_predecessor[u]
      /\ \A u \in Tasks : m_is_respawning'[u] = IF u = t THEN FALSE ELSE m_is_respawning[u]
  BY <1>1 DEF TypeOK
<1>3. /\ m_wait_queue' \in [Tasks -> Seq(Tasks)]
      /\ \A r \in Tasks : Inj(m_wait_queue'[r])
      /\ \A r \in Tasks : \A u : InWait(r, u)' <=> InWait(r, u) \/ (~consumed[p] /\ r = p /\ u = t)
  BY JoinWaitQueue, SMTT(20)
<1>4. TypeOK'
  <2>1. m_predecessor' \in [Tasks -> Owners] /\ m_is_respawning' \in [Tasks -> BOOLEAN]
    BY <1>1 DEF TypeOK, Owners, HostCode, Null
  <2> QED
    BY <1>1, <1>3, <2>1 DEF TypeOK, StepOf
<1>5. Shape'
  BY <1>1, Basics, ShapeStep, Numbers
<1>6. Spots'
  <2>1. ASSUME NEW u \in Tasks, u # t PROVE Alone(u)'
    <3>1. \A x : InFrame(x, u)' <=> InFrame(x, u)
      BY <2>1
    <3>2. \A r \in Tasks : InWait(r, u)' <=> InWait(r, u)
      BY <1>3, <2>1
    <3> QED
      BY <3>1, <3>2, AloneSame DEF IInv, Spots, InReady, Active
  <2>2. Alone(t)'
    <3>1. Alone(t) /\ Active(t)' /\ \A q \in Queues : InReady(q, t)' <=> InReady(q, t)
      BY DEF IInv, Spots, InReady, Active
    <3>2. \A x : x # y => ~InFrame(x, t)
      BY <3>1 DEF Alone, InFrame
    <3>3. CASE consumed[p]
      <4>1. \A r \in Tasks : InWait(r, t)' <=> InWait(r, t)
        BY <1>3, <3>3
      <4>2. \A x : InFrame(x, t)' <=> x = y
        BY <3>2, <3>3
      <4> QED
        BY <3>1, <3>3, <4>1, <4>2, AloneHeld
    <3>4. CASE ~consumed[p]
      <4>1. \A r \in Tasks : InWait(r, t)' <=> InWait(r, t) \/ r = p
        BY <1>3, <3>4
      <4>2. \A x : ~InFrame(x, t)'
        BY <3>2, <3>4
      <4> QED
        BY <3>1, <4>1, <4>2, AloneToWait
    <3> QED
      BY <3>3, <3>4
  <2>3. \A x \in FramePlaces' : Inj(FrameAt(x)'.rest)
    BY RestsStep
  <2> QED
    BY <1>3, <2>1, <2>2, <2>3 DEF IInv, Spots
<1>7. FramesKnow'
  BY <1>2, KnowTop
<1>8. Homes'
  <2>1. \A u \in Tasks : (Settled(u) => Settled(u)') /\ Settled(t)'
    BY <1>2 DEF Settled
  <2> QED
    BY <2>1, HomesStep
<1>9. WaitsOnActive' /\ ReadyRunnable' /\ Kinds'
  <2>1. WaitsOnActive'
    <3>1. p <= allocated
      <4>1. p \in live
        BY <1>1, PredecessorIsLive
      <4>2. m_ref_count[p] > 0
        BY <4>1 DEF IInv, Refs
      <4> QED
        BY <1>1, <4>2, Basics, SMTT(20) DEF IInv, Known, Kinds
    <3> QED
      BY <1>3, <3>1 DEF IInv, Known, WaitsOnActive, Active
  <2> QED
    BY <2>1, SMTT(20) DEF IInv, Known, ReadyRunnable, Kinds, InReady, NonNull
<1>10. Refs'
  <2>1. ASSUME NEW u \in Tasks PROVE RefSum(u)' = RefSum(u)
    <3>1. Futures(u)' = Futures(u) /\ Entries(u)' = Entries(u)
      BY DEF Futures, Entries, Created
    <3>2. Own(u)' = Own(u)
      <4>1. \A x : x \in Completing(u)' <=> x \in Completing(u)
        OBVIOUS
      <4> QED
        BY <4>1 DEF Own
    <3>3. CASE u = p /\ m_is_respawning[t]
      <4>1. Respawning(u)' = Respawning(u) \ {t} /\ t \in Respawning(u)
        <5>1. t \in Respawning(u)
          BY <1>1, <3>3 DEF Respawning, Created
        <5>2. \A x \in Created : m_is_respawning'[x] /\ m_predecessor'[x] = u <=>
                                 m_is_respawning[x] /\ m_predecessor[x] = u /\ x # t
          BY <1>1, <1>2, Basics
        <5> QED
          BY <5>1, <5>2 DEF Respawning, Created
      <4>2. Releasing(u)' = Releasing(u) \cup {y} /\ y \notin Releasing(u)
        BY <3>3
      <4>3. IsFiniteSet(Respawning(u)) /\ IsFiniteSet(Releasing(u))
        BY <1>1, RefsFinite
      <4>4. Cardinality(Respawning(u)') = Cardinality(Respawning(u)) - 1
        BY <4>1, <4>3, OneLess
      <4>5. Cardinality(Releasing(u)') = Cardinality(Releasing(u)) + 1
        BY <4>2, <4>3, OneMore
      <4> QED
        BY <1>1, <3>1, <3>2, <4>4, <4>5, RefsAreNat, SMTT(20) DEF RefSum
    <3>4. CASE ~(u = p /\ m_is_respawning[t])
      <4>1. Respawning(u)' = Respawning(u)
        <5>1. \A x \in Created : m_is_respawning'[x] /\ m_predecessor'[x] = u <=>
                                 m_is_respawning[x] /\ m_predecessor[x] = u
          BY <1>1, <1>2, <3>4, Basics
        <5> QED
          BY <5>1 DEF Respawning, Created
      <4>2. Releasing(u)' = Releasing(u)
        <5>1. \A x : x \in Releasing(u)' <=> x \in Releasing(u)
          BY <3>4
        <5> QED
          BY <5>1 DEF Releasing
      <4> QED
        BY <3>1, <3>2, <4>1, <4>2 DEF RefSum
    <3> QED
      BY <3>3, <3>4
  <2>2. \A u \in Tasks : \A x, z \in Completing(u)' : x = z
    BY SMTT(20) DEF IInv, Refs
  <2> QED
    BY <2>1, <2>2, RefsSame
<1>11. AfterInv'
  BY <1>2, <1>3, AfterStep, SMTT(20)
<1>12. Count'
  BY CountSame
<1>13. Rank'
  <2>1. \A u \in Tasks : NonNull(u)' = NonNull(u)
    BY DEF NonNull
  <2> QED
    BY <1>2, <1>3, <2>1, RankStep
<1>14. Exec'
  BY ExecStep DEF StepOf, execVars
<1> QED
  BY <1>4, <1>5, <1>6, <1>7, <1>8, <1>9, <1>10, <1>11, <1>12, <1>13, <1>14 DEF IInv, Known

(* ScheduleWaiting preserves the invariant. *)
LEMMA ScheduleWaitingInv ==
    ASSUME IInv, NEW a \in Actors, ScheduleWaiting(a), UNCHANGED <<userVars, execVars>>
    PROVE  IInv'
<1> PICK y, t, p : y = <<a, Depth(a)>> /\ t = Top(a).task /\ p = m_predecessor[t]
  OBVIOUS
<1> stack[a] # << >> /\ Top(a).at = "schedule"
  BY DEF ScheduleWaiting, At
<1>1. /\ t \in Tasks /\ t \in 0..allocated /\ t # HostCode /\ Null \in 0..allocated
      /\ Depth(a) > 1 /\ Depth(a) # 1 /\ task_type[t] = "runnable" /\ TypeOK
  <2>1. Depth(a) \in Nat
    BY TopFacts
  <2> QED
    BY <2>1, TopTask, Basics, SMTT(20), Z3T(20) DEF IInv, HostCode, Null
<1>2. /\ p \in Tasks /\ p \in 0..allocated /\ p # Null
  <2>1. p \in Tasks /\ p # Null
    BY <1>1 DEF ScheduleWaiting, TypeOK, Owners, HostCode, Null
  <2>2. p \in live
    BY <2>1, TopFacts, PredecessorIsLive
  <2>3. m_ref_count[p] > 0
    BY <2>1, <2>2 DEF IInv, Refs
  <2>4. p <= allocated
    <3>1. p \in Nat /\ allocated \in Nat /\ (p > allocated => m_ref_count[p] = 0)
      BY <1>1, <2>1, Basics DEF IInv, Known, Kinds
    <3> QED
      BY <2>3, <3>1, SMTT(20), Z3T(20)
  <2> QED
    BY <1>1, <2>1, <2>4, Basics, SMTT(20), Z3T(20)
<1>3. /\ m_predecessor' = [m_predecessor EXCEPT ![t] = Null]
      /\ m_is_respawning' = [m_is_respawning EXCEPT ![t] = FALSE]
      /\ TriesToWait(p, t)
  BY DEF ScheduleWaiting, TriesToWait
<1>4. UNCHANGED <<live, task_type, m_ref_count, consumed, vla, queue_index, m_ready_queues,
                  m_ready_count, holds, allocated, after, respawns, where, phase, waits>>
  BY DEF ScheduleWaiting, queueVars, userVars, execVars
<1>5. y \in FramePlaces /\ FrameAt(y) = Top(a) /\ FrameKnows(a, Depth(a), Top(a))
  BY TopFacts
<1>6. \A u : y \notin Completing(u) /\ y \notin Releasing(u) /\ y \notin Pushing
  BY <1>5 DEF Completing, Releasing, Releases, Pushing
<1>7. m_predecessor'[t] = Null
  BY <1>1, <1>3 DEF TypeOK
<1>8. CASE ~consumed[p] /\ ~m_is_respawning[t]
  <2>1. Return(a)
    BY <1>8 DEF ScheduleWaiting
  <2>2. Popped(a)
    BY <1>1, <2>1, ReturnEffect
  <2>3. /\ \A x, u : InFrame(x, u)' <=> IF x = y THEN consumed[p] /\ u = t ELSE InFrame(x, u)
        /\ \A x, u : x \in Releasing(u)' <=> IF x = y THEN m_is_respawning[t] /\ u = p
                                                      ELSE x \in Releasing(u)
    BY <1>8, <2>2 DEF Popped
  <2>4. /\ \A x, u : x \in Completing(u)' <=> x # y /\ x \in Completing(u)
        /\ \A x : x \in Pushing' <=> x # y /\ x \in Pushing
    BY <2>2 DEF Popped
  <2>5. \A x \in FramePlaces' : \/ x \in FramePlaces /\ x # y /\ FrameAt(x)' = FrameAt(x)
                                \/ /\ FrameOK(x[1], x[2], FrameAt(x))'
                                   /\ FrameKnows(x[1], x[2], FrameAt(x))'
                                   /\ Inj(FrameAt(x)'.rest)
    BY <2>2 DEF Popped
  <2>6. /\ StepOf(a) /\ stack'[Main] # << >> /\ Busy' = Busy
        /\ consumed[p] => y \in FramePlaces'
    BY <1>1, <1>8, <2>2 DEF Popped
  <2>7. StopsPreceding(a, y, t, p)
    BY <1>3, <1>4, <2>3, <2>4, <2>5, <2>6 DEF StopsPreceding
  <2> QED
    BY <1>1, <1>2, <2>7, WaitingRest
<1>9. CASE consumed[p] \/ m_is_respawning[t]
  <2>1. PICK f : /\ Goto(a, f) /\ f \in FrameState /\ f.task = t /\ Inj(f.rest)
                 /\ \/ /\ ~consumed[p] /\ m_is_respawning[t]
                       /\ f.at = "unref" /\ f.pred = p /\ f.next = "return"
                    \/ /\ consumed[p]
                       /\ f.at = "info" /\ f.pred = p
                       /\ f.next = IF m_is_respawning[t] THEN "unref" ELSE "schedule"
                    \/ /\ consumed[p] /\ m_is_respawning[t]
                       /\ f.at = "unref" /\ f.pred = p /\ f.next = "schedule"
                    \/ /\ consumed[p] /\ ~m_is_respawning[t]
                       /\ f.at = "schedule" /\ f.pred = Null
    <3>1. t \in Owners /\ p \in Owners
      BY <1>1, <1>2 DEF Owners
    <3>2. PICK s, u, i : s = Frame("schedule", t) /\ u = Frame("unref", t) /\ i = Frame("info", t)
      OBVIOUS
    <3>3. /\ s \in FrameState /\ s.task = t /\ s.at = "schedule" /\ s.pred = Null /\ Inj(s.rest)
          /\ u \in FrameState /\ u.task = t /\ u.at = "unref" /\ Inj(u.rest)
          /\ i \in FrameState /\ i.task = t /\ i.at = "info" /\ Inj(i.rest)
      <4>1. "schedule" \in Ats /\ "unref" \in Ats /\ "info" \in Ats
        BY DEF Ats
      <4>2. NewFrame(s, "schedule", t) /\ NewFrame(u, "unref", t) /\ NewFrame(i, "info", t)
        BY <4>1, <3>1, <3>2, FrameFacts
      <4> QED
        BY <4>2 DEF NewFrame
    <3>4. CASE ~consumed[p]
      <4>1. PICK f : f = [u EXCEPT !.pred = p, !.next = "return"] /\ Goto(a, f)
        BY <1>9, <3>2, <3>4 DEF ScheduleWaiting
      <4>2. /\ f \in FrameState /\ f.task = t /\ Inj(f.rest)
            /\ f.at = "unref" /\ f.pred = p /\ f.next = "return"
        BY <3>1, <3>3, <4>1 DEF FrameState, Nexts
      <4> QED
        BY <1>9, <3>4, <4>1, <4>2
    <3>5. CASE consumed[p] /\ task_type[p] = "runnable"
      <4>1. PICK f : /\ f = [i EXCEPT !.pred = p, !.next = IF m_is_respawning[t] THEN "unref" ELSE "schedule"]
                     /\ Goto(a, f)
        BY <3>2, <3>5 DEF ScheduleWaiting
      <4>2. /\ f \in FrameState /\ f.task = t /\ Inj(f.rest)
            /\ f.at = "info" /\ f.pred = p
            /\ f.next = IF m_is_respawning[t] THEN "unref" ELSE "schedule"
        BY <3>1, <3>3, <4>1 DEF FrameState, Nexts
      <4> QED
        BY <3>5, <4>1, <4>2
    <3>6. CASE consumed[p] /\ task_type[p] = "aggregate" /\ m_is_respawning[t]
      <4>1. PICK f : f = [u EXCEPT !.pred = p, !.next = "schedule"] /\ Goto(a, f)
        BY <3>2, <3>6 DEF ScheduleWaiting
      <4>2. /\ f \in FrameState /\ f.task = t /\ Inj(f.rest)
            /\ f.at = "unref" /\ f.pred = p /\ f.next = "schedule"
        BY <3>1, <3>3, <4>1 DEF FrameState, Nexts
      <4> QED
        BY <3>6, <4>1, <4>2
    <3>7. CASE consumed[p] /\ task_type[p] = "aggregate" /\ ~m_is_respawning[t]
      <4>1. Goto(a, s)
        BY <3>2, <3>7 DEF ScheduleWaiting
      <4> QED
        BY <3>3, <3>7, <4>1
    <3> QED
      BY <1>1, <1>2, <3>4, <3>5, <3>6, <3>7 DEF TypeOK
  <2>2. NewTop(a, f)
    BY <2>1, GotoEffect
  <2>3. \A u : /\ HoldsTask(f, u) <=> consumed[p] /\ u = t
               /\ Releases(f, u) <=> m_is_respawning[t] /\ u = p
    BY <1>9, <2>1 DEF HoldsTask, Releases
  <2>4. \A x : FrameAt(x)' = f /\ x[1] = a /\ x[2] = Depth(a) => FrameOK(x[1], x[2], FrameAt(x))'
    BY <1>1, <1>2, <1>4, <2>1 DEF FrameOK
  <2>5. \A x : FrameAt(x)' = f /\ x[1] = a /\ x[2] = Depth(a) => FrameKnows(x[1], x[2], FrameAt(x))'
    <3>1. \A d : f.at = "info" /\ f.next = "schedule" /\ d = Depth(a) => Kept(a, d, p)'
      <4> SUFFICES ASSUME NEW d, f.at = "info", f.next = "schedule", d = Depth(a) PROVE Kept(a, d, p)'
        OBVIOUS
      <4>1. Kept(a, d, p)
        BY <1>2, <1>5, <2>1 DEF FrameKnows
      <4>2. stack'[a][1] = stack[a][1]
        <5>1. Len(stack[a]) > 0
          BY <1>1, SMTT(20), Z3T(20) DEF Depth
        <5> QED
          BY <1>1, <2>2, <5>1, BelowStep DEF NewTop
      <4> QED
        BY <1>4, <4>1, <4>2 DEF Kept
    <3>2. f.task = t /\ f.at \in {"schedule", "info", "unref"} /\ (f.at = "info" => f.pred = p)
      BY <2>1
    <3> QED
      <4> SUFFICES ASSUME NEW x, FrameAt(x)' = f, x[1] = a, x[2] = Depth(a)
                   PROVE  FrameKnows(x[1], x[2], FrameAt(x))'
        OBVIOUS
      <4> QED
        BY <1>7, <3>1, <3>2 DEF FrameKnows
  <2>6. /\ \A x, u : InFrame(x, u)' <=> IF x = y THEN consumed[p] /\ u = t ELSE InFrame(x, u)
        /\ \A x, u : x \in Releasing(u)' <=> IF x = y THEN m_is_respawning[t] /\ u = p
                                                      ELSE x \in Releasing(u)
    BY <2>2, <2>3 DEF NewTop
  <2>7. /\ \A x, u : x \in Completing(u)' <=> x # y /\ x \in Completing(u)
        /\ \A x : x \in Pushing' <=> x # y /\ x \in Pushing
    BY <2>1, <2>2 DEF NewTop
  <2>8. \A x \in FramePlaces' : \/ x \in FramePlaces /\ x # y /\ FrameAt(x)' = FrameAt(x)
                                \/ /\ FrameOK(x[1], x[2], FrameAt(x))'
                                   /\ FrameKnows(x[1], x[2], FrameAt(x))'
                                   /\ Inj(FrameAt(x)'.rest)
    BY <2>1, <2>2, <2>4, <2>5 DEF NewTop
  <2>9. /\ StepOf(a) /\ stack'[Main] # << >> /\ Busy' = Busy
        /\ consumed[p] => y \in FramePlaces'
    BY <1>3, <2>2 DEF NewTop
  <2>10. StopsPreceding(a, y, t, p)
    BY <1>3, <1>4, <2>6, <2>7, <2>8, <2>9 DEF StopsPreceding
  <2> QED
    BY <1>1, <1>2, <2>10, WaitingRest
<1> QED
  BY <1>8, <1>9

-----------------------------------------------------------------------------
(* Aggregates *)

(* The entry is taken out of the aggregate. *)
ClearsEntry(g, i) == vla' = [vla EXCEPT ![g][i] = Null]

(* That entry is null, and nothing else of any aggregate changed. *)
EntryGone(g, i, p) ==
    /\ vla' \in [Tasks -> Seq(Owners)]
    /\ \A u \in Tasks : u # g => vla'[u] = vla[u]
    /\ Len(vla'[g]) = Len(vla[g])
    /\ \A j \in 1..Len(vla[g]) : vla'[g][j] = IF j = i THEN Null ELSE vla[g][j]
    /\ \A u \in Tasks : \A j : j \in NonNull(u)' <=> j \in NonNull(u) /\ (u = g => j # i)
    /\ \A u \in Tasks : \A j \in NonNull(u)' : vla'[u][j] = vla[u][j]
    /\ \A u \in Tasks : SeqHas(vla[g], u) => SeqHas(vla'[g], u) \/ u = p

(* The loop over the predecessors clears one entry of the aggregate. *)
LEMMA EntryCleared ==
    ASSUME IInv, NEW g \in Tasks, NEW i \in NonNull(g), NEW p \in Tasks, p = vla[g][i],
           task_type[g] = "aggregate", ClearsEntry(g, i)
    PROVE  EntryGone(g, i, p)
<1>1. vla \in [Tasks -> Seq(Owners)] /\ Null \in Owners
  BY DEF IInv, TypeOK, Owners, HostCode, Null
<1>2. i \in 1..Len(vla[g])
  BY DEF NonNull
<1>3. PICK s : s = [vla[g] EXCEPT ![i] = Null]
  OBVIOUS
<1>4. /\ s \in Seq(Owners) /\ Len(s) = Len(vla[g])
      /\ \A j \in 1..Len(vla[g]) : s[j] = IF j = i THEN Null ELSE vla[g][j]
  BY <1>1, <1>2, <1>3, ReplaceSeq, SMTT(20), Z3T(20)
<1>5. vla' = [vla EXCEPT ![g] = s]
  BY <1>1, <1>3 DEF ClearsEntry
<1>6. vla'[g] = s /\ vla' \in [Tasks -> Seq(Owners)] /\ \A u \in Tasks : u # g => vla'[u] = vla[u]
  BY <1>1, <1>4, <1>5
<1>7. \A u \in Tasks : \A j : j \in NonNull(u)' <=> j \in NonNull(u) /\ (u = g => j # i)
  BY <1>4, <1>6 DEF NonNull
<1>8. \A u \in Tasks : \A j \in NonNull(u)' : vla'[u][j] = vla[u][j]
  BY <1>4, <1>6 DEF NonNull
<1>9. \A u \in Tasks : SeqHas(vla[g], u) => SeqHas(vla'[g], u) \/ u = p
  BY <1>4, <1>6 DEF SeqHas
<1> QED
  BY <1>4, <1>6, <1>7, <1>8, <1>9 DEF EntryGone

(* A cleared entry is one reference less to that predecessor and to no     *)
(* other task.                                                             *)
LEMMA EntriesCleared ==
    ASSUME IInv, NEW g \in Tasks, NEW i \in NonNull(g), NEW p \in Tasks, p = vla[g][i],
           task_type[g] = "aggregate", ClearsEntry(g, i), g <= allocated,
           UNCHANGED allocated, NEW u \in Tasks
    PROVE  /\ u # p => Entries(u)' = Entries(u)
           /\ u = p => Entries(u)' = Entries(u) \ {<<g, i>>} /\ <<g, i>> \in Entries(u)
<1>1. /\ \A t \in Tasks : t # g => vla'[t] = vla[t]
      /\ Len(vla'[g]) = Len(vla[g])
      /\ \A j \in 1..Len(vla[g]) : vla'[g][j] = IF j = i THEN Null ELSE vla[g][j]
  BY EntryCleared DEF EntryGone
<1>2. /\ \A t \in Created : t \in Tasks
      /\ g \in Created /\ u # Null /\ MaxVla \in Nat /\ Len(vla[g]) <= MaxVla /\ Len(vla[g]) \in Nat
  <2>1. TypeOK /\ Len(vla[g]) <= MaxVla
    BY DEF IInv, Known, Kinds
  <2>2. Len(vla[g]) \in Nat
    BY <2>1, SMTT(20), Z3T(20) DEF TypeOK
  <2> QED
    BY <2>1, <2>2, Basics
<1>3. i \in 1..Len(vla[g]) /\ i \in 1..MaxVla
  BY <1>2, SMTT(20), Z3T(20) DEF NonNull
<1>4. ASSUME NEW t \in Created, NEW j \in 1..MaxVla
      PROVE  j <= Len(vla'[t]) /\ vla'[t][j] = u <=>
             j <= Len(vla[t]) /\ vla[t][j] = u /\ ~(t = g /\ j = i)
  <2>1. CASE t # g
    BY <1>1, <1>2, <2>1
  <2>2. CASE t = g /\ j <= Len(vla[g])
    <3>1. j \in 1..Len(vla[g])
      BY <1>2, <2>2, SMTT(20), Z3T(20)
    <3> QED
      BY <1>1, <1>2, <2>2, <3>1
  <2>3. CASE t = g /\ ~(j <= Len(vla[g]))
    BY <1>1, <2>3
  <2> QED
    BY <2>1, <2>2, <2>3
<1>5. Entries(u)' = Entries(u) \ {<<g, i>>}
  BY <1>4, SMTT(20), Z3T(20) DEF Entries, Created
<1>6. <<g, i>> \in Entries(u) <=> u = p
  BY <1>2, <1>3, SMTT(20), Z3T(20) DEF Entries
<1> QED
  BY <1>5, <1>6

(* AggregateTry preserves the invariant. *)
LEMMA AggregateTryInv ==
    ASSUME IInv, NEW a \in Actors, AggregateTry(a), UNCHANGED <<userVars, execVars>>
    PROVE  IInv'
<1> PICK y, g, i, p : y = <<a, Depth(a)>> /\ g = Top(a).task /\ i = First(g) /\ p = vla[g][i]
  OBVIOUS
<1> stack[a] # << >> /\ Top(a).at = "aggregate"
  BY DEF AggregateTry, At
<1> g \in Tasks /\ TypeOK /\ task_type[g] = "aggregate"
  BY TopTask DEF IInv
<1>1. /\ g \in 0..allocated /\ g <= allocated /\ g # HostCode /\ Null \in 0..allocated
      /\ Depth(a) > 1 /\ Depth(a) # 1
  <2>1. Depth(a) \in Nat
    BY TopFacts
  <2> QED
    BY <2>1, TopTask, Basics, SMTT(20), Z3T(20) DEF HostCode, Null
<1>2. i \in NonNull(g) /\ ClearsEntry(g, i)
  BY FirstIsNonNull DEF AggregateTry, ClearsEntry, TypeOK
<1>3. p \in Tasks /\ p \in 0..allocated /\ p <= allocated /\ p # Null
  BY <1>2, EntryIsLive, LiveIsCreated, Basics
<1>4. UNCHANGED <<live, task_type, m_ref_count, consumed, m_predecessor, m_is_respawning, queue_index,
                  m_ready_queues, m_ready_count, holds, allocated, after, respawns, where, phase, waits>>
  BY DEF AggregateTry, queueVars, userVars, execVars
<1>5. /\ y \in FramePlaces /\ FrameAt(y) = Top(a)
      /\ \A u : InFrame(y, u) <=> u = g
      /\ \A u : y \notin Completing(u) /\ y \notin Releasing(u)
      /\ y \notin Pushing
  <2>1. y \in FramePlaces /\ FrameAt(y) = Top(a)
    BY TopFacts
  <2> QED
    BY <2>1 DEF InFrame, HoldsTask, Completing, Releasing, Releases, Pushing
<1>6. Active(g) /\ ~consumed[g]
  BY <1>5, PlacedIsLive DEF Active
<1>7. PICK f : /\ Goto(a, f) /\ f \in FrameState /\ f.at = "aggregate_unref" /\ f.task = g /\ f.pred = p
               /\ f.next = (IF consumed[p] THEN "aggregate" ELSE "return") /\ Inj(f.rest)
  <2>1. g \in Owners /\ p \in Owners
    BY <1>3 DEF Owners
  <2>2. PICK h : h = Frame("aggregate_unref", g)
    OBVIOUS
  <2>3. /\ h \in FrameState /\ h.task = g /\ h.at = "aggregate_unref" /\ Inj(h.rest) /\ h.next = "return"
    <3>1. "aggregate_unref" \in Ats
      BY DEF Ats
    <3>2. NewFrame(h, "aggregate_unref", g)
      BY <3>1, <2>1, <2>2, FrameFacts
    <3> QED
      BY <3>2 DEF NewFrame
  <2>4. CASE consumed[p]
    <3>1. PICK f : f = [h EXCEPT !.pred = p, !.next = "aggregate"] /\ Goto(a, f)
      BY <2>2, <2>4 DEF AggregateTry
    <3>2. /\ f \in FrameState /\ f.at = "aggregate_unref" /\ f.task = g /\ f.pred = p
          /\ f.next = "aggregate" /\ Inj(f.rest)
      BY <2>1, <2>3, <3>1 DEF FrameState, Nexts
    <3> QED
      BY <2>4, <3>1, <3>2
  <2>5. CASE ~consumed[p]
    <3>1. PICK f : f = [h EXCEPT !.pred = p] /\ Goto(a, f)
      BY <2>2, <2>5 DEF AggregateTry
    <3>2. /\ f \in FrameState /\ f.at = "aggregate_unref" /\ f.task = g /\ f.pred = p
          /\ f.next = "return" /\ Inj(f.rest)
      BY <2>1, <2>3, <3>1 DEF FrameState, Nexts
    <3> QED
      BY <2>5, <3>1, <3>2
  <2> QED
    BY <2>4, <2>5
<1>8. NewTop(a, f)
  BY <1>7, GotoEffect
<1>9. \A u : /\ HoldsTask(f, u) <=> consumed[p] /\ u = g
             /\ Releases(f, u) <=> u = p
  BY <1>7 DEF HoldsTask, Releases
<1>10. /\ m_wait_queue' \in [Tasks -> Seq(Tasks)]
       /\ \A r \in Tasks : Inj(m_wait_queue'[r])
       /\ \A r \in Tasks : \A u : InWait(r, u)' <=> InWait(r, u) \/ (~consumed[p] /\ r = p /\ u = g)
  <2>1. TriesToWait(p, g)
    BY DEF AggregateTry, TriesToWait
  <2>2. p \in Tasks /\ y \in FramePlaces /\ InFrame(y, g)
    BY <1>3, <1>5
  <2> QED
    BY <2>1, <2>2, JoinWaitQueue, SMTT(20), Z3T(20)
<1>11. /\ vla' \in [Tasks -> Seq(Owners)]
       /\ \A u \in Tasks : u # g => vla'[u] = vla[u]
       /\ Len(vla'[g]) = Len(vla[g])
       /\ \A u \in Tasks : \A j : j \in NonNull(u)' <=> j \in NonNull(u) /\ (u = g => j # i)
       /\ \A u \in Tasks : \A j \in NonNull(u)' : vla'[u][j] = vla[u][j]
       /\ \A u \in Tasks : SeqHas(vla[g], u) => SeqHas(vla'[g], u) \/ u = p
  <2>1. EntryGone(g, i, p)
    BY <1>2, <1>3, EntryCleared
  <2> QED
    BY <2>1 DEF EntryGone
<1>12. TypeOK'
  BY <1>4, <1>8, <1>10, <1>11 DEF TypeOK, NewTop, StepOf
<1>13. Shape'
  <2>1. \A x : FrameAt(x)' = f /\ x[1] = a /\ x[2] = Depth(a) => FrameOK(x[1], x[2], FrameAt(x))'
    BY <1>1, <1>3, <1>4, <1>7 DEF FrameOK
  <2> QED
    BY <1>4, <1>8, <2>1, Basics, ShapeStep, Numbers DEF NewTop
<1>14. Spots'
  <2>1. ASSUME NEW u \in Tasks, u # g PROVE Alone(u)'
    <3>1. \A x : InFrame(x, u)' <=> InFrame(x, u)
      BY <1>5, <1>8, <1>9, <2>1 DEF NewTop
    <3>2. \A r \in Tasks : InWait(r, u)' <=> InWait(r, u)
      BY <1>10, <2>1
    <3> QED
      BY <1>4, <3>1, <3>2, AloneSame DEF IInv, Spots, InReady, Active
  <2>2. Alone(g)'
    <3>1. Alone(g) /\ Active(g)' /\ \A q \in Queues : InReady(q, g)' <=> InReady(q, g)
      BY <1>4, <1>6 DEF IInv, Spots, InReady, Active
    <3>2. \A x : x # y => ~InFrame(x, g)
      BY <1>5, <3>1 DEF Alone, InFrame
    <3>3. \A x : InFrame(x, g)' <=> x = y /\ consumed[p]
      BY <1>8, <1>9, <3>2 DEF NewTop
    <3>4. CASE consumed[p]
      <4>1. \A r \in Tasks : InWait(r, g)' <=> InWait(r, g)
        BY <1>10, <3>4
      <4>2. y \in FramePlaces'
        BY <1>8 DEF NewTop
      <4> QED
        BY <1>5, <1>6, <3>1, <3>3, <3>4, <4>1, <4>2, AloneHeld, SMTT(20), Z3T(20)
    <3>5. CASE ~consumed[p]
      <4>1. \A r \in Tasks : InWait(r, g)' <=> InWait(r, g) \/ r = p
        BY <1>10, <3>5
      <4> QED
        BY <1>3, <1>5, <1>6, <3>1, <3>3, <3>5, <4>1, AloneToWait
    <3> QED
      BY <3>4, <3>5
  <2>3. \A x \in FramePlaces' : Inj(FrameAt(x)'.rest)
    BY <1>7, <1>8, RestsStep DEF NewTop
  <2> QED
    BY <1>4, <1>10, <2>1, <2>2, <2>3 DEF IInv, Spots
<1>15. FramesKnow'
  <2>1. \A x : FrameAt(x)' = f => FrameKnows(x[1], x[2], FrameAt(x))'
    BY <1>7 DEF FrameKnows
  <2> QED
    BY <1>4, <1>8, <2>1, KnowSame DEF NewTop
<1>16. Homes'
  BY <1>4, <1>8, HomesStep DEF NewTop, Settled
<1>17. WaitsOnActive' /\ ReadyRunnable' /\ Kinds'
  <2>1. WaitsOnActive'
    BY <1>3, <1>4, <1>10 DEF IInv, Known, WaitsOnActive, Active
  <2>2. ReadyRunnable'
    BY <1>4 DEF IInv, Known, ReadyRunnable, InReady
  <2>3. Kinds'
    <3>1. Kinds
      BY DEF IInv, Known
    <3>2. ASSUME NEW u \in Tasks, u # g PROVE NonNull(u)' = NonNull(u) /\ vla'[u] = vla[u]
      BY <1>11, <3>2 DEF NonNull
    <3>3. ~(g > allocated) /\ ~consumed[g]
      BY <1>1, <1>6, Basics, SMTT(20), Z3T(20)
    <3> QED
      BY <1>4, <1>11, <3>1, <3>2, <3>3 DEF Kinds
  <2> QED
    BY <2>1, <2>2, <2>3
<1>18. Refs'
  <2>1. ASSUME NEW u \in Tasks PROVE RefSum(u)' = RefSum(u)
    <3>1. Futures(u)' = Futures(u) /\ Respawning(u)' = Respawning(u)
      BY <1>4 DEF Futures, Respawning, Created
    <3>2. Own(u)' = Own(u)
      <4>1. \A x : x \in Completing(u)' <=> x \in Completing(u)
        BY <1>5, <1>7, <1>8 DEF NewTop
      <4> QED
        BY <1>4, <4>1 DEF Own
    <3>0. /\ u # p => Entries(u)' = Entries(u)
          /\ u = p => Entries(u)' = Entries(u) \ {<<g, i>>} /\ <<g, i>> \in Entries(u)
      <4>1. UNCHANGED allocated /\ g <= allocated /\ i \in NonNull(g) /\ p \in Tasks /\ ClearsEntry(g, i)
        BY <1>1, <1>2, <1>3, <1>4
      <4> QED
        BY <4>1, EntriesCleared, SMTT(20), Z3T(20)
    <3>3. CASE u = p
      <4>1. Entries(u)' = Entries(u) \ {<<g, i>>} /\ <<g, i>> \in Entries(u)
        BY <3>0, <3>3
      <4>2. Releasing(u)' = Releasing(u) \cup {y} /\ y \notin Releasing(u)
        BY <1>5, <1>8, <1>9, <3>3 DEF NewTop
      <4>3. IsFiniteSet(Entries(u)) /\ IsFiniteSet(Releasing(u))
        BY RefsFinite
      <4>4. Cardinality(Entries(u)') = Cardinality(Entries(u)) - 1
        BY <4>1, <4>3, OneLess
      <4>5. Cardinality(Releasing(u)') = Cardinality(Releasing(u)) + 1
        BY <4>2, <4>3, OneMore
      <4> QED
        BY <3>1, <3>2, <4>4, <4>5, RefsAreNat, SMTT(20), Z3T(20) DEF RefSum
    <3>4. CASE u # p
      <4>1. Entries(u)' = Entries(u)
        BY <3>0, <3>4
      <4>2. Releasing(u)' = Releasing(u)
        <5>1. \A x : x \in Releasing(u)' <=> x \in Releasing(u)
          BY <1>5, <1>8, <1>9, <3>4 DEF NewTop
        <5> QED
          BY <5>1 DEF Releasing
      <4> QED
        BY <3>1, <3>2, <4>1, <4>2 DEF RefSum
    <3> QED
      BY <3>3, <3>4
  <2>2. \A u \in Tasks : \A x, z \in Completing(u)' : x = z
    BY <1>7, <1>8, SMTT(20), Z3T(20) DEF NewTop, IInv, Refs
  <2> QED
    BY <1>4, <2>1, <2>2, RefsSame
<1>19. AfterInv'
  BY <1>3, <1>4, <1>10, <1>11, AfterStep
<1>20. Count'
  BY <1>4, <1>5, <1>7, <1>8, CountSame DEF NewTop
<1>21. Rank'
  <2>1. \A u \in Tasks : \A j \in NonNull(u)' : j \in NonNull(u) /\ vla'[u][j] = vla[u][j]
    BY <1>11
  <2>2. \A r, u \in Tasks : InWait(r, u)' =>
               InWait(r, u) \/ r = m_predecessor[u] \/ \E j \in NonNull(u) : vla[u][j] = r
    BY <1>2, <1>10
  <2> QED
    BY <1>4, <2>1, <2>2, RankStep
<1>22. Exec'
  BY <1>4, <1>8, ExecStep DEF NewTop, StepOf, execVars
<1> QED
  BY <1>12, <1>13, <1>14, <1>15, <1>16, <1>17, <1>18, <1>19, <1>20, <1>21, <1>22 DEF IInv, Known

-----------------------------------------------------------------------------
(* Consuming a wait queue *)

(* A task that is complete is in no place. *)
LEMMA AloneGone ==
    ASSUME NEW t \in Tasks, Alone(t), NEW y \in FramePlaces, InFrame(y, t),
           \A q \in Queues : InReady(q, t)' <=> InReady(q, t),
           \A p \in Tasks : InWait(p, t)' => InWait(p, t),
           \A x : ~InFrame(x, t)',
           ~Active(t)'
    PROVE  Alone(t)'
<1>1. (\A q \in Queues : ~InReady(q, t)) /\ (\A p \in Tasks : ~InWait(p, t))
  BY DEF Alone
<1> QED
  BY <1>1 DEF Alone

(* A task that a thread takes with a consumed wait queue stays in one place. *)
LEMMA AloneFromWait ==
    ASSUME NEW t \in Tasks, Alone(t), NEW z \in FramePlaces', NEW r \in Tasks, InWait(r, t),
           \A p \in Tasks : InWait(p, t)' <=> InWait(p, t) /\ p # r,
           \A q \in Queues : InReady(q, t)' <=> InReady(q, t),
           \A x : InFrame(x, t)' <=> InFrame(x, t) \/ x = z,
           Active(t)' <=> Active(t)
    PROVE  Alone(t)'
<1>1. Active(t) /\ \A x : ~InFrame(x, t)
  BY DEF Alone, InFrame
<1>2. (\A p \in Tasks : InWait(p, t) => p = r) /\ (\A q \in Queues : ~InReady(q, t))
  BY DEF Alone
<1>3. (\A p \in Tasks : ~InWait(p, t)') /\ (\A q \in Queues : ~InReady(q, t)')
  BY <1>2
<1> QED
  BY <1>1, <1>3, SMTT(20), Z3T(20) DEF Alone

(* Consume preserves the invariant. *)
LEMMA ConsumeInv ==
    ASSUME IInv, NEW a \in Actors, Consume(a), UNCHANGED <<userVars, execVars>>
    PROVE  IInv'
<1> PICK y, t : y = <<a, Depth(a)>> /\ t = Top(a).task
  OBVIOUS
<1> stack[a] # << >> /\ Top(a).at \in {"complete", "aggregate"}
  BY DEF Consume, At
<1> t \in Tasks /\ TypeOK
  BY TopTask DEF IInv
<1> UNCHANGED <<live, task_type, m_ref_count, m_predecessor, m_is_respawning, vla, queue_index,
                m_ready_queues, m_ready_count, holds, allocated, after, respawns, where, phase, waits>>
  BY DEF Consume, queueVars, userVars, execVars
<1>1. /\ t \in 0..allocated /\ t <= allocated /\ t # HostCode /\ Null \in 0..allocated
      /\ Depth(a) \in Nat \ {0}
      /\ Depth(a) = 1 => a # Main /\ task_type[t] = "runnable"
      /\ Depth(a) > 1 => task_type[t] = "aggregate"
  <2>1. Depth(a) \in Nat \ {0}
    BY TopFacts
  <2> QED
    BY <2>1, TopTask, Basics, SMTT(20), Z3T(20) DEF HostCode, Null
<1>2. holds[t] = {} /\ NonNull(t) = {} /\ (Top(a).at = "complete" => Settled(t))
  <2>1. CASE At(a, "complete") /\ ~m_is_respawning[t]
    <3>1. FrameKnows(a, Depth(a), Top(a)) /\ task_type[t] = "runnable"
      BY <2>1, TopFacts, TopTask DEF At
    <3>2. vla[t] = << >>
      BY <3>1 DEF IInv, Known, Kinds
    <3> QED
      BY <2>1, <3>1, <3>2, SMTT(20), Z3T(20) DEF FrameKnows, At, Settled, NonNull
  <2>2. CASE At(a, "aggregate") /\ NonNull(t) = {}
    <3>1. task_type[t] = "aggregate"
      BY <2>2, TopTask DEF At
    <3> QED
      BY <2>2, <3>1 DEF IInv, Known, Kinds, At
  <2> QED
    BY <2>1, <2>2 DEF Consume
<1>3. PICK f : /\ Goto(a, f) /\ f \in FrameState /\ f.at = "visit" /\ f.task = t /\ f.pred = Null
               /\ f.rest = m_wait_queue[t]
  <2>1. t \in Owners /\ m_wait_queue[t] \in Seq(Tasks)
    BY DEF Owners, TypeOK
  <2>2. PICK h : h = Frame("visit", t)
    OBVIOUS
  <2>3. h \in FrameState /\ h.task = t /\ h.at = "visit" /\ h.pred = Null
    <3>1. "visit" \in Ats
      BY DEF Ats
    <3>2. NewFrame(h, "visit", t)
      BY <3>1, <2>1, <2>2, FrameFacts
    <3> QED
      BY <3>2 DEF NewFrame
  <2>4. PICK f : f = [h EXCEPT !.rest = m_wait_queue[t]] /\ Goto(a, f)
    BY <2>2 DEF Consume
  <2>5. /\ f \in FrameState /\ f.at = "visit" /\ f.task = t /\ f.pred = Null
        /\ f.rest = m_wait_queue[t]
    BY <2>1, <2>3, <2>4 DEF FrameState
  <2> QED
    BY <2>4, <2>5
<1>4. NewTop(a, f)
  BY <1>3, GotoEffect
<1>5. /\ y \in FramePlaces /\ FrameAt(y) = Top(a)
      /\ \A u : InFrame(y, u) <=> u = t
      /\ \A u : y \notin Completing(u) /\ y \notin Releasing(u)
      /\ y \notin Pushing
  <2>1. y \in FramePlaces /\ FrameAt(y) = Top(a)
    BY TopFacts
  <2> QED
    BY <2>1 DEF InFrame, HoldsTask, Completing, Releasing, Releases, Pushing
<1>6. Alone(t) /\ Active(t) /\ ~consumed[t] /\ ~InWait(t, t) /\ (\A x : x # y => ~InFrame(x, t))
      /\ \A x : x \notin Completing(t)
  <2>1. Alone(t) /\ Active(t)
    BY <1>5, PlacedIsLive DEF IInv, Spots
  <2>2. ASSUME NEW x, x \in Completing(t) PROVE FALSE
    BY <2>1, <2>2 DEF Completing, IInv, Shape, FrameOK, Active
  <2> QED
    BY <1>5, <2>1, <2>2 DEF Alone, InFrame, Active
<1>7. \A u : (HoldsTask(f, u) <=> InWait(t, u)) /\ ~Releases(f, u)
  BY <1>3 DEF HoldsTask, Releases, InWait, SeqHas
<1>8. /\ m_wait_queue' \in [Tasks -> Seq(Tasks)] /\ \A r \in Tasks : Inj(m_wait_queue'[r])
      /\ \A r \in Tasks : \A u : InWait(r, u)' <=> InWait(r, u) /\ r # t
  <2>1. PICK s : s = << >> /\ m_wait_queue' = [m_wait_queue EXCEPT ![t] = s]
    BY DEF Consume
  <2>2. s \in Seq(Tasks) /\ Inj(s) /\ \A u : ~SeqHas(s, u)
    BY <2>1, EmptyList
  <2>3. m_wait_queue \in [Tasks -> Seq(Tasks)] /\ \A r \in Tasks : Inj(m_wait_queue[r])
    BY DEF TypeOK, IInv, Spots
  <2>4. \A r \in Tasks : m_wait_queue'[r] = IF r = t THEN s ELSE m_wait_queue[r]
    BY <2>1, <2>3
  <2>5. m_wait_queue' \in [Tasks -> Seq(Tasks)]
    BY <2>1, <2>2, <2>3
  <2> QED
    BY <2>2, <2>3, <2>4, <2>5 DEF InWait
<1>9. /\ consumed' \in [Tasks -> BOOLEAN]
      /\ \A u \in Tasks : consumed'[u] = IF u = t THEN TRUE ELSE consumed[u]
  BY DEF Consume, TypeOK
<1>10. TypeOK'
  BY <1>4, <1>8, <1>9 DEF TypeOK, NewTop, StepOf
<1>11. Shape'
  <2>1. \A x : FrameAt(x)' = f /\ x[1] = a /\ x[2] = Depth(a) => FrameOK(x[1], x[2], FrameAt(x))'
    BY <1>1, <1>3, <1>9 DEF FrameOK
  <2>2. \A u \in Tasks : consumed[u] => consumed'[u]
    BY <1>9
  <2> QED
    BY <1>4, <2>1, <2>2, Basics, ShapeStep, Numbers DEF NewTop
<1>12. Spots'
  <2>1. Alone(t)'
    <3>1. \A x : ~InFrame(x, t)'
      BY <1>4, <1>6, <1>7 DEF NewTop
    <3>2. ~Active(t)' /\ \A q \in Queues : InReady(q, t)' <=> InReady(q, t)
      BY <1>9 DEF Active, InReady
    <3> QED
      BY <1>5, <1>6, <1>8, <3>1, <3>2, AloneGone
  <2>2. ASSUME NEW u \in Tasks, u # t PROVE Alone(u)'
    <3>1. /\ Alone(u) /\ (Active(u)' <=> Active(u)) /\ \A q \in Queues : InReady(q, u)' <=> InReady(q, u)
      BY <1>9, <2>2 DEF IInv, Spots, InReady, Active
    <3>2. CASE InWait(t, u)
      <4>1. /\ \A x : InFrame(x, u)' <=> InFrame(x, u) \/ x = y
            /\ y \in FramePlaces'
        BY <1>4, <1>7, <3>2 DEF NewTop
      <4> QED
        BY <1>8, <3>1, <3>2, <4>1, AloneFromWait
    <3>3. CASE ~InWait(t, u)
      <4>1. \A x : InFrame(x, u)' <=> InFrame(x, u)
        BY <1>4, <1>5, <1>7, <2>2, <3>3 DEF NewTop
      <4>2. \A r \in Tasks : InWait(r, u)' <=> InWait(r, u)
        BY <1>8, <3>3
      <4> QED
        BY <3>1, <4>1, <4>2, AloneSame
    <3> QED
      BY <3>2, <3>3
  <2>3. \A x \in FramePlaces' : Inj(FrameAt(x)'.rest)
    <3>1. Inj(f.rest)
      BY <1>3 DEF IInv, Spots
    <3> QED
      BY <1>4, <3>1, RestsStep DEF NewTop
  <2> QED
    BY <1>8, <2>1, <2>2, <2>3 DEF IInv, Spots
<1>13. FramesKnow'
  <2>1. \A x : FrameAt(x)' = f => FrameKnows(x[1], x[2], FrameAt(x))'
    BY <1>3 DEF FrameKnows
  <2> QED
    BY <1>4, <2>1, KnowSame DEF NewTop
<1>14. Homes'
  BY <1>2, <1>4, HomesStep DEF NewTop, Settled
<1>15. WaitsOnActive' /\ ReadyRunnable' /\ Kinds'
  <2>1. WaitsOnActive'
    BY <1>8, <1>9 DEF IInv, Known, WaitsOnActive, Active
  <2>2. ReadyRunnable'
    BY DEF IInv, Known, ReadyRunnable, InReady
  <2>3. Kinds'
    <3>1. Kinds
      BY DEF IInv, Known
    <3>2. \A u \in Tasks : NonNull(u)' = NonNull(u)
      BY DEF NonNull
    <3>3. ~(t > allocated)
      BY <1>1, Basics, SMTT(20), Z3T(20)
    <3> QED
      BY <1>2, <1>9, <3>1, <3>2, <3>3 DEF Kinds
  <2> QED
    BY <2>1, <2>2, <2>3
<1>16. \A u \in Tasks : \A x : x \in Completing(u)' <=> x \in Completing(u) \/ (u = t /\ x = y)
  BY <1>3, <1>4, <1>5 DEF NewTop
<1>17. Refs'
  <2>1. ASSUME NEW u \in Tasks PROVE RefSum(u)' = RefSum(u)
    <3>1. Futures(u)' = Futures(u) /\ Respawning(u)' = Respawning(u) /\ Entries(u)' = Entries(u)
      BY DEF Futures, Respawning, Entries, Created
    <3>2. Own(u)' = Own(u)
      <4>1. CASE u = t
        <5>1. y \in Completing(u)'
          BY <1>16, <4>1
        <5> QED
          BY <1>1, <1>6, <4>1, <5>1 DEF Own
      <4>2. CASE u # t
        <5>1. \A x : x \in Completing(u)' <=> x \in Completing(u)
          BY <1>16, <4>2
        <5>2. consumed'[u] = consumed[u]
          BY <1>9, <4>2
        <5> QED
          BY <5>1, <5>2 DEF Own
      <4> QED
        BY <4>1, <4>2
    <3>3. Releasing(u)' = Releasing(u)
      <4>1. \A x : x \in Releasing(u)' <=> x \in Releasing(u)
        BY <1>4, <1>5, <1>7 DEF NewTop
      <4> QED
        BY <4>1 DEF Releasing
    <3> QED
      BY <3>1, <3>2, <3>3 DEF RefSum
  <2>2. \A u \in Tasks : \A x, z \in Completing(u)' : x = z
    BY <1>6, <1>16, SMTT(20), Z3T(20) DEF IInv, Refs
  <2> QED
    BY <2>1, <2>2, RefsSame
<1>18. AfterInv'
  BY <1>8, <1>9, AfterStep
<1>19. Count'
  BY <1>3, <1>4, <1>5, CountSame DEF NewTop
<1>20. Rank'
  <2>1. \A u \in Tasks : NonNull(u)' = NonNull(u)
    BY DEF NonNull
  <2> QED
    BY <1>8, <2>1, RankStep
<1>21. Exec'
  BY <1>4, ExecStep DEF NewTop, StepOf, execVars
<1> QED
  BY <1>10, <1>11, <1>12, <1>13, <1>14, <1>15, <1>17, <1>18, <1>19, <1>20, <1>21 DEF IInv, Known

-----------------------------------------------------------------------------
(* Scheduling: giving up a predecessor *)

(* A task in the hands of a thread that neither runs nor schedules it. *)
LEMMA SettledHeld ==
    ASSUME IInv, NEW x \in FramePlaces, NEW t \in Tasks, InFrame(x, t),
           FrameAt(x).task = t => FrameAt(x).at \notin {"user", "complete", "schedule"}
    PROVE  Settled(t)
<1> SUFFICES ASSUME Home(t) PROVE FALSE
  BY DEF IInv, Known, Homes
<1>1. PICK y \in FramePlaces : FrameAt(y).task = t /\ FrameAt(y).at \in {"user", "complete", "schedule"}
  BY DEF Home
<1>2. InFrame(y, t)
  BY <1>1 DEF InFrame, HoldsTask
<1>3. x = y
  BY <1>2 DEF IInv, Spots, Alone
<1> QED
  BY <1>1, <1>3

(* The same for the task of the top frame. *)
LEMMA SettledTop ==
    ASSUME IInv, NEW a \in Actors, stack[a] # << >>,
           NEW t \in Tasks, HoldsTask(Top(a), t),
           Top(a).at \notin {"user", "complete", "schedule"}
    PROVE  Settled(t)
<1>1. PICK y : y = <<a, Depth(a)>>
  OBVIOUS
<1>2. y \in FramePlaces /\ FrameAt(y) = Top(a) /\ InFrame(y, t)
  BY <1>1, TopFacts
<1> QED
  BY <1>2, SettledHeld

(* Giving up a predecessor: everything but the reference counts. *)
LEMMA UnrefRest ==
    ASSUME IInv, NEW a \in Actors, NEW g, g = Top(a), g.at \in {"unref", "aggregate_unref"},
           NEW p \in Tasks, p = g.pred, NEW t \in Tasks, t = g.task, stack[a] # << >>, Depth(a) > 1,
           Release(p), StepOf(a), Busy' = Busy,
           UNCHANGED <<task_type, m_wait_queue, consumed, m_predecessor,
                       m_is_respawning, vla, queue_index, m_ready_queues, m_ready_count,
                       holds, allocated, after, respawns, where, phase, waits>>,
           \A x, u : InFrame(x, u)' <=> IF x = <<a, Depth(a)>> THEN g.next # "return" /\ u = t
                                                               ELSE InFrame(x, u),
           \A x, u : x \in Releasing(u)' <=> x # <<a, Depth(a)>> /\ x \in Releasing(u),
           \A x, u : x \in Completing(u)' <=> x # <<a, Depth(a)>> /\ x \in Completing(u),
           \A x : x \in Pushing' <=> x # <<a, Depth(a)>> /\ x \in Pushing
    PROVE  /\ TypeOK' /\ (\A u \in Tasks : Alone(u)') /\ Refs' /\ Count' /\ Exec'
           /\ \A u \in Tasks : u > allocated => m_ref_count'[u] = m_ref_count[u]
<1>1. /\ g \in FrameState /\ <<a, Depth(a)>> \in FramePlaces /\ FrameAt(<<a, Depth(a)>>) = g
      /\ \A u \in Tasks : InFrame(<<a, Depth(a)>>, u) <=> HoldsTask(g, u)
  BY TopFacts
<1>2. \A u : Releases(g, u) <=> u = p
  BY DEF Releases
<1>3. <<a, Depth(a)>> \in Releasing(p)
  BY <1>1, <1>2 DEF Releasing
<1>4. m_ref_count[p] # 0 /\ p <= allocated
  BY <1>3, Referenced
<1>5. TypeOK
  BY DEF IInv
<1>6. m_ref_count' \in [Tasks -> Nat] /\ live' \subseteq Tasks
  BY <1>4, <1>5, ReleaseType
<1>7. \A u \in Tasks : u > allocated => m_ref_count'[u] = m_ref_count[u]
  <2>1. allocated \in Nat /\ Tasks \subseteq Nat
    BY <1>5, Basics
  <2>2. m_ref_count \in [Tasks -> Nat]
    BY <1>5 DEF TypeOK
  <2> QED
    BY <1>4, <2>1, <2>2, SMTT(20), Z3T(20) DEF Release
<1>8. TypeOK'
  BY <1>5, <1>6 DEF TypeOK, StepOf
<1>9. ASSUME NEW u \in Tasks PROVE Alone(u)'
  <2>1. \A x : InFrame(x, u)' <=> InFrame(x, u)
    BY <1>1 DEF HoldsTask
  <2> QED
    BY <2>1, AloneSame DEF IInv, Spots, InReady, InWait, Active
<1>10. Refs'
  <2>1. ASSUME NEW u \in Tasks
        PROVE  \A x : x \in Completing(u)' <=> x \in Completing(u)
    BY <1>1 DEF Completing
  <2>2. ASSUME NEW u \in Tasks, u # p PROVE RefSum(u)' = RefSum(u)
    <3>1. \A x : x \in Releasing(u)' <=> x \in Releasing(u)
      BY <1>1, <1>2, <2>2 DEF Releasing
    <3> QED
      BY <2>1, <3>1, QuietRefs
  <2>3. RefSum(p)' = RefSum(p) - 1
    BY <1>3, <2>1, QuietRefs
  <2>4. \A u \in Tasks : \A x, z \in Completing(u)' : x = z
    BY <2>1 DEF IInv, Refs
  <2> QED
    BY <2>2, <2>3, <2>4, RefsRelease
<1>11. Count'
  <2>1. \A x : x \in Pushing' <=> x \in Pushing
    BY <1>1 DEF Pushing
  <2> QED
    BY <2>1, CountSame
<1>12. Exec'
  BY ExecStep DEF StepOf, execVars
<1> QED
  BY <1>7, <1>8, <1>9, <1>10, <1>11, <1>12

(* ScheduleUnref and AggregateUnref preserve the invariant. *)
LEMMA UnrefInv ==
    ASSUME IInv, NEW a \in Actors, ScheduleUnref(a) \/ AggregateUnref(a), UNCHANGED <<userVars, execVars>>
    PROVE  IInv'
<1> PICK t, g, p : t = Top(a).task /\ g = Top(a) /\ p = Top(a).pred
  OBVIOUS
<1> stack[a] # << >> /\ g.at \in {"unref", "aggregate_unref"}
  BY DEF ScheduleUnref, AggregateUnref, At
<1>1. TypeOK
  BY DEF IInv
<1> t \in Tasks /\ Depth(a) > 1 /\ p \in Tasks
  BY TopTask
<1>2. FrameOK(a, Depth(a), g) /\ <<a, Depth(a)>> \in FramePlaces
  BY TopFacts
<1> UNCHANGED <<task_type, m_wait_queue, consumed, m_predecessor,
                m_is_respawning, vla, queue_index, m_ready_queues, m_ready_count,
                holds, allocated, after, respawns, where, phase, waits>>
  BY DEF ScheduleUnref, AggregateUnref, queueVars, userVars, execVars
<1>3. /\ Release(p)
      /\ g.next = "return" => Return(a)
      /\ g.next # "return" => Goto(a, Frame(g.next, t))
  BY DEF ScheduleUnref, AggregateUnref
<1>4. CASE g.next = "return"
  <2>1. Popped(a)
    BY <1>3, <1>4, ReturnEffect
  <2>2. /\ TypeOK' /\ (\A u \in Tasks : Alone(u)') /\ Refs' /\ Count' /\ Exec'
        /\ \A u \in Tasks : u > allocated => m_ref_count'[u] = m_ref_count[u]
    BY <1>2, <1>3, <1>4, <2>1, UnrefRest, Depths DEF Popped
  <2>3. Shape' /\ Spots' /\ Known' /\ AfterInv' /\ Rank'
    BY <2>1, <2>2, QuietStep DEF Popped
  <2> QED
    BY <2>2, <2>3 DEF IInv
<1>5. CASE g.next # "return"
  <2> PICK f : f = Frame(g.next, t) /\ Goto(a, f)
    BY <1>3, <1>5
  <2>1. /\ g.at = "unref" => g.next = "schedule" /\ task_type[t] = "runnable"
        /\ g.at = "aggregate_unref" => g.next = "aggregate" /\ task_type[t] = "aggregate"
    BY <1>2, <1>5, TopTask DEF FrameOK
  <2>2. /\ f \in FrameState /\ f.task = t /\ f.at = g.next /\ f.pred = Null /\ Inj(f.rest)
        /\ g.next \in {"schedule", "aggregate"}
    <3>1. g.next \in {"schedule", "aggregate"} /\ g.next \in Ats /\ t \in Owners
      BY <2>1 DEF Ats, Owners
    <3>2. NewFrame(f, g.next, t)
      BY <3>1, FrameFacts
    <3> QED
      BY <3>2, <3>1 DEF NewFrame
  <2>3. NewTop(a, f)
    BY <2>2, GotoEffect
  <2>4. \A u : (HoldsTask(f, u) <=> u = t) /\ ~Releases(f, u)
    BY <2>2 DEF HoldsTask, Releases
  <2>5. /\ TypeOK' /\ (\A u \in Tasks : Alone(u)') /\ Refs' /\ Count' /\ Exec'
        /\ \A u \in Tasks : u > allocated => m_ref_count'[u] = m_ref_count[u]
    <3>1. /\ \A x, u : InFrame(x, u)' <=> IF x = <<a, Depth(a)>> THEN g.next # "return" /\ u = t
                                                                  ELSE InFrame(x, u)
          /\ \A x, u : x \in Releasing(u)' <=> x # <<a, Depth(a)>> /\ x \in Releasing(u)
      BY <1>5, <2>3, <2>4 DEF NewTop
    <3>2. /\ \A x, u : x \in Completing(u)' <=> x # <<a, Depth(a)>> /\ x \in Completing(u)
          /\ \A x : x \in Pushing' <=> x # <<a, Depth(a)>> /\ x \in Pushing
          /\ StepOf(a) /\ Busy' = Busy
      BY <2>2, <2>3 DEF NewTop
    <3> QED
      BY <1>3, <3>1, <3>2, UnrefRest
  <2>6. Settled(t)
    BY <1>5, SettledTop DEF HoldsTask
  <2>7. \A x : FrameAt(x)' = f /\ x[1] = a /\ x[2] = Depth(a) => FrameOK(x[1], x[2], FrameAt(x))'
    <3>1. Depth(a) # 1 /\ Null \in 0..allocated /\ t # HostCode /\ t \in 0..allocated
      BY <1>1, TopTask, SMTT(20), Z3T(20) DEF TypeOK, Tasks, HostCode, Null
    <3> QED
      BY <2>1, <2>2, <3>1 DEF FrameOK
  <2>8. \A x : FrameAt(x)' = f => FrameKnows(x[1], x[2], FrameAt(x))'
    BY <2>2, <2>6 DEF FrameKnows, Settled
  <2>9. Shape' /\ Spots' /\ Known' /\ AfterInv' /\ Rank'
    BY <2>2, <2>3, <2>5, <2>7, <2>8, QuietStep DEF NewTop
  <2> QED
    BY <2>5, <2>9 DEF IInv
<1> QED
  BY <1>4, <1>5

-----------------------------------------------------------------------------
(* Completing a task: the end *)

(* The end of a completion: everything but the reference and ready counts. *)
LEMMA FinishRest ==
    ASSUME IInv, NEW a \in Actors, NEW g, g = Top(a), g.at = "visit", g.rest = << >>,
           NEW t \in Tasks, t = g.task, stack[a] # << >>,
           Release(t), StepOf(a), Busy' = Busy,
           UNCHANGED <<task_type, m_wait_queue, consumed, m_predecessor,
                       m_is_respawning, vla, queue_index, m_ready_queues, m_ready_count,
                       holds, allocated, after, respawns, where, phase, waits>>,
           \A x, u : InFrame(x, u)' <=> x # <<a, Depth(a)>> /\ InFrame(x, u),
           \A x, u : x \in Releasing(u)' <=> x # <<a, Depth(a)>> /\ x \in Releasing(u),
           \A x, u : x \in Completing(u)' <=> x # <<a, Depth(a)>> /\ x \in Completing(u),
           \A x : x \in Pushing' <=> x # <<a, Depth(a)>> /\ x \in Pushing
    PROVE  /\ TypeOK' /\ (\A u \in Tasks : Alone(u)') /\ Refs' /\ Count' /\ Exec'
           /\ \A u \in Tasks : u > allocated => m_ref_count'[u] = m_ref_count[u]
<1>1. /\ g \in FrameState /\ <<a, Depth(a)>> \in FramePlaces /\ FrameAt(<<a, Depth(a)>>) = g
      /\ FrameOK(a, Depth(a), g)
      /\ \A u \in Tasks : InFrame(<<a, Depth(a)>>, u) <=> HoldsTask(g, u)
  BY TopFacts
<1>2. \A u : ~Releases(g, u) /\ ~HoldsTask(g, u)
  BY SMTT(20), Z3T(20) DEF Releases, HoldsTask
<1>3. <<a, Depth(a)>> \in Completing(t) /\ Own(t) = 1
  <2>1. <<a, Depth(a)>> \in Completing(t)
    BY <1>1 DEF Completing
  <2> QED
    BY <2>1, ActiveIsOwned
<1>4. m_ref_count[t] # 0 /\ t <= allocated
  BY <1>3, Referenced
<1>5. TypeOK
  BY DEF IInv
<1>6. m_ref_count' \in [Tasks -> Nat] /\ live' \subseteq Tasks
  BY <1>4, <1>5, ReleaseType
<1>7. \A u \in Tasks : u > allocated => m_ref_count'[u] = m_ref_count[u]
  <2>1. allocated \in Nat /\ Tasks \subseteq Nat
    BY <1>5, Basics
  <2>2. m_ref_count \in [Tasks -> Nat]
    BY <1>5 DEF TypeOK
  <2> QED
    BY <1>4, <2>1, <2>2, SMTT(20), Z3T(20) DEF Release
<1>8. TypeOK'
  BY <1>5, <1>6 DEF TypeOK, StepOf
<1>9. ASSUME NEW u \in Tasks PROVE Alone(u)'
  <2>1. \A x : InFrame(x, u)' <=> InFrame(x, u)
    BY <1>1, <1>2
  <2> QED
    BY <2>1, AloneSame DEF IInv, Spots, InReady, InWait, Active
<1>10. Refs'
  <2>1. ASSUME NEW u \in Tasks
        PROVE  \A x : x \in Releasing(u)' <=> x \in Releasing(u)
    BY <1>1, <1>2 DEF Releasing
  <2>2. ASSUME NEW u \in Tasks, u # t PROVE RefSum(u)' = RefSum(u)
    <3>1. \A x : x \in Completing(u)' <=> x \in Completing(u)
      BY <1>1, <2>2 DEF Completing
    <3> QED
      BY <2>1, <3>1, QuietRefs
  <2>3. RefSum(t)' = RefSum(t) - 1
    <3>1. \A x : x \in Completing(t) => x = <<a, Depth(a)>>
      BY <1>3 DEF IInv, Refs
    <3>2. Completing(t)' = {}
      BY <3>1
    <3>3. consumed[t]
      BY <1>1 DEF FrameOK
    <3>4. Own(t)' = 0
      BY <3>2, <3>3 DEF Own
    <3> QED
      BY <1>3, <2>1, <3>4, QuietRefs
  <2>4. \A u \in Tasks : \A x, z \in Completing(u)' : x = z
    BY DEF IInv, Refs
  <2> QED
    BY <2>2, <2>3, <2>4, RefsRelease
<1>11. Count'
  <2>1. \A x : x \in Pushing' <=> x \in Pushing
    BY <1>1 DEF Pushing
  <2> QED
    BY <2>1, CountSame
<1>12. Exec'
  BY ExecStep DEF StepOf, execVars
<1> QED
  BY <1>7, <1>8, <1>9, <1>10, <1>11, <1>12

(* Finish preserves the invariant. *)
LEMMA FinishInv ==
    ASSUME IInv, NEW a \in Actors, Finish(a), UNCHANGED <<userVars, execVars>>
    PROVE  IInv'
<1> PICK t, g : t = Top(a).task /\ g = Top(a)
  OBVIOUS
<1> stack[a] # << >> /\ g.at = "visit" /\ g.rest = << >>
  BY DEF Finish, At
<1> t \in Tasks
  BY TopTask
<1>2. /\ FrameOK(a, Depth(a), g) /\ <<a, Depth(a)>> \in FramePlaces /\ Depth(a) \in Nat \ {0}
  BY TopFacts
<1> UNCHANGED <<task_type, m_wait_queue, consumed, m_predecessor,
                m_is_respawning, vla, queue_index, m_ready_queues, m_ready_count,
                holds, allocated, after, respawns, where, phase, waits>>
  BY DEF Finish, queueVars, userVars, execVars
<1>3. /\ Release(t)
      /\ task_type[t] = "runnable" => Goto(a, Frame("ready_dec", t))
      /\ task_type[t] # "runnable" => Return(a)
  BY DEF Finish
<1>4. CASE task_type[t] # "runnable"
  <2>0. Depth(a) > 1
    BY <1>2, <1>4, TopTask, Depths
  <2>1. Popped(a)
    BY <1>3, <1>4, <2>0, ReturnEffect
  <2>2. /\ TypeOK' /\ (\A u \in Tasks : Alone(u)') /\ Refs' /\ Count' /\ Exec'
        /\ \A u \in Tasks : u > allocated => m_ref_count'[u] = m_ref_count[u]
    BY <1>3, <2>0, <2>1, FinishRest, Depths DEF Popped
  <2>3. Shape' /\ Spots' /\ Known' /\ AfterInv' /\ Rank'
    BY <2>1, <2>2, QuietStep DEF Popped
  <2> QED
    BY <2>2, <2>3 DEF IInv
<1>5. CASE task_type[t] = "runnable"
  <2> PICK f : f = Frame("ready_dec", t) /\ Goto(a, f)
    BY <1>3, <1>5
  <2>0. Depth(a) = 1 /\ a # Main
    BY <1>2, <1>5, TopTask, Depths
  <2>2. f \in FrameState /\ f.task = t /\ f.at = "ready_dec" /\ f.pred = Null /\ Inj(f.rest)
    <3>1. "ready_dec" \in Ats /\ t \in Owners
      BY DEF Ats, Owners
    <3>2. NewFrame(f, "ready_dec", t)
      BY <3>1, FrameFacts
    <3> QED
      BY <3>2 DEF NewFrame
  <2>3. NewTop(a, f)
    BY <2>2, GotoEffect
  <2>4. \A u : ~HoldsTask(f, u) /\ ~Releases(f, u)
    BY <2>2 DEF HoldsTask, Releases
  <2>5. /\ TypeOK' /\ (\A u \in Tasks : Alone(u)') /\ Refs' /\ Count' /\ Exec'
        /\ \A u \in Tasks : u > allocated => m_ref_count'[u] = m_ref_count[u]
    <3>1. /\ \A x, u : InFrame(x, u)' <=> x # <<a, Depth(a)>> /\ InFrame(x, u)
          /\ \A x, u : x \in Releasing(u)' <=> x # <<a, Depth(a)>> /\ x \in Releasing(u)
      BY <2>3, <2>4 DEF NewTop
    <3>2. /\ \A x, u : x \in Completing(u)' <=> x # <<a, Depth(a)>> /\ x \in Completing(u)
          /\ \A x : x \in Pushing' <=> x # <<a, Depth(a)>> /\ x \in Pushing
          /\ StepOf(a) /\ Busy' = Busy
      BY <2>2, <2>3 DEF NewTop
    <3> QED
      BY <1>3, <3>1, <3>2, FinishRest
  <2>7. \A x : FrameAt(x)' = f /\ x[1] = a /\ x[2] = Depth(a) => FrameOK(x[1], x[2], FrameAt(x))'
    <3>1. Null \in 0..allocated /\ t # HostCode /\ t \in 0..allocated
      BY TopTask, Basics, SMTT(20), Z3T(20) DEF IInv, HostCode, Null
    <3> QED
      <4>1. ~(1 > 1)
        BY Depths
      <4>2. FrameOK(a, 1, f)'
        BY <1>5, <2>0, <2>2, <2>3, <3>1, <4>1 DEF FrameOK, NewTop
      <4> QED
        BY <2>0, <4>2
  <2>8. \A x : FrameAt(x)' = f => FrameKnows(x[1], x[2], FrameAt(x))'
    BY <2>2 DEF FrameKnows
  <2>9. Shape' /\ Spots' /\ Known' /\ AfterInv' /\ Rank'
    BY <2>2, <2>3, <2>5, <2>7, <2>8, QuietStep DEF NewTop
  <2> QED
    BY <2>5, <2>9 DEF IInv
<1> QED
  BY <1>4, <1>5

(* ReadyDec preserves the invariant. *)
LEMMA ReadyDecInv ==
    ASSUME IInv, NEW a \in Actors, ReadyDec(a), UNCHANGED <<userVars, execVars>>
    PROVE  IInv'
<1> stack[a] # << >> /\ Top(a).at = "ready_dec"
  BY DEF ReadyDec, At
<1>1. Depth(a) = 1 /\ a # Main
  BY TopTask
<1> UNCHANGED <<live, m_ref_count, task_type, m_wait_queue, consumed, m_predecessor,
                m_is_respawning, vla, queue_index, m_ready_queues,
                holds, allocated, after, respawns, where, phase, waits>>
  BY DEF ReadyDec, taskVars, userVars, execVars
<1>2. m_ready_count' = m_ready_count - 1 /\ Return(a)
  BY DEF ReadyDec
<1>3. Popped(a)
  BY <1>1, <1>2, ReturnEffect
<1>4. /\ <<a, Depth(a)>> \in FramePlaces /\ FrameAt(<<a, Depth(a)>>) = Top(a)
      /\ \A u \in Tasks : InFrame(<<a, Depth(a)>>, u) <=> HoldsTask(Top(a), u)
  BY TopFacts
<1>5. \A u : ~HoldsTask(Top(a), u) /\ ~Releases(Top(a), u)
  BY DEF HoldsTask, Releases
<1>6. TypeOK
  BY DEF IInv
<1>7. a \in Busy /\ Busy' = Busy \ {a}
  BY <1>1, <1>3, <1>6, Basics DEF Busy, Popped
<1>8. /\ m_ready_count' \in Nat
      /\ m_ready_count' = Cardinality(ReadyTasks) + Cardinality(Busy') + Cardinality(Pushing)
  <2>1. Cardinality(Busy') = Cardinality(Busy) - 1 /\ Cardinality(Busy') \in Nat
    BY <1>6, <1>7, CountFinite, OneLess, CardinalityIsNat
  <2>2. m_ready_count = Cardinality(ReadyTasks) + Cardinality(Busy) + Cardinality(Pushing)
    BY DEF IInv, Count
  <2>3. /\ Cardinality(Busy) \in Nat /\ Cardinality(ReadyTasks) \in Nat
        /\ Cardinality(Pushing) \in Nat
    BY <1>6, CountFinite
  <2> QED
    BY <1>2, <2>1, <2>2, <2>3, SMTT(20), Z3T(20)
<1>9. TypeOK'
  BY <1>3, <1>6, <1>8 DEF TypeOK, Popped, StepOf
<1>10. ASSUME NEW u \in Tasks PROVE Alone(u)'
  <2>1. \A x : InFrame(x, u)' <=> InFrame(x, u)
    BY <1>3, <1>4, <1>5 DEF Popped
  <2> QED
    BY <2>1, AloneSame DEF IInv, Spots, InReady, InWait, Active
<1>11. Shape' /\ Spots' /\ Known' /\ AfterInv' /\ Rank'
  BY <1>3, <1>10, QuietStep DEF Popped
<1>12. Refs'
  <2>1. ASSUME NEW u \in Tasks
        PROVE  /\ \A x : x \in Releasing(u)' <=> x \in Releasing(u)
               /\ \A x : x \in Completing(u)' <=> x \in Completing(u)
    BY <1>3, <1>4, <1>5, SMTT(20), Z3T(20) DEF Popped, Releasing, Completing
  <2>2. \A u \in Tasks : RefSum(u)' = RefSum(u)
    BY <2>1, QuietRefs
  <2>3. \A u \in Tasks : \A x, z \in Completing(u)' : x = z
    BY <2>1 DEF IInv, Refs
  <2> QED
    BY <2>2, <2>3, RefsSame
<1>13. Count'
  <2>1. \A x : x \in Pushing' <=> x \in Pushing
    BY <1>3, <1>4 DEF Popped, Pushing
  <2>2. Pushing' = Pushing /\ ReadyTasks' = ReadyTasks
    BY <2>1 DEF ReadyTasks, InReady
  <2> QED
    BY <1>8, <2>2 DEF Count
<1>14. Exec'
  BY <1>3, ExecStep DEF Popped, StepOf, execVars
<1> QED
  BY <1>9, <1>11, <1>12, <1>13, <1>14 DEF IInv

-----------------------------------------------------------------------------
(* Functors that return *)

(* A step that replaces the top frame by one with the same task and the   *)
(* same reference in hand.                                                 *)
LEMMA QuietGoto ==
    ASSUME IInv, NEW a \in Actors, stack[a] # << >>, NEW f \in FrameState, Goto(a, f),
           UNCHANGED <<live, task_type, m_ref_count, m_wait_queue, consumed, m_predecessor,
                       m_is_respawning, vla, queue_index, m_ready_queues, m_ready_count,
                       holds, allocated, after, respawns, where, phase, waits>>,
           \A u : (HoldsTask(f, u) <=> HoldsTask(Top(a), u)) /\ (Releases(f, u) <=> Releases(Top(a), u)),
           f.at \notin {"visit", "push"}, Top(a).at \notin {"visit", "push"}, Inj(f.rest),
           \A x : FrameAt(x)' = f /\ x[1] = a /\ x[2] = Depth(a) =>
                 FrameOK(x[1], x[2], FrameAt(x))' /\ FrameKnows(x[1], x[2], FrameAt(x))',
           Top(a).at \in {"user", "complete", "schedule"} =>
               \A t \in Tasks : t = Top(a).task => Settled(t) \/ (f.at = "complete" /\ f.task = t),
           (\A b \in Actors : b # a => stack'[b] = stack[b]) => Exec'
    PROVE  IInv'
<1>1. NewTop(a, f)
  BY GotoEffect
<1>2. /\ <<a, Depth(a)>> \in FramePlaces /\ FrameAt(<<a, Depth(a)>>) = Top(a)
      /\ \A u \in Tasks : InFrame(<<a, Depth(a)>>, u) <=> HoldsTask(Top(a), u)
  BY TopFacts
<1>3. TypeOK'
  <2>1. TypeOK
    BY DEF IInv
  <2> QED
    BY <1>1, <2>1 DEF TypeOK, NewTop, StepOf
<1>4. ASSUME NEW u \in Tasks PROVE Alone(u)'
  <2>1. \A x : InFrame(x, u)' <=> InFrame(x, u)
    BY <1>1, <1>2 DEF NewTop
  <2> QED
    BY <2>1, AloneSame DEF IInv, Spots, InReady, InWait, Active
<1>5. Shape' /\ Spots' /\ Known' /\ AfterInv' /\ Rank'
  <2>1. \A t : f.at = "complete" /\ f.task = t => Home(t)'
    BY <1>1 DEF Home, NewTop
  <2> QED
    BY <1>1, <1>4, <2>1, QuietStep DEF NewTop
<1>6. Refs'
  <2>1. ASSUME NEW u \in Tasks
        PROVE  /\ \A x : x \in Releasing(u)' <=> x \in Releasing(u)
               /\ \A x : x \in Completing(u)' <=> x \in Completing(u)
    BY <1>1, <1>2, SMTT(20), Z3T(20) DEF NewTop, Releasing, Completing
  <2>2. \A u \in Tasks : RefSum(u)' = RefSum(u)
    BY <2>1, QuietRefs
  <2>3. \A u \in Tasks : \A x, z \in Completing(u)' : x = z
    BY <2>1 DEF IInv, Refs
  <2> QED
    BY <2>2, <2>3, RefsSame
<1>7. Count'
  <2>1. \A x : x \in Pushing' <=> x \in Pushing
    BY <1>1, <1>2 DEF NewTop, Pushing
  <2> QED
    BY <1>1, <2>1, CountSame DEF NewTop
<1>8. Exec'
  BY <1>1 DEF NewTop, StepOf
<1> QED
  BY <1>3, <1>5, <1>6, <1>7, <1>8 DEF IInv

(* ScheduleInfo preserves the invariant. *)
LEMMA ScheduleInfoInv ==
    ASSUME IInv, NEW a \in Actors, ScheduleInfo(a), UNCHANGED <<userVars, execVars>>
    PROVE  IInv'
<1> PICK t, g : t = Top(a).task /\ g = Top(a)
  OBVIOUS
<1> stack[a] # << >> /\ g.at = "info"
  BY DEF ScheduleInfo, At
<1>1. t \in Tasks /\ t \in 0..allocated /\ t # HostCode /\ Depth(a) > 1 /\ task_type[t] = "runnable"
  BY TopTask, Basics, SMTT(20), Z3T(20) DEF IInv, HostCode
<1>2. g \in FrameState /\ FrameOK(a, Depth(a), g) /\ <<a, Depth(a)>> \in FramePlaces
      /\ FrameAt(<<a, Depth(a)>>) = g
  BY TopFacts
<1>3. PICK f : /\ f = IF g.next = "unref" THEN [g EXCEPT !.at = "unref", !.next = "schedule"]
                                          ELSE Frame("schedule", t)
               /\ Goto(a, f)
  BY DEF ScheduleInfo
<1>4. /\ f \in FrameState /\ f.task = t /\ f.pred \in {g.pred, Null} /\ Inj(f.rest)
      /\ g.next = "unref" => f.at = "unref" /\ f.next = "schedule" /\ f.pred = g.pred
      /\ g.next # "unref" => f.at = "schedule"
  <2>1. CASE g.next = "unref"
    <3>1. f = [at |-> "unref", task |-> g.task, pred |-> g.pred, rest |-> g.rest, next |-> "schedule"]
      BY <1>2, <1>3, <2>1 DEF FrameState
    <3>2. Inj(g.rest)
      BY <1>2 DEF IInv, Spots
    <3> QED
      BY <1>2, <2>1, <3>1, <3>2 DEF FrameState, Ats, Nexts
  <2>2. CASE g.next # "unref"
    <3>1. "schedule" \in Ats /\ t \in Owners
      BY <1>1 DEF Ats, Owners
    <3>2. NewFrame(f, "schedule", t)
      BY <1>3, <2>2, <3>1, FrameFacts
    <3> QED
      BY <2>2, <3>2 DEF NewFrame
  <2> QED
    BY <2>1, <2>2
<1>5. \A u : (HoldsTask(f, u) <=> HoldsTask(g, u)) /\ (Releases(f, u) <=> Releases(g, u))
  BY <1>4 DEF HoldsTask, Releases
<1>6. UNCHANGED <<live, task_type, m_ref_count, m_wait_queue, consumed, m_predecessor,
                  m_is_respawning, vla, queue_index, m_ready_queues, m_ready_count,
                  holds, allocated, after, respawns, where, phase, waits>>
  BY DEF ScheduleInfo, taskVars, queueVars, userVars, execVars
<1>7. Settled(t)
  BY <1>1, SettledTop DEF HoldsTask
<1>8. \A x : FrameAt(x)' = f /\ x[1] = a /\ x[2] = Depth(a) => FrameOK(x[1], x[2], FrameAt(x))'
  <2>1. Depth(a) # 1 /\ Null \in 0..allocated
    BY <1>1, Numbers, Depths
  <2> QED
    BY <1>1, <1>2, <1>4, <1>6, <2>1 DEF FrameOK
<1>9. \A x : FrameAt(x)' = f => FrameKnows(x[1], x[2], FrameAt(x))'
  BY <1>4, <1>6, <1>7 DEF FrameKnows, Settled
<1>10. (\A b \in Actors : b # a => stack'[b] = stack[b]) => Exec'
  BY <1>6, ExecStep DEF execVars
<1> QED
  BY <1>3, <1>4, <1>5, <1>6, <1>8, <1>9, <1>10, QuietGoto

(* The frame of a functor that runs on a worker. *)
LEMMA FunctorTop ==
    ASSUME IInv, NEW a \in Actors, At(a, "user") \/ At(a, "destroy"), a # Main
    PROVE  /\ stack[a] # << >> /\ Depth(a) = 1
           /\ Top(a).task \in Tasks /\ Top(a).task \in 0..allocated /\ Top(a).task # HostCode
           /\ task_type[Top(a).task] = "runnable"
           /\ ~m_is_respawning[Top(a).task] => Settled(Top(a).task)
<1>1. stack[a] # << >> /\ Top(a).at \in {"user", "destroy"}
  BY DEF At
<1>2. /\ Top(a) \in FrameState /\ FrameOK(a, Depth(a), Top(a)) /\ Depth(a) \in Nat \ {0}
      /\ FrameKnows(a, Depth(a), Top(a))
  BY <1>1, TopFacts
<1>3. Depth(a) = 1
  BY <1>1, <1>2, Depths DEF FrameOK
<1>4. /\ Top(a).task \in Tasks /\ Top(a).task \in 0..allocated /\ Top(a).task # HostCode
      /\ task_type[Top(a).task] = "runnable"
  BY <1>2, <1>3 DEF FrameOK, FrameState, Owners
<1>5. CASE Top(a).at = "user"
  BY <1>1, <1>2, <1>3, <1>4, <1>5 DEF FrameKnows, Settled
<1>6. CASE Top(a).at = "destroy"
  BY <1>1, <1>3, <1>4, <1>6, SettledTop DEF HoldsTask
<1> QED
  BY <1>1, <1>5, <1>6

(* FunctorReturns preserves the invariant. *)
LEMMA FunctorReturnsInv ==
    ASSUME IInv, NEW a \in Actors, FunctorReturns(a)
    PROVE  IInv'
<1> PICK t, g : t = Top(a).task /\ g = Top(a)
  OBVIOUS
<1> stack[a] # << >> /\ g.at = "user" /\ a # Main /\ At(a, "user")
  BY DEF FunctorReturns, At, Running
<1>1. /\ t \in Tasks /\ t \in 0..allocated /\ t # HostCode /\ Depth(a) = 1
      /\ task_type[t] = "runnable" /\ (~m_is_respawning[t] => Settled(t))
  BY FunctorTop
<1>2. Null \in 0..allocated
  BY Numbers
<1>3. PICK f : f = Frame(IF m_is_respawning[t] THEN "complete" ELSE "destroy", t) /\ Goto(a, f)
  BY DEF FunctorReturns, Owner
<1>4. /\ f \in FrameState /\ f.task = t /\ f.pred = Null /\ Inj(f.rest)
      /\ f.at = IF m_is_respawning[t] THEN "complete" ELSE "destroy"
  <2>1. "complete" \in Ats /\ "destroy" \in Ats /\ t \in Owners
    BY <1>1 DEF Ats, Owners
  <2>2. NewFrame(f, IF m_is_respawning[t] THEN "complete" ELSE "destroy", t)
    BY <2>1, <1>3, FrameFacts
  <2> QED
    BY <2>2 DEF NewFrame
<1>5. \A u : (HoldsTask(f, u) <=> HoldsTask(g, u)) /\ (Releases(f, u) <=> Releases(g, u))
  BY <1>4 DEF HoldsTask, Releases
<1>6. UNCHANGED <<live, task_type, m_ref_count, m_wait_queue, consumed, m_predecessor,
                  m_is_respawning, vla, queue_index, m_ready_queues, m_ready_count,
                  holds, allocated, after, respawns, where, phase, waits>>
  BY DEF FunctorReturns, taskVars, queueVars, userVars, execVars
<1>7. \A x : FrameAt(x)' = f /\ x[1] = a /\ x[2] = Depth(a) => FrameOK(x[1], x[2], FrameAt(x))'
  <2>1. ~(1 > 1)
    BY Depths
  <2>2. FrameOK(a, 1, f)'
    BY <1>1, <1>2, <1>4, <1>6, <2>1 DEF FrameOK
  <2> QED
    BY <1>1, <2>2
<1>8. \A x : FrameAt(x)' = f => FrameKnows(x[1], x[2], FrameAt(x))'
  BY <1>4, <1>6 DEF FrameKnows
<1>9. (\A b \in Actors : b # a => stack'[b] = stack[b]) => Exec'
  BY <1>6, ExecUser DEF execVars, FunctorReturns
<1> QED
  BY <1>1, <1>3, <1>4, <1>5, <1>6, <1>7, <1>8, <1>9, QuietGoto

(* Destroyed preserves the invariant. *)
LEMMA DestroyedInv ==
    ASSUME IInv, NEW a \in Actors, Destroyed(a)
    PROVE  IInv'
<1> PICK t, g : t = Top(a).task /\ g = Top(a)
  OBVIOUS
<1> stack[a] # << >> /\ g.at = "destroy" /\ At(a, "destroy")
  BY DEF Destroyed, At
<1>1. a # Main /\ Depth(a) = 1
  BY TopTask
<1>2. /\ t \in Tasks /\ t \in 0..allocated /\ t # HostCode /\ task_type[t] = "runnable"
  BY <1>1, FunctorTop
<1>3. Null \in 0..allocated
  BY Numbers
<1>4. PICK f : f = Frame("complete", t) /\ Goto(a, f)
  BY DEF Destroyed, Owner
<1>5. f \in FrameState /\ f.task = t /\ f.pred = Null /\ Inj(f.rest) /\ f.at = "complete"
  <2>1. "complete" \in Ats /\ t \in Owners
    BY <1>2 DEF Ats, Owners
  <2>2. NewFrame(f, "complete", t)
    BY <2>1, <1>4, FrameFacts
  <2> QED
    BY <2>2 DEF NewFrame
<1>6. \A u : (HoldsTask(f, u) <=> HoldsTask(g, u)) /\ (Releases(f, u) <=> Releases(g, u))
  BY <1>5 DEF HoldsTask, Releases
<1>7. /\ holds[t] = {}
      /\ UNCHANGED <<live, task_type, m_ref_count, m_wait_queue, consumed, m_predecessor,
                     m_is_respawning, vla, queue_index, m_ready_queues, m_ready_count,
                     holds, allocated, after, respawns, where, phase, waits>>
  BY DEF Destroyed, Owner, taskVars, queueVars, userVars, execVars
<1>8. Settled(t)
  BY <1>2, SettledTop DEF HoldsTask
<1>9. \A x : FrameAt(x)' = f /\ x[1] = a /\ x[2] = Depth(a) => FrameOK(x[1], x[2], FrameAt(x))'
  <2>1. ~(1 > 1)
    BY Depths
  <2>2. FrameOK(a, 1, f)'
    BY <1>1, <1>2, <1>3, <1>5, <1>7, <2>1 DEF FrameOK
  <2> QED
    BY <1>1, <2>2
<1>10. \A x : FrameAt(x)' = f => FrameKnows(x[1], x[2], FrameAt(x))'
  BY <1>5, <1>7, <1>8 DEF FrameKnows, Settled
<1>11. (\A b \in Actors : b # a => stack'[b] = stack[b]) => Exec'
  BY <1>7, ExecStep DEF execVars
<1> QED
  BY <1>4, <1>5, <1>6, <1>7, <1>9, <1>10, <1>11, QuietGoto

-----------------------------------------------------------------------------
(* Completing a task: respawning and visiting the waiting tasks *)

(* A step that calls a function with one of the tasks in hand. *)
LEMMA QuietCall ==
    ASSUME IInv, NEW a \in Actors, stack[a] # << >>, NEW f \in FrameState, NEW c \in FrameState,
           Call(a, c, f), NEW w \in Tasks, HoldsTask(Top(a), w),
           UNCHANGED <<live, task_type, m_ref_count, m_wait_queue, consumed, m_predecessor,
                       m_is_respawning, vla, queue_index, m_ready_queues, m_ready_count,
                       holds, allocated, after, respawns, where, phase, waits>>,
           \A u \in Tasks : HoldsTask(f, u) <=> HoldsTask(Top(a), u) /\ u # w,
           \A u \in Tasks : HoldsTask(c, u) <=> u = w,
           \A u : ~Releases(f, u) /\ ~Releases(c, u) /\ ~Releases(Top(a), u),
           f.at = "visit" <=> Top(a).at = "visit", f.task = Top(a).task, c.at \in {"schedule", "aggregate"},
           f.at # "push", Top(a).at \notin {"push", "user"}, Inj(f.rest), Inj(c.rest),
           \A x : FrameAt(x)' = f /\ x[1] = a /\ x[2] = Depth(a) =>
                 FrameOK(x[1], x[2], FrameAt(x))' /\ FrameKnows(x[1], x[2], FrameAt(x))',
           \A x : FrameAt(x)' = c /\ x[1] = a /\ x[2] = Depth(a) + 1 =>
                 FrameOK(x[1], x[2], FrameAt(x))' /\ FrameKnows(x[1], x[2], FrameAt(x))',
           Top(a).at \in {"user", "complete", "schedule"} =>
               \A t \in Tasks : t = Top(a).task => Settled(t) \/ (c.at = "schedule" /\ c.task = t)
    PROVE  IInv'
<1>1. NewTops(a, f, c)
  BY CallEffect
<1>2. /\ <<a, Depth(a)>> \in FramePlaces /\ FrameAt(<<a, Depth(a)>>) = Top(a)
      /\ \A u \in Tasks : InFrame(<<a, Depth(a)>>, u) <=> HoldsTask(Top(a), u)
  BY TopFacts
<1>0. \A u : <<a, Depth(a) + 1>> \notin Releasing(u) /\ <<a, Depth(a) + 1>> \notin Completing(u)
             /\ <<a, Depth(a) + 1>> \notin Pushing /\ ~InFrame(<<a, Depth(a) + 1>>, u)
  BY <1>1 DEF NewTops, Releasing, Completing, Pushing, InFrame
<1>3. TypeOK'
  <2>1. TypeOK
    BY DEF IInv
  <2> QED
    BY <1>1, <2>1 DEF TypeOK, NewTops, StepOf
<1>4. ASSUME NEW u \in Tasks PROVE Alone(u)'
  <2>0. /\ \A q \in Queues : InReady(q, u)' <=> InReady(q, u)
        /\ \A p \in Tasks : InWait(p, u)' <=> InWait(p, u)
        /\ Active(u)' <=> Active(u)
        /\ Alone(u)
    BY DEF IInv, Spots, InReady, InWait, Active
  <2>1. CASE u # w
    <3>1. \A x : InFrame(x, u)' <=> InFrame(x, u)
      BY <1>0, <1>1, <1>2, <2>1 DEF NewTops
    <3> QED
      BY <2>0, <3>1, AloneSame
  <2>2. CASE u = w
    <3>1. \A x : InFrame(x, u) => x = <<a, Depth(a)>>
      BY <1>2, <2>0, <2>2 DEF Alone, InFrame
    <3>2. \A x : InFrame(x, u)' <=> x = <<a, Depth(a) + 1>>
      BY <1>0, <1>1, <1>2, <2>2, <3>1 DEF NewTops
    <3>3. InFrame(<<a, Depth(a)>>, u) /\ <<a, Depth(a) + 1>> \in FramePlaces'
      BY <1>1, <1>2, <2>2 DEF NewTops
    <3> QED
      BY <1>2, <2>0, <3>2, <3>3, AloneHeld
  <2> QED
    BY <2>1, <2>2
<1>5. Shape' /\ Spots' /\ Known' /\ AfterInv' /\ Rank'
  <2>1. \A t : c.at = "schedule" /\ c.task = t => Home(t)'
    BY <1>1 DEF Home, NewTops
  <2> QED
    BY <1>1, <1>4, <2>1, QuietStep DEF NewTops
<1>6. Refs'
  <2>1. ASSUME NEW u \in Tasks
        PROVE  /\ \A x : x \in Releasing(u)' <=> x \in Releasing(u)
               /\ \A x : x \in Completing(u)' <=> x \in Completing(u)
    <3>1. \A x : x \in Releasing(u)' <=> x \in Releasing(u)
      <4>1. <<a, Depth(a)>> \notin Releasing(u)
        BY <1>2 DEF Releasing
      <4> QED
        BY <1>0, <1>1, <4>1 DEF NewTops
    <3>2. \A x : x \in Completing(u)' <=> x \in Completing(u)
      BY <1>0, <1>1, <1>2 DEF NewTops, Completing
    <3> QED
      BY <3>1, <3>2
  <2>2. \A u \in Tasks : RefSum(u)' = RefSum(u)
    BY <2>1, QuietRefs
  <2>3. \A u \in Tasks : \A x, z \in Completing(u)' : x = z
    BY <2>1 DEF IInv, Refs
  <2> QED
    BY <2>2, <2>3, RefsSame
<1>7. Count'
  <2>1. \A x : x \in Pushing' <=> x \in Pushing
    BY <1>0, <1>1, <1>2 DEF NewTops, Pushing
  <2> QED
    BY <1>1, <2>1, CountSame DEF NewTops
<1>8. Exec'
  BY <1>1, ExecStep DEF NewTops, StepOf, execVars
<1> QED
  BY <1>3, <1>5, <1>6, <1>7, <1>8 DEF IInv

(* CompleteRespawn preserves the invariant. *)
LEMMA CompleteRespawnInv ==
    ASSUME IInv, NEW a \in Actors, CompleteRespawn(a), UNCHANGED <<userVars, execVars>>
    PROVE  IInv'
<1>0. PICK t, g : /\ t = Top(a).task /\ g = Top(a)
                  /\ stack[a] # << >> /\ g.at = "complete" /\ m_is_respawning[t]
  BY DEF CompleteRespawn, At
<1>1. /\ t \in Tasks /\ t \in 0..allocated /\ t # HostCode /\ Depth(a) = 1 /\ a # Main
      /\ task_type[t] = "runnable"
  BY <1>0, TopTask, Basics, SMTT(20), Z3T(20) DEF IInv, HostCode
<1>2. Null \in 0..allocated
  BY <1>0, Numbers
<1>3. PICK f, c : f = Frame("ready_dec", t) /\ c = Frame("schedule", t) /\ Call(a, c, f)
  BY <1>0 DEF CompleteRespawn
<1>4. /\ f \in FrameState /\ f.task = t /\ f.pred = Null /\ Inj(f.rest) /\ f.at = "ready_dec"
      /\ c \in FrameState /\ c.task = t /\ c.pred = Null /\ Inj(c.rest) /\ c.at = "schedule"
  <2>1. "ready_dec" \in Ats /\ "schedule" \in Ats /\ t \in Owners
    BY <1>0, <1>1 DEF Ats, Owners
  <2>2. NewFrame(f, "ready_dec", t) /\ NewFrame(c, "schedule", t)
    BY <2>1, <1>3, FrameFacts
  <2> QED
    BY <2>2 DEF NewFrame
<1>5. \A u : /\ ~HoldsTask(f, u) /\ (HoldsTask(c, u) <=> u = t) /\ (HoldsTask(g, u) <=> u = t)
             /\ ~Releases(f, u) /\ ~Releases(c, u) /\ ~Releases(g, u)
  BY <1>0, <1>4 DEF HoldsTask, Releases
<1>6. UNCHANGED <<live, task_type, m_ref_count, m_wait_queue, consumed, m_predecessor,
                  m_is_respawning, vla, queue_index, m_ready_queues, m_ready_count,
                  holds, allocated, after, respawns, where, phase, waits>>
  BY <1>0 DEF CompleteRespawn, taskVars, queueVars, userVars, execVars
<1>7. \A x : FrameAt(x)' = f /\ x[1] = a /\ x[2] = Depth(a) =>
             FrameOK(x[1], x[2], FrameAt(x))' /\ FrameKnows(x[1], x[2], FrameAt(x))'
  <2>1. ~(1 > 1)
    BY Depths
  <2>2. FrameOK(a, 1, f)' /\ FrameKnows(a, 1, f)'
    BY <1>1, <1>2, <1>4, <1>6, <2>1 DEF FrameOK, FrameKnows
  <2> QED
    BY <1>0, <1>1, <2>2
<1>8. \A x : FrameAt(x)' = c /\ x[1] = a /\ x[2] = Depth(a) + 1 =>
             FrameOK(x[1], x[2], FrameAt(x))' /\ FrameKnows(x[1], x[2], FrameAt(x))'
  <2>1. Depth(a) + 1 = 2 /\ 2 > 1 /\ 2 # 1
    BY <1>0, <1>1, Depths
  <2>2. FrameOK(a, 2, c)' /\ FrameKnows(a, 2, c)'
    BY <1>0, <1>1, <1>2, <1>4, <1>6, <2>1 DEF FrameOK, FrameKnows
  <2> QED
    BY <2>1, <2>2
<1>9. /\ stack[a] # << >> /\ HoldsTask(Top(a), t) /\ Inj(f.rest) /\ Inj(c.rest)
      /\ c.at \in {"schedule", "aggregate"}
      /\ f \in FrameState /\ c \in FrameState /\ Call(a, c, f) /\ t \in Tasks /\ c.at = "schedule"
      /\ f.task = Top(a).task /\ f.at # "push" /\ Top(a).at \notin {"push", "user"}
      /\ (f.at = "visit" <=> Top(a).at = "visit")
  BY <1>0, <1>1, <1>3, <1>4, <1>5
<1>10. /\ \A u \in Tasks : HoldsTask(f, u) <=> HoldsTask(Top(a), u) /\ u # t
       /\ \A u \in Tasks : HoldsTask(c, u) <=> u = t
       /\ \A u : ~Releases(f, u) /\ ~Releases(c, u) /\ ~Releases(Top(a), u)
  BY <1>0, <1>5
<1>11. Top(a).at \in {"user", "complete", "schedule"} =>
           \A u \in Tasks : u = Top(a).task => Settled(u) \/ (c.at = "schedule" /\ c.task = u)
  BY <1>0, <1>4
<1> QED
  BY <1>6, <1>7, <1>8, <1>9, <1>10, <1>11, QuietCall

(* Visit preserves the invariant. *)
LEMMA VisitInv ==
    ASSUME IInv, NEW a \in Actors, Visit(a), UNCHANGED <<userVars, execVars>>
    PROVE  IInv'
<1> PICK g, w, y : g = Top(a) /\ w = Head(g.rest) /\ y = <<a, Depth(a)>>
  OBVIOUS
<1> stack[a] # << >> /\ g.at = "visit"
  BY DEF Visit, At
<1>1. /\ g \in FrameState /\ FrameOK(a, Depth(a), g) /\ y \in FramePlaces /\ FrameAt(y) = g
      /\ Depth(a) \in Nat \ {0}
  BY TopFacts
<1>2. g.rest \in Seq(Tasks) /\ g.rest # << >> /\ Inj(g.rest)
  BY <1>1 DEF Visit, FrameState, IInv, Spots
<1>3. /\ w \in Tasks /\ Tail(g.rest) \in Seq(Tasks) /\ Inj(Tail(g.rest)) /\ SeqHas(g.rest, w)
      /\ \A u : SeqHas(Tail(g.rest), u) <=> SeqHas(g.rest, u) /\ u # w
  BY <1>2, TailSeq
<1>4. \A u : HoldsTask(g, u) <=> SeqHas(g.rest, u)
  BY DEF HoldsTask, SeqHas
<1>5. w \in 0..allocated /\ w # HostCode /\ Settled(w)
  <2>1. InFrame(y, w)
    BY <1>1, <1>3, <1>4 DEF InFrame
  <2>2. Active(w)
    BY <1>1, <1>3, <2>1, PlacedIsLive
  <2>3. Settled(w)
    BY <1>3, <1>4, SettledTop
  <2> QED
    BY <1>3, <2>2, <2>3, Basics, SMTT(20), Z3T(20) DEF IInv, Active, HostCode
<1>6. PICK f, c : /\ f = [g EXCEPT !.rest = Tail(g.rest)]
                  /\ c = Frame(IF task_type[w] = "runnable" THEN "schedule" ELSE "aggregate", w)
                  /\ Call(a, c, f)
  BY <1>1 DEF Visit, FrameState
<1>7. /\ f \in FrameState /\ f.at = "visit" /\ f.rest = Tail(g.rest) /\ f.task = g.task
      /\ f.pred = g.pred /\ f.next = g.next
  BY <1>1, <1>3, <1>6 DEF FrameState
<1>8. /\ c \in FrameState /\ c.task = w /\ c.pred = Null /\ Inj(c.rest)
      /\ c.at = IF task_type[w] = "runnable" THEN "schedule" ELSE "aggregate"
  <2>1. "schedule" \in Ats /\ "aggregate" \in Ats /\ w \in Owners
    BY <1>3 DEF Ats, Owners
  <2>2. NewFrame(c, IF task_type[w] = "runnable" THEN "schedule" ELSE "aggregate", w)
    BY <2>1, <1>6, FrameFacts
  <2> QED
    BY <2>2 DEF NewFrame
<1>9. \A u : /\ HoldsTask(f, u) <=> HoldsTask(g, u) /\ u # w
             /\ HoldsTask(c, u) <=> u = w
             /\ ~Releases(f, u) /\ ~Releases(c, u) /\ ~Releases(g, u)
  <2>1. \A u : HoldsTask(f, u) <=> SeqHas(Tail(g.rest), u)
    BY <1>7 DEF HoldsTask, SeqHas
  <2> QED
    BY <1>3, <1>4, <1>7, <1>8, <2>1 DEF HoldsTask, Releases
<1>10. UNCHANGED <<live, task_type, m_ref_count, m_wait_queue, consumed, m_predecessor,
                  m_is_respawning, vla, queue_index, m_ready_queues, m_ready_count,
                  holds, allocated, after, respawns, where, phase, waits>>
  BY DEF Visit, taskVars, queueVars, userVars, execVars
<1>11. \A x : FrameAt(x)' = f /\ x[1] = a /\ x[2] = Depth(a) =>
             FrameOK(x[1], x[2], FrameAt(x))' /\ FrameKnows(x[1], x[2], FrameAt(x))'
  BY <1>1, <1>7, <1>10 DEF FrameOK, FrameKnows
<1>12. \A x : FrameAt(x)' = c /\ x[1] = a /\ x[2] = Depth(a) + 1 =>
             FrameOK(x[1], x[2], FrameAt(x))' /\ FrameKnows(x[1], x[2], FrameAt(x))'
  <2>1. Null \in 0..allocated /\ task_type[w] \in {"runnable", "aggregate"} /\ Depth(a) + 1 > 1
        /\ Depth(a) + 1 # 1
    <3>1. task_type[w] \in {"runnable", "aggregate"}
      BY <1>3 DEF IInv, TypeOK
    <3>2. Null \in 0..allocated
      BY Numbers
    <3> QED
      BY <1>1, <3>1, <3>2, SMTT(20), Z3T(20)
  <2> QED
    BY <1>5, <1>8, <1>10, <2>1 DEF FrameOK, FrameKnows, Settled
<1>13. /\ HoldsTask(Top(a), w) /\ Inj(f.rest) /\ Inj(c.rest) /\ c.at \in {"schedule", "aggregate"}
       /\ f \in FrameState /\ c \in FrameState /\ Call(a, c, f) /\ w \in Tasks
       /\ f.at = "visit" /\ Top(a).at = "visit" /\ f.task = Top(a).task
  BY <1>3, <1>4, <1>6, <1>7, <1>8
<1>14. \A u : /\ HoldsTask(f, u) <=> HoldsTask(Top(a), u) /\ u # w
              /\ HoldsTask(c, u) <=> u = w
              /\ ~Releases(f, u) /\ ~Releases(c, u) /\ ~Releases(Top(a), u)
  BY <1>9
<1> QED
  BY <1>10, <1>11, <1>12, <1>13, <1>14, QuietCall
=============================================================================
