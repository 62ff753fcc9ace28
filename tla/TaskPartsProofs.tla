-------------------------- MODULE TaskPartsProofs --------------------------
(***************************************************************************)
(* The concurrent objects that tasks are kept in and referred to by, each  *)
(* for any number of threads and tasks: the lock-based ready queue, the    *)
(* wait queue of a task, and the futures.                                  *)
(***************************************************************************)
EXTENDS LockBasedLIFO, FiniteSets, TLAPS

-----------------------------------------------------------------------------
(* The ready queue: the invariants of LockBasedLIFO. *)

(* Pushing puts one node in front and shifts the others. *)
LEMMA ConsFacts ==
    ASSUME NEW n \in Nodes, NEW s \in Seq(Nodes)
    PROVE  /\ <<n>> \o s \in Seq(Nodes)
           /\ Len(<<n>> \o s) = Len(s) + 1
           /\ (<<n>> \o s)[1] = n
           /\ \A i \in 1..Len(s) : (<<n>> \o s)[i + 1] = s[i]
OBVIOUS

(* Popping removes the first node and shifts the others back. *)
LEMMA TailFacts ==
    ASSUME NEW s \in Seq(Nodes), Len(s) # 0
    PROVE  /\ Tail(s) \in Seq(Nodes)
           /\ Len(Tail(s)) = Len(s) - 1
           /\ \A i \in 1..(Len(s) - 1) : Tail(s)[i] = s[i + 1]
OBVIOUS

(* An empty queue, with every node in the hands of some thread, satisfies  *)
(* the inductive invariant.                                                *)
LEMMA InitIInv == Init => IInv
<1> SUFFICES ASSUME Init PROVE IInv
  OBVIOUS
<1> USE TagsAssumption, InQueueAssumption DEF Init, CommonInit
<1>1. stack = << >> /\ stack \in Seq(Nodes) /\ Len(stack) = 0
  OBVIOUS
<1>2. TypeOK
  BY <1>1 DEF TypeOK, Heads, NextPtrs
<1>3. LockIsExclusive
  BY DEF LockIsExclusive
<1>4. HeapIsStack
  BY <1>1 DEF HeapIsStack, Front
<1>5. NodesAreOwned
  BY <1>1 DEF NodesAreOwned, pushPCs
<1>6. Locals
  BY DEF Locals
<1>7. QED
  BY <1>2, <1>3, <1>4, <1>5, <1>6 DEF IInv

(* Every step of push, pop and steal, by any thread, preserves it.  The    *)
(* steps that matter are the two exchanges: a thread that publishes a node *)
(* has linked it to the head it replaces, and one that locks the list has  *)
(* the first node of the stack in its hands.                               *)
LEMMA StepIInv == IInv /\ [Next]_vars => IInv'
<1> SUFFICES ASSUME IInv, [Next]_vars PROVE IInv'
  OBVIOUS
<1> USE TagsAssumption, InQueueAssumption
<1>0. CASE UNCHANGED vars
  BY <1>0 DEF vars, IInv, TypeOK, LockIsExclusive, HeapIsStack, NodesAreOwned,
     Locals, Front
<1>1. ASSUME NEW t \in Threads, NEW n \in Nodes, PushCall(t, n) PROVE IInv'
  BY <1>1 DEF PushCall, TryPushCall,
     IInv, TypeOK, LockIsExclusive, HeapIsStack, NodesAreOwned,
     Locals, Heads, NextPtrs, Front, pushPCs, popPCs, AfterObserving, Return, Ends
<1>2. ASSUME NEW t \in Threads, NEW steal \in BOOLEAN, PopCall(t, steal) PROVE IInv'
  <2>1. CASE Return(t)
    BY <1>2, <2>1 DEF PopCall, PopLoopHead,
     IInv, TypeOK, LockIsExclusive, HeapIsStack, NodesAreOwned,
     Locals, Heads, NextPtrs, Front, pushPCs, popPCs, AfterObserving, Return, Ends
  <2>2. CASE pc' = [pc EXCEPT ![t] = "pop_cas"]
    BY <1>2, <2>2 DEF PopCall, PopLoopHead,
     IInv, TypeOK, LockIsExclusive, HeapIsStack, NodesAreOwned,
     Locals, Heads, NextPtrs, Front, pushPCs, popPCs, AfterObserving, Return, Ends
  <2>3. QED
    BY <1>2, <2>1, <2>2 DEF PopCall, PopLoopHead
<1>3. ASSUME NEW t \in Threads, PushRead(t) PROVE IInv'
  BY <1>3 DEF PushRead, TryPushRead,
     IInv, TypeOK, LockIsExclusive, HeapIsStack, NodesAreOwned,
     Locals, Heads, NextPtrs, Front, pushPCs, popPCs, AfterObserving, Return, Ends
<1>4. ASSUME NEW t \in Threads, PushLink(t) PROVE IInv'
  BY <1>4 DEF PushLink, TryPushLink,
     IInv, TypeOK, LockIsExclusive, HeapIsStack, NodesAreOwned,
     Locals, Heads, NextPtrs, Front, pushPCs, popPCs, AfterObserving, Return, Ends
<1>5. ASSUME NEW t \in Threads, PushSucceed(t) PROVE IInv'
  <2> DEFINE n == node[t]
  <2>1. /\ n \in Nodes /\ holder[n] = t /\ m_head # LockTag
        /\ m_next[n] = m_head /\ m_head = Front(stack)
        /\ \A i \in 1..Len(stack) : stack[i] # n
    BY <1>5 DEF PushSucceed, TryPushSucceed, IInv, TypeOK, HeapIsStack, NodesAreOwned,
       Locals, pushPCs
  <2>2. /\ stack' \in Seq(Nodes) /\ Len(stack') = Len(stack) + 1 /\ Len(stack) \in Nat
        /\ stack'[1] = n
        /\ \A i \in 1..Len(stack) : stack'[i + 1] = stack[i]
    BY <1>5, <2>1, ConsFacts DEF PushSucceed, IInv, TypeOK
  <2>3. \A j \in 1..Len(stack') : j = 1 \/ (j - 1 \in 1..Len(stack) /\ stack'[j] = stack[j - 1])
    BY <2>2
  <2>4. TypeOK'
    BY <1>5, <2>1, <2>2 DEF PushSucceed, TryPushSucceed, IInv, TypeOK, Heads, Return, Ends
  <2>5. LockIsExclusive'
    BY <1>5, <2>1 DEF PushSucceed, TryPushSucceed, IInv, TypeOK, LockIsExclusive, Return
  <2>6. HeapIsStack'
    <3>1. m_next' = m_next /\ m_head' = n /\ m_head' # LockTag
      BY <1>5, <2>1 DEF PushSucceed, TryPushSucceed
    <3>2. ASSUME NEW i \in 1..Len(stack')
          PROVE  m_next'[stack'[i]] = IF i = Len(stack') THEN EndTag ELSE stack'[i + 1]
      <4>1. CASE i = 1
        BY <2>1, <2>2, <3>1, <4>1 DEF Front
      <4>2. CASE i # 1
        <5>1. /\ i - 1 \in 1..Len(stack) /\ stack'[i] = stack[i - 1]
              /\ i = Len(stack') <=> i - 1 = Len(stack)
          BY <2>2, <2>3, <4>2
        <5>2. m_next[stack[i - 1]] = IF i - 1 = Len(stack) THEN EndTag ELSE stack[i]
          BY <2>2, <5>1 DEF IInv, HeapIsStack
        <5>3. i \in 1..Len(stack) => stack'[i + 1] = stack[i]
          BY <2>2
        <5>4. QED
          BY <2>2, <3>1, <5>1, <5>2, <5>3
      <4>3. QED
        BY <4>1, <4>2
    <3>3. \A i, j \in 1..Len(stack') : stack'[i] = stack'[j] => i = j
      BY <2>1, <2>2, <2>3 DEF IInv, HeapIsStack
    <3>4. \A u \in Threads : pc'[u] # "pop_unlock"
      BY <1>5, <2>1 DEF PushSucceed, TryPushSucceed, Return, IInv, TypeOK, LockIsExclusive
    <3>5. m_head' = Front(stack')
      BY <2>2, <3>1 DEF Front
    <3>6. QED
      BY <3>2, <3>3, <3>4, <3>5 DEF HeapIsStack
  <2>7. NodesAreOwned'
    BY <1>5, <2>1, <2>2, <2>3 DEF PushSucceed, TryPushSucceed, IInv, TypeOK,
       NodesAreOwned, Return, pushPCs
  <2>8. Locals'
    BY <1>5, <2>1 DEF PushSucceed, TryPushSucceed, IInv, TypeOK, Locals, Return,
       NodesAreOwned, pushPCs
  <2>9. QED
    BY <2>4, <2>5, <2>6, <2>7, <2>8 DEF IInv
<1>6. ASSUME NEW t \in Threads, PushRetry(t) PROVE IInv'
  BY <1>6 DEF PushRetry, TryPushRetry,
     IInv, TypeOK, LockIsExclusive, HeapIsStack, NodesAreOwned,
     Locals, Heads, NextPtrs, Front, pushPCs, popPCs, AfterObserving, Return, Ends
<1>7. ASSUME NEW t \in Threads, PushFail(t) PROVE IInv'
  BY <1>7 DEF PushFail, TryPushFail,
     IInv, TypeOK, LockIsExclusive, HeapIsStack, NodesAreOwned,
     Locals, Heads, NextPtrs, Front, pushPCs, popPCs, AfterObserving, Return, Ends
<1>8. ASSUME NEW t \in Threads, PopLock(t) PROVE IInv'
  <2> DEFINE n == old_head[t]
  <2>1. /\ n \in Nodes /\ m_head = n /\ Len(stack) \in Nat \ {0} /\ stack[1] = n
        /\ \A u \in Threads : pc[u] # "pop_unlock"
    BY <1>8 DEF PopLock, IInv, TypeOK, LockIsExclusive, HeapIsStack, Locals, Front, Heads
  <2>2. /\ stack' \in Seq(Nodes) /\ Len(stack') = Len(stack) - 1
        /\ \A i \in 1..(Len(stack) - 1) : stack'[i] = stack[i + 1]
    BY <1>8, <2>1, TailFacts DEF PopLock, IInv, TypeOK
  <2>3. \A j \in 1..Len(stack) : j = 1 \/ (j - 1 \in 1..Len(stack') /\ stack[j] = stack'[j - 1])
    BY <2>1, <2>2
  <2>4. TypeOK'
    BY <1>8, <2>1, <2>2 DEF PopLock, IInv, TypeOK, Heads, popPCs, Ends
  <2>5. LockIsExclusive'
    BY <1>8, <2>1 DEF PopLock, IInv, TypeOK, LockIsExclusive
  <2>6. HeapIsStack'
    <3>1. m_next' = m_next /\ m_head' = LockTag
      BY <1>8 DEF PopLock
    <3>2. ASSUME NEW i \in 1..Len(stack')
          PROVE  m_next'[stack'[i]] = IF i = Len(stack') THEN EndTag ELSE stack'[i + 1]
      <4>1. /\ i + 1 \in 1..Len(stack) /\ stack'[i] = stack[i + 1]
            /\ i = Len(stack') <=> i + 1 = Len(stack)
            /\ i # Len(stack') => stack'[i + 1] = stack[i + 2]
        BY <2>1, <2>2
      <4>2. m_next[stack[i + 1]] = IF i + 1 = Len(stack) THEN EndTag ELSE stack[i + 2]
        BY <2>1, <4>1 DEF IInv, HeapIsStack
      <4>3. QED
        BY <3>1, <4>1, <4>2
    <3>3. \A i, j \in 1..Len(stack') : stack'[i] = stack'[j] => i = j
      <4> SUFFICES ASSUME NEW i \in 1..Len(stack'), NEW j \in 1..Len(stack'),
                          stack'[i] = stack'[j]
                   PROVE  i = j
        OBVIOUS
      <4>1. i + 1 \in 1..Len(stack) /\ j + 1 \in 1..Len(stack) /\ stack[i + 1] = stack[j + 1]
        BY <2>1, <2>2
      <4>2. i + 1 = j + 1
        BY <4>1 DEF IInv, HeapIsStack
      <4>3. QED
        BY <2>1, <2>2, <4>2
    <3>4. m_next[n] = Front(stack')
      BY <2>1, <2>2 DEF IInv, HeapIsStack, Front
    <3>5. \A u \in Threads : pc'[u] = "pop_unlock" => node'[u] = n
      BY <1>8, <2>1 DEF PopLock, IInv, TypeOK
    <3>6. QED
      BY <3>1, <3>2, <3>3, <3>4, <3>5 DEF HeapIsStack
  <2>7. NodesAreOwned'
    <3>1. \A i \in 1..Len(stack') : stack'[i] # n
      BY <2>1, <2>2 DEF IInv, HeapIsStack
    <3>2. holder[n] = InQueue
      BY <2>1 DEF IInv, NodesAreOwned
    <3>3. ASSUME NEW u \in Threads,
                 pc'[u] \in pushPCs \cup {"pop_unlock", "pop_mark"}
          PROVE  node'[u] \in Nodes /\ holder'[node'[u]] = u
      BY <1>8, <2>1, <3>2, <3>3 DEF PopLock, IInv, TypeOK, NodesAreOwned, pushPCs
    <3>4. ASSUME NEW m \in Nodes
          PROVE  holder'[m] = InQueue <=> \E i \in 1..Len(stack') : stack'[i] = m
      <4>1. CASE m = n
        BY <1>8, <2>1, <3>1, <4>1 DEF PopLock, IInv, TypeOK
      <4>2. CASE m # n
        <5>1. holder'[m] = holder[m]
          BY <1>8, <4>2 DEF PopLock, IInv, TypeOK
        <5>2. (\E i \in 1..Len(stack) : stack[i] = m) <=> \E i \in 1..Len(stack') : stack'[i] = m
          <6>1. ASSUME NEW i \in 1..Len(stack), stack[i] = m
                PROVE  \E j \in 1..Len(stack') : stack'[j] = m
            BY <2>1, <2>3, <4>2, <6>1
          <6>2. ASSUME NEW i \in 1..Len(stack'), stack'[i] = m
                PROVE  \E j \in 1..Len(stack) : stack[j] = m
            <7>1. i + 1 \in 1..Len(stack) /\ stack[i + 1] = m
              BY <2>1, <2>2, <6>2
            <7>2. QED
              BY <7>1
          <6>3. QED
            BY <6>1, <6>2
        <5>3. QED
          BY <5>1, <5>2 DEF IInv, NodesAreOwned
      <4>3. QED
        BY <4>1, <4>2
    <3>5. QED
      BY <3>3, <3>4 DEF NodesAreOwned
  <2>8. Locals'
    <3>1. /\ m_next' = m_next /\ old_head' = old_head
          /\ holder' = [holder EXCEPT ![n] = t] /\ node' = [node EXCEPT ![t] = n]
          /\ pc[t] = "pop_cas" /\ pc' = [pc EXCEPT ![t] = "pop_unlock"]
      BY <1>8 DEF PopLock
    <3>2. /\ pc'[t] = "pop_unlock" /\ node'[t] = n
          /\ \A u \in Threads \ {t} : pc'[u] = pc[u] /\ node'[u] = node[u]
          /\ \A m \in Nodes \ {n} : holder'[m] = holder[m]
      BY <3>1 DEF IInv, TypeOK
    <3>3. ASSUME NEW u \in Threads
          PROVE  /\ pc'[u] = "push_link" => old_head'[u] # LockTag /\ old_head'[u] # NullPtr
                 /\ pc'[u] = "push_cas" => old_head'[u] # LockTag /\ m_next'[node'[u]] = old_head'[u]
                 /\ pc'[u] = "pop_cas" => old_head'[u] \in Nodes \cup {NullPtr}
      BY <3>1, <3>2 DEF IInv, Locals
    <3>4. ASSUME NEW m \in Nodes
          PROVE  \/ holder'[m] = InQueue
                 \/ m_next'[m] = NullPtr
                 \/ \E u \in Threads :
                       /\ pc'[u] \in {"push_link", "push_cas", "push_fail", "pop_unlock", "pop_mark"}
                       /\ node'[u] = m
      <4>1. CASE m = n
        BY <3>2, <4>1
      <4>2. CASE m # n
        BY <3>1, <3>2, <4>2 DEF IInv, Locals
      <4>3. QED
        BY <4>1, <4>2
    <3>5. QED
      BY <3>3, <3>4 DEF Locals
  <2>9. QED
    BY <2>4, <2>5, <2>6, <2>7, <2>8 DEF IInv
<1>9. ASSUME NEW t \in Threads, PopRetry(t) PROVE IInv'
  <2>1. CASE Return(t)
    BY <1>9, <2>1 DEF PopRetry, PopLoopHead,
     IInv, TypeOK, LockIsExclusive, HeapIsStack, NodesAreOwned,
     Locals, Heads, NextPtrs, Front, pushPCs, popPCs, AfterObserving, Return, Ends
  <2>2. CASE pc' = [pc EXCEPT ![t] = "pop_cas"]
    BY <1>9, <2>2 DEF PopRetry, PopLoopHead,
     IInv, TypeOK, LockIsExclusive, HeapIsStack, NodesAreOwned,
     Locals, Heads, NextPtrs, Front, pushPCs, popPCs, AfterObserving, Return, Ends
  <2>3. QED
    BY <1>9, <2>1, <2>2 DEF PopRetry, PopLoopHead
<1>10. ASSUME NEW t \in Threads, PopUnlock(t) PROVE IInv'
  BY <1>10 DEF PopUnlock,
     IInv, TypeOK, LockIsExclusive, HeapIsStack, NodesAreOwned,
     Locals, Heads, NextPtrs, Front, pushPCs, popPCs, AfterObserving, Return, Ends
<1>11. ASSUME NEW t \in Threads, PopMark(t) PROVE IInv'
  BY <1>11 DEF PopMark,
     IInv, TypeOK, LockIsExclusive, HeapIsStack, NodesAreOwned,
     Locals, Heads, NextPtrs, Front, pushPCs, popPCs, AfterObserving, Return, Ends
<1>20. QED
  BY <1>0, <1>1, <1>2, <1>3, <1>4, <1>5, <1>6, <1>7, <1>8, <1>9, <1>10, <1>11 DEF Next, Step

(* The inductive invariant implies what _try_push_node expects of its      *)
(* argument: the node belongs to this thread, so no other operation can    *)
(* have left a link in it.                                                 *)
LEMMA IInvImpliesExpects == IInv => PushedNodeIsNotEnqueued
<1> SUFFICES ASSUME IInv, NEW t \in Threads, pc[t] = "push_read"
             PROVE  m_next[node[t]] = NullPtr
  BY DEF PushedNodeIsNotEnqueued, is_enqueued
<1>1. node[t] \in Nodes /\ holder[node[t]] = t /\ t # InQueue
  BY InQueueAssumption DEF IInv, NodesAreOwned, pushPCs
<1>2. ASSUME NEW u \in Threads, node[u] = node[t],
             pc[u] \in {"push_link", "push_cas", "push_fail", "pop_unlock", "pop_mark"}
      PROVE  FALSE
  <2>1. holder[node[u]] = u
    BY <1>2 DEF IInv, NodesAreOwned, pushPCs
  <2>2. QED
    BY <1>1, <1>2, <2>1
<1>3. QED
  BY <1>1, <1>2 DEF IInv, Locals

(* Exclusion of the lock, agreement of the linked words with the pushed    *)
(* and not yet popped nodes, exclusive ownership of a node by the          *)
(* operation that works on it, and the precondition of _try_push_node, for *)
(* any number of threads and nodes.                                        *)
THEOREM LIFOIsSafe ==
    Spec => [](TypeOK /\ LockIsExclusive /\ HeapIsStack /\ NodesAreOwned
                 /\ PushedNodeIsNotEnqueued)
<1>1. IInv => TypeOK /\ LockIsExclusive /\ HeapIsStack /\ NodesAreOwned
                 /\ PushedNodeIsNotEnqueued
  BY IInvImpliesExpects DEF IInv
<1>2. QED
  BY <1>1, InitIInv, StepIInv, PTL DEF Spec

-----------------------------------------------------------------------------
Stack == INSTANCE LIFOStack

(* Every step of the linked list is a step of the atomic stack or changes  *)
(* nothing of it: a push takes effect at its exchange, a pop when it locks *)
(* the list, and a pop that returns nothing does so on an empty stack.     *)
LEMMA StepRefines == IInv /\ [Next]_vars => [Stack!Next]_(Stack!vars)
<1> SUFFICES ASSUME IInv, [Next]_vars PROVE [Stack!Next]_(Stack!vars)
  OBVIOUS
<1> USE TagsAssumption, InQueueAssumption
<1>1. ASSUME NEW t \in Threads, PushSucceed(t) PROVE Stack!Next
  <2>1. node[t] \in Nodes /\ holder[node[t]] = t
    BY <1>1 DEF PushSucceed, TryPushSucceed, IInv, NodesAreOwned, pushPCs
  <2>2. Stack!Push(t, node[t])
    BY <1>1, <2>1 DEF PushSucceed, Ends, Stack!Push
  <2>3. QED
    BY <2>1, <2>2 DEF Stack!Next
<1>2. ASSUME NEW t \in Threads, PopLock(t) PROVE Stack!Next
  <2>1. old_head[t] \in Nodes /\ Len(stack) # 0 /\ stack[1] = old_head[t]
    BY <1>2 DEF PopLock, IInv, TypeOK, HeapIsStack, Locals, Front, Heads
  <2>2. stack # << >> /\ Head(stack) = old_head[t]
    BY <2>1 DEF IInv, TypeOK
  <2>3. Stack!Pop(t)
    BY <1>2, <2>2 DEF PopLock, Ends, Stack!Pop
  <2>4. QED
    BY <2>3 DEF Stack!Next
<1>3. ASSUME NEW t \in Threads, NEW steal, PopLoopHead(t, steal),
             UNCHANGED <<stack, holder>>
      PROVE  [Stack!Next]_(Stack!vars)
  <2>1. CASE m_head = EndTag /\ Ends(t, "empty")
    <3>1. stack = << >>
      BY <2>1 DEF IInv, TypeOK, HeapIsStack, Front
    <3>2. Stack!PopEmpty(t)
      BY <1>3, <2>1, <3>1 DEF Ends, Stack!PopEmpty
    <3>3. QED
      BY <3>2 DEF Stack!Next
  <2>2. CASE Ends(t, "locked")
    BY <1>3, <2>2 DEF Ends, Stack!StealGivesUp, Stack!Next
  <2>3. CASE UNCHANGED outcome
    BY <1>3, <2>3 DEF Stack!vars
  <2>4. QED
    BY <1>3, <2>1, <2>2, <2>3 DEF PopLoopHead
<1>4. ASSUME NEW t \in Threads, NEW steal \in BOOLEAN, PopCall(t, steal)
      PROVE  [Stack!Next]_(Stack!vars)
  BY <1>3, <1>4 DEF PopCall
<1>5. ASSUME NEW t \in Threads, PopRetry(t) PROVE [Stack!Next]_(Stack!vars)
  BY <1>3, <1>5 DEF PopRetry
<1>6. ASSUME NEW t \in Threads,
             \/ \E n \in Nodes : PushCall(t, n)
             \/ PushRead(t) \/ PushLink(t) \/ PushRetry(t) \/ PushFail(t)
             \/ PopUnlock(t) \/ PopMark(t)
      PROVE  UNCHANGED Stack!vars
  BY <1>6 DEF PushCall, PushRead, PushLink, PushRetry, PushFail, PopUnlock, PopMark, Stack!vars
<1>7. CASE UNCHANGED vars
  BY <1>7 DEF vars, Stack!vars
<1>8. QED
  BY <1>1, <1>2, <1>4, <1>5, <1>6, <1>7 DEF Next, Step

(* The lock-based list implements the atomic stack. *)
THEOREM LIFOImplementsStack == Spec => Stack!Spec
<1>1. Init => Stack!Init
  BY DEF Init, Stack!Init
<1>2. QED
  BY <1>1, InitIInv, StepIInv, StepRefines, PTL DEF Spec, Stack!Spec

-----------------------------------------------------------------------------
(* The wait queue (SingleConsumeLIFO): a node that nobody pushes and no    *)
(* queue holds is marked as not enqueued, and try_push is refused and      *)
(* accepted on the right sides of consume().                               *)
(*                                                                         *)
(* consume() writes the next word of the node it visits while producers    *)
(* write those of their own nodes.  The argument is that nobody writes the *)
(* next word of a node that is still linked: the linked nodes are those    *)
(* the queue holds and consume() has not detached, each is the successor   *)
(* of at most one of them, and the first is the successor of none.         *)

(* The head, the nodes and the threads' positions are those above. *)
VARIABLES phase, cursor, call_arg, cpc, begun

WQ == INSTANCE SingleConsumeLIFO

PCs == {"idle", "push_read", "push_link", "push_cas", "push_fail"}
Phases == {"open", "called", "visiting", "returned"}
Consumed == phase \in {"visiting", "returned"}

QTypeOK ==
    /\ m_head \in WQ!Heads /\ m_next \in [Nodes -> WQ!NextPtrs]
    /\ pc \in [Threads -> PCs] /\ node \in [Threads -> Nodes \cup {NullPtr}]
    /\ old_head \in [Threads -> WQ!Heads \cup {NullPtr}]
    /\ phase \in Phases /\ cpc \in {"idle", "loop", "mark", "call"}
    /\ cursor \in WQ!NextPtrs /\ call_arg \in Nodes \cup {NullPtr}
    /\ holder \in [Nodes -> Threads \cup {InQueue}]
    /\ begun \in [Threads -> Phases]

(* Where consume() is, and what it holds. *)
Consuming ==
    /\ m_head = LockTag <=> Consumed
    /\ cpc # "idle" <=> phase = "visiting"
    /\ Consumed => cursor # NullPtr
    /\ cpc \in {"idle", "loop"} <=> call_arg = NullPtr
    /\ call_arg # NullPtr => holder[call_arg] = InQueue
    /\ cpc = "call" => m_next[call_arg] = NullPtr

Linked == {n \in Nodes : holder[n] = InQueue /\ n # call_arg}
First  == IF Consumed THEN cursor ELSE m_head

(* The linked nodes form chains, and First begins one. *)
Chained ==
    /\ First \in Linked \cup {EndTag}
    /\ \A n \in Linked :
          /\ m_next[n] \in Linked \cup {EndTag}
          /\ m_next[n] # EndTag => m_next[n] # First
    /\ \A n, m \in Linked : m_next[n] = m_next[m] /\ m_next[n] # EndTag => n = m

(* A thread in try_push has its node to itself, and has seen a list that   *)
(* was not consumed until it gives up.                                     *)
Pushing ==
    \A t \in Threads :
       /\ pc[t] # "idle" =>
             /\ node[t] \in Nodes /\ holder[node[t]] = t
             /\ begun[t] \in {"visiting", "returned"} => Consumed
       /\ pc[t] \in {"push_link", "push_cas"} => old_head[t] \in Nodes \cup {EndTag}
       /\ pc[t] = "push_cas" => m_next[node[t]] = old_head[t]
       /\ pc[t] = "push_fail" => Consumed

QInv == QTypeOK /\ Consuming /\ Chained /\ Pushing /\ WQ!HeldNodeIsNotEnqueued

-----------------------------------------------------------------------------
LEMMA QInitInv == WQ!Init => QInv
BY TagsAssumption, InQueueAssumption
   DEF WQ!Init, WQ!CommonInit, QInv, QTypeOK, Consuming, Chained, Pushing, WQ!HeldNodeIsNotEnqueued,
       Consumed, Linked, First, PCs, Phases, WQ!Heads, WQ!NextPtrs, WQ!is_enqueued

(* A step that writes no next word and moves no node, nor the end of the   *)
(* list where the chain begins, leaves the chain alone.                    *)
LEMMA ChainedKept ==
    ASSUME Chained, m_next' = m_next, holder' = holder, call_arg' = call_arg, First' = First
    PROVE  Chained'
<1>1. Linked' = Linked BY DEF Linked
<1> QED BY <1>1 DEF Chained

(* The steps of try_push before the exchange, and after it was lost. *)
LEMMA PushLocalInv ==
    ASSUME QInv, NEW t \in Threads,
           (\E n \in Nodes : WQ!PushCall(t, n)) \/ WQ!PushRead(t) \/ WQ!PushRetry(t)
    PROVE  QInv'
<1> USE TagsAssumption, InQueueAssumption
<1> DEFINE u == WQ!PushRead(t) \/ WQ!PushRetry(t)
<1>1. /\ UNCHANGED <<m_head, m_next, WQ!consumeVars, holder, outcome>>
      /\ pc' = [pc EXCEPT ![t] = pc'[t]] /\ pc[t] \in {"idle", "push_read", "push_cas"}
      /\ node' = [node EXCEPT ![t] = node'[t]] /\ old_head' = [old_head EXCEPT ![t] = old_head'[t]]
      /\ begun' = [begun EXCEPT ![t] = begun'[t]]
  BY  DEF WQ!PushCall, WQ!PushRead, WQ!PushRetry, WQ!TryPushCall, WQ!TryPushRead,
     WQ!TryPushRetry, QInv, QTypeOK
<1>2. /\ pc'[t] \in {"push_read", "push_link", "push_fail"}
      /\ node'[t] \in Nodes /\ holder[node'[t]] = t
      /\ old_head'[t] \in WQ!Heads \cup {NullPtr} /\ begun'[t] \in Phases
      /\ begun'[t] \in {"visiting", "returned"} => Consumed
  <2>1. CASE \E n \in Nodes : WQ!PushCall(t, n)
    BY <2>1 DEF WQ!PushCall, WQ!TryPushCall, QInv, QTypeOK, Consumed
  <2>2. CASE u
    BY <2>2 DEF WQ!PushRead, WQ!PushRetry, WQ!TryPushRead, WQ!TryPushRetry, WQ!AfterObserving,
       QInv, QTypeOK, Pushing
  <2> QED BY <2>1, <2>2
<1>3. /\ pc'[t] = "push_link" => old_head'[t] \in Nodes \cup {EndTag}
      /\ pc'[t] = "push_fail" => Consumed
  BY  DEF WQ!PushCall, WQ!PushRead, WQ!PushRetry, WQ!TryPushCall, WQ!TryPushRead,
     WQ!TryPushRetry, WQ!AfterObserving,
         QInv, QTypeOK, Consuming, WQ!Heads
<1>4. QTypeOK' BY <1>1, <1>2 DEF QInv, QTypeOK, WQ!consumeVars, PCs
<1>5. Consumed' = Consumed /\ First' = First BY <1>1 DEF Consumed, First, WQ!consumeVars
<1>6. Consuming' BY <1>1, <1>5 DEF QInv, Consuming, WQ!consumeVars
<1>7. Chained' BY <1>1, <1>5, ChainedKept DEF QInv, WQ!consumeVars
<1>8. ASSUME NEW s \in Threads, s # t
      PROVE  pc'[s] = pc[s] /\ node'[s] = node[s] /\ old_head'[s] = old_head[s] /\ begun'[s] = begun[s]
  BY <1>1, <1>8 DEF QInv, QTypeOK
<1>9. Pushing' BY <1>1, <1>2, <1>3, <1>5, <1>8 DEF QInv, Pushing
<1>10. ASSUME NEW n \in Nodes, holder'[n] # InQueue, \A s \in Threads : pc'[s] = "idle" \/ node'[s] # n
       PROVE  m_next'[n] = NullPtr
  <2>1. n # node'[t] BY <1>2, <1>10
  <2>2. \A s \in Threads : s # t => (pc[s] = "idle" \/ node[s] # n) BY <1>8, <1>10
  <2>3. pc[t] = "idle" \/ node[t] # n
    BY <2>1 DEF WQ!PushCall, WQ!PushRead, WQ!PushRetry, WQ!TryPushCall, WQ!TryPushRead,
       WQ!TryPushRetry
  <2> QED BY <1>1, <1>10, <2>2, <2>3 DEF QInv, WQ!HeldNodeIsNotEnqueued, WQ!is_enqueued
<1>11. WQ!HeldNodeIsNotEnqueued' BY <1>10 DEF WQ!HeldNodeIsNotEnqueued, WQ!is_enqueued
<1> QED BY <1>4, <1>6, <1>7, <1>9, <1>11 DEF QInv

(* next = old_head, or mark_as_not_enqueued after a refusal: the thread    *)
(* writes the next word of a node it has to itself.                        *)
LEMMA PushWriteInv ==
    ASSUME QInv, NEW t \in Threads, WQ!PushLink(t) \/ WQ!PushRefused(t) PROVE QInv'
<1> USE TagsAssumption, InQueueAssumption
<1> DEFINE n == node[t]
<1>1. /\ UNCHANGED <<m_head, node, old_head, WQ!consumeVars, holder, begun>>
      /\ pc[t] # "idle" /\ n \in Nodes /\ holder[n] = t
      /\ pc' = [pc EXCEPT ![t] = pc'[t]] /\ m_next' = [m_next EXCEPT ![n] = m_next'[n]]
  BY DEF WQ!PushLink, WQ!PushRefused, WQ!TryPushLink, WQ!TryPushFail, QInv, QTypeOK, Pushing
<1>2. \/ pc'[t] = "push_cas" /\ m_next'[n] = old_head[t] /\ old_head[t] \in Nodes \cup {EndTag}
      \/ pc'[t] = "idle" /\ m_next'[n] = NullPtr
  BY <1>1 DEF WQ!PushLink, WQ!PushRefused, WQ!TryPushLink, WQ!TryPushFail, QInv, QTypeOK,
     Pushing
<1>3. QTypeOK' BY <1>1, <1>2 DEF QInv, QTypeOK, WQ!consumeVars, PCs, WQ!NextPtrs
<1>4. Consumed' = Consumed /\ First' = First /\ Linked' = Linked
  BY <1>1 DEF Consumed, First, Linked, WQ!consumeVars
<1>5. \A m \in Nodes : m # n => m_next'[m] = m_next[m] BY <1>1 DEF QInv, QTypeOK
<1>6. n \notin Linked /\ n # call_arg BY <1>1 DEF Linked, QInv, Consuming
<1>7. Consuming' BY <1>1, <1>4, <1>5, <1>6 DEF QInv, QTypeOK, Consuming, WQ!consumeVars
<1>8. Chained'
  <2>1. \A m \in Linked : m_next'[m] = m_next[m] BY <1>5, <1>6 DEF Linked
  <2> QED BY <1>4, <2>1 DEF QInv, Chained
<1>9. ASSUME NEW s \in Threads, s # t PROVE pc'[s] = pc[s] /\ (pc[s] # "idle" => node[s] # n)
  BY <1>1, <1>9 DEF QInv, QTypeOK, Pushing
<1>10. Pushing'
  <2>1. ASSUME NEW s \in Threads, s # t, pc[s] # "idle" PROVE m_next'[node[s]] = m_next[node[s]]
    BY <1>5, <1>9, <2>1 DEF QInv, Pushing
  <2> QED BY <1>1, <1>2, <1>4, <1>9, <2>1 DEF QInv, Pushing
<1>11. WQ!HeldNodeIsNotEnqueued'
  <2>1. ASSUME NEW m \in Nodes, holder'[m] # InQueue, \A s \in Threads : pc'[s] = "idle" \/ node'[s] # m
        PROVE  m_next'[m] = NullPtr
    <3>1. CASE m = n BY <1>1, <1>2, <2>1, <3>1
    <3>2. CASE m # n
      <4>1. \A s \in Threads : pc[s] = "idle" \/ node[s] # m BY <1>1, <1>9, <2>1, <3>2
      <4> QED BY <1>1, <1>5, <2>1, <3>2, <4>1 DEF QInv, WQ!HeldNodeIsNotEnqueued, WQ!is_enqueued
    <3> QED BY <3>1, <3>2
  <2> QED BY <2>1 DEF WQ!HeldNodeIsNotEnqueued, WQ!is_enqueued
<1> QED BY <1>3, <1>7, <1>8, <1>10, <1>11 DEF QInv

(* The exchange: the node joins the linked ones, in front of all of them. *)
LEMMA PushAcceptedInv == ASSUME QInv, NEW t \in Threads, WQ!PushAccepted(t) PROVE QInv'
<1> USE TagsAssumption, InQueueAssumption
<1> DEFINE n == node[t]
<1>1. /\ pc[t] = "push_cas" /\ n \in Nodes /\ holder[n] = t /\ m_head = old_head[t]
      /\ m_head \in Nodes \cup {EndTag} /\ m_next[n] = m_head
  BY DEF WQ!PushAccepted, WQ!TryPushSucceed, QInv, Pushing
<1>2. /\ UNCHANGED <<m_next, WQ!consumeVars, begun>>
      /\ m_head' = n /\ holder' = [holder EXCEPT ![n] = InQueue]
      /\ pc' = [pc EXCEPT ![t] = "idle"] /\ node' = [node EXCEPT ![t] = NullPtr]
      /\ old_head' = [old_head EXCEPT ![t] = NullPtr]
  BY DEF WQ!PushAccepted, WQ!TryPushSucceed, WQ!Return
<1>3. ~Consumed /\ ~Consumed' /\ First = m_head /\ First' = n
  BY <1>1, <1>2 DEF QInv, Consuming, Consumed, First, WQ!consumeVars
<1>4. QTypeOK' BY <1>1, <1>2 DEF QInv, QTypeOK, WQ!consumeVars, PCs, WQ!Heads
<1>5. n \notin Linked /\ n # call_arg BY <1>1 DEF Linked, QInv, Consuming
<1>6. Linked' = Linked \cup {n}
  BY <1>1, <1>2, <1>5 DEF Linked, QInv, QTypeOK, WQ!consumeVars
<1>7. Consuming' BY <1>1, <1>2, <1>3, <1>5 DEF QInv, QTypeOK, Consuming, WQ!consumeVars
<1>8. Chained' BY <1>1, <1>2, <1>3, <1>5, <1>6 DEF QInv, Chained, Linked
<1>9. ASSUME NEW s \in Threads, s # t
      PROVE  /\ pc'[s] = pc[s] /\ node'[s] = node[s] /\ old_head'[s] = old_head[s]
             /\ pc[s] # "idle" => node[s] # n /\ holder'[node[s]] = s
  BY <1>1, <1>2, <1>9 DEF QInv, QTypeOK, Pushing
<1>10. Pushing'
  <2>1. pc'[t] = "idle" BY <1>2 DEF QInv, QTypeOK
  <2> QED BY <1>2, <1>3, <1>9, <2>1 DEF QInv, Pushing
<1>11. WQ!HeldNodeIsNotEnqueued'
  <2>1. ASSUME NEW m \in Nodes, holder'[m] # InQueue, \A s \in Threads : pc'[s] = "idle" \/ node'[s] # m
        PROVE  m_next'[m] = NullPtr
    <3>1. m # n /\ holder'[m] = holder[m] BY <1>1, <1>2, <2>1 DEF QInv, QTypeOK
    <3>2. \A s \in Threads : pc[s] = "idle" \/ node[s] # m BY <1>9, <2>1, <3>1
    <3> QED BY <1>2, <2>1, <3>1, <3>2 DEF QInv, WQ!HeldNodeIsNotEnqueued, WQ!is_enqueued
  <2> QED BY <2>1 DEF WQ!HeldNodeIsNotEnqueued, WQ!is_enqueued
<1> QED BY <1>4, <1>7, <1>8, <1>10, <1>11 DEF QInv

(* consume() is called, exchanges the head, moves on or returns: the chain *)
(* keeps its beginning, or loses its first node to consume().              *)
LEMMA ConsumeMovesInv ==
    ASSUME QInv, WQ!ConsumeCall \/ WQ!ConsumeExchange \/ WQ!ConsumeAdvance \/ WQ!ConsumeReturn PROVE QInv'
<1> USE TagsAssumption, InQueueAssumption
<1>1. UNCHANGED <<m_next, pc, node, old_head, holder, begun>>
  BY DEF WQ!ConsumeCall, WQ!ConsumeExchange, WQ!ConsumeAdvance, WQ!ConsumeReturn, WQ!commonVars
<1>2. /\ Consumed => Consumed'
      /\ QTypeOK' /\ Consuming'
  <2>1. CASE WQ!ConsumeCall
    BY <1>1, <2>1 DEF WQ!ConsumeCall, WQ!commonVars, QInv, QTypeOK, Consuming, Consumed, Phases
  <2>2. CASE WQ!ConsumeExchange
    BY <1>1, <2>2 DEF WQ!ConsumeExchange, WQ!ConsumedTag, QInv, QTypeOK, Consuming, Consumed,
       Phases, WQ!Heads, WQ!NextPtrs
  <2>3. CASE WQ!ConsumeAdvance
    BY <1>1, <2>3 DEF WQ!ConsumeAdvance, WQ!commonVars, QInv, QTypeOK, Consuming, Chained,
       Consumed, Linked, First, WQ!NextPtrs
  <2>4. CASE WQ!ConsumeReturn
    BY <1>1, <2>4 DEF WQ!ConsumeReturn, WQ!commonVars, QInv, QTypeOK, Consuming, Consumed,
       Phases
  <2> QED BY <2>1, <2>2, <2>3, <2>4
<1>3. Chained'
  <2>1. CASE WQ!ConsumeAdvance
    <3>1. /\ Consumed /\ Consumed' /\ First = cursor /\ cursor \in Linked /\ First' = m_next[cursor]
          /\ Linked' = Linked \ {cursor}
      BY <1>1, <2>1 DEF WQ!ConsumeAdvance, QInv, Consuming, Chained, Consumed, First, Linked
    <3> QED BY <1>1, <3>1 DEF QInv, Chained
  <2>2. CASE ~WQ!ConsumeAdvance
    <3>1. call_arg' = call_arg /\ First' = First
      BY <2>2 DEF WQ!ConsumeCall, WQ!ConsumeExchange, WQ!ConsumeReturn, WQ!commonVars, QInv,
         Consuming, Consumed, First
    <3> QED BY <1>1, <3>1, ChainedKept DEF QInv
  <2> QED BY <2>1, <2>2
<1>4. Pushing' BY <1>1, <1>2 DEF QInv, Pushing
<1>5. WQ!HeldNodeIsNotEnqueued' BY <1>1 DEF QInv, WQ!HeldNodeIsNotEnqueued, WQ!is_enqueued
<1> QED BY <1>2, <1>3, <1>4, <1>5 DEF QInv

(* mark_as_not_enqueued(call_arg), and the visit that gives the node away. *)
LEMMA ConsumeVisitsInv ==
    ASSUME QInv, WQ!ConsumeMark \/ \E t \in Threads : WQ!ConsumeVisit(t) PROVE QInv'
<1> USE TagsAssumption, InQueueAssumption
<1> DEFINE n == call_arg
<1>1. /\ UNCHANGED <<m_head, pc, node, old_head, phase, cursor, begun>>
      /\ n \in Nodes /\ holder[n] = InQueue /\ phase = "visiting"
  BY DEF WQ!ConsumeMark, WQ!ConsumeVisit, WQ!commonVars, QInv, QTypeOK, Consuming
<1>2. Consumed /\ Consumed' /\ First' = First BY <1>1 DEF Consumed, First
<1>3. n \notin Linked /\ \A t \in Threads : pc[t] # "idle" => node[t] # n
  BY <1>1 DEF Linked, QInv, Pushing
<1>4. CASE WQ!ConsumeMark
  <2>1. /\ UNCHANGED <<holder, call_arg>> /\ cpc' = "call" /\ cpc = "mark"
        /\ m_next' = [m_next EXCEPT ![n] = NullPtr]
    BY <1>4 DEF WQ!ConsumeMark
  <2>2. \A m \in Nodes : m # n => m_next'[m] = m_next[m] BY <2>1 DEF QInv, QTypeOK
  <2>3. QTypeOK' BY <1>1, <2>1 DEF QInv, QTypeOK, WQ!NextPtrs
  <2>4. Consuming' BY <1>1, <1>2, <2>1 DEF QInv, QTypeOK, Consuming
  <2>5. Linked' = Linked BY <2>1 DEF Linked
  <2>6. \A m \in Linked : m_next'[m] = m_next[m] BY <1>3, <2>2 DEF Linked
  <2>7. Chained' BY <1>2, <2>5, <2>6 DEF QInv, Chained
  <2>8. Pushing' BY <1>1, <1>2, <1>3, <2>1, <2>2 DEF QInv, Pushing
  <2>9. WQ!HeldNodeIsNotEnqueued' BY <1>1, <2>1, <2>2 DEF QInv, WQ!HeldNodeIsNotEnqueued,
     WQ!is_enqueued
  <2> QED BY <2>3, <2>4, <2>7, <2>8, <2>9 DEF QInv
<1>5. ASSUME NEW t \in Threads, WQ!ConsumeVisit(t) PROVE QInv'
  <2>1. /\ m_next' = m_next /\ holder' = [holder EXCEPT ![n] = t]
        /\ call_arg' = NullPtr /\ cpc' = "loop" /\ cpc = "call"
    BY <1>5 DEF WQ!ConsumeVisit, WQ!commonVars
  <2>2. QTypeOK' BY <1>1, <2>1 DEF QInv, QTypeOK
  <2>3. Consuming' BY <1>1, <1>2, <2>1 DEF QInv, Consuming
  <2>4. Linked' = Linked BY <1>1, <2>1 DEF QInv, QTypeOK, Linked
  <2>5. Chained' BY <1>2, <2>1, <2>4 DEF QInv, Chained
  <2>6. Pushing' BY <1>1, <1>2, <1>3, <2>1 DEF QInv, QTypeOK, Pushing
  <2>7. m_next[n] = NullPtr BY <2>1 DEF QInv, Consuming
  <2>8. WQ!HeldNodeIsNotEnqueued' BY <1>1, <2>1, <2>7 DEF QInv, QTypeOK,
     WQ!HeldNodeIsNotEnqueued, WQ!is_enqueued
  <2> QED BY <2>2, <2>3, <2>5, <2>6, <2>8 DEF QInv
<1> QED BY <1>4, <1>5

LEMMA QNextInv == QInv /\ [WQ!Next]_(WQ!vars) => QInv'
<1> SUFFICES ASSUME QInv, [WQ!Next]_(WQ!vars) PROVE QInv' OBVIOUS
<1>1. CASE UNCHANGED WQ!vars
  BY <1>1 DEF WQ!vars, QInv, QTypeOK, Consuming, Chained, Pushing, WQ!HeldNodeIsNotEnqueued,
     Consumed, Linked, First, WQ!is_enqueued
<1>2. CASE WQ!Next
  BY <1>2, PushLocalInv, PushWriteInv, PushAcceptedInv, ConsumeMovesInv, ConsumeVisitsInv
     DEF WQ!Next, WQ!PushStep, WQ!ConsumeStep
<1> QED BY <1>1, <1>2

(* A node that no queue holds and no try_push is working on is marked as   *)
(* not enqueued, whatever try_push and consume() do at the same time: the  *)
(* precondition of the next try_push holds.                                *)
THEOREM HeldNodesAreUnmarked == WQ!Spec => []WQ!HeldNodeIsNotEnqueued
<1>1. QInv => WQ!HeldNodeIsNotEnqueued BY DEF QInv
<1> QED BY <1>1, QInitInv, QNextInv, PTL DEF WQ!Spec

(* No try_push that ends before consume() is called is refused, and none   *)
(* that begins after its exchange is accepted.                             *)
THEOREM PushesRespectConsume == WQ!Spec => WQ!PushRespectsConsume
<1>1. QInv /\ [WQ!Next]_(WQ!vars) =>
        [\A t \in Threads :
           /\ WQ!PushRefused(t) => phase # "open"
           /\ WQ!PushAccepted(t) => begun[t] \notin {"visiting", "returned"}]_(WQ!vars)
  <2> SUFFICES ASSUME QInv, NEW t \in Threads
               PROVE  /\ WQ!PushRefused(t) => phase # "open"
                      /\ WQ!PushAccepted(t) => begun[t] \notin {"visiting", "returned"}
    OBVIOUS
  <2>1. WQ!PushRefused(t) => Consumed BY DEF WQ!PushRefused, WQ!TryPushFail, QInv, Pushing
  <2>2. WQ!PushAccepted(t) => ~Consumed
    BY TagsAssumption DEF WQ!PushAccepted, WQ!TryPushSucceed, QInv, Pushing, Consuming
  <2>3. WQ!PushAccepted(t) => (begun[t] \in {"visiting", "returned"} => Consumed)
    BY DEF WQ!PushAccepted, WQ!TryPushSucceed, QInv, Pushing
  <2> QED BY <2>1, <2>2, <2>3 DEF Consumed
<1> QED BY <1>1, QInitInv, QNextInv, PTL DEF WQ!Spec, WQ!PushRespectsConsume

-----------------------------------------------------------------------------
(* The futures (BasicFuture): the reference counts are exact as long as no *)
(* future is copy-assigned to one of the same task.                        *)

CONSTANTS Vars, Tasks, Null
VARIABLES alive, m_task, m_ref_count, live, running

Fut == INSTANCE BasicFuture

LOCAL INSTANCE FiniteSetTheorems

(* The cardinality that BasicFuture counts with. *)
LEMMA SameCardinality == \A S : Fut!Cardinality(S) = Cardinality(S)
BY Zenon DEF Fut!Cardinality, Cardinality

(* The variables that refer to t under m. *)
Refs(m, t) == {f \in Vars : m[f] = t}

(* What one reference to `a` is worth for the count of t. *)
Worth(a, t) == IF a = t THEN 1 ELSE 0

(* The reference that a task holds to itself while it is one of R. *)
Own(R, t) == IF t \in R THEN 1 ELSE 0

(* Every count is exact, and a variable that does not exist refers to      *)
(* nothing.                                                                *)
FutureInv == Fut!TypeOK /\ Fut!CountsReferences /\ \A f \in Vars \ alive : m_task[f] = Null

(* Changing one variable changes the number of references by one each.     *)
LEMMA OneChange ==
    ASSUME IsFiniteSet(Vars),
           NEW m \in [Vars -> Tasks \cup {Null}], NEW n \in [Vars -> Tasks \cup {Null}],
           NEW f \in Vars, \A g \in Vars : g # f => n[g] = m[g],
           NEW t \in Tasks
    PROVE  /\ Cardinality(Refs(m, t)) \in Nat /\ Cardinality(Refs(n, t)) \in Nat
           /\ Cardinality(Refs(n, t)) = Cardinality(Refs(m, t)) + Worth(n[f], t) - Worth(m[f], t)
<1>1. /\ IsFiniteSet(Refs(m, t)) /\ Cardinality(Refs(m, t)) \in Nat
      /\ IsFiniteSet(Refs(n, t)) /\ Cardinality(Refs(n, t)) \in Nat
  <2>1. Refs(m, t) \subseteq Vars /\ Refs(n, t) \subseteq Vars
    BY DEF Refs
  <2> QED
    BY <2>1, FS_Subset, FS_CardinalityType
<1>3. CASE n[f] = t /\ m[f] # t
  <2>1. Refs(n, t) = Refs(m, t) \cup {f} /\ f \notin Refs(m, t)
    BY <1>3 DEF Refs
  <2>2. Cardinality(Refs(n, t)) = Cardinality(Refs(m, t)) + 1
    BY <1>1, <2>1, FS_AddElement
  <2> QED
    BY <1>1, <1>3, <2>2 DEF Worth
<1>4. CASE n[f] # t /\ m[f] = t
  <2>1. Refs(n, t) = Refs(m, t) \ {f} /\ f \in Refs(m, t)
    BY <1>4 DEF Refs
  <2>2. Cardinality(Refs(n, t)) = Cardinality(Refs(m, t)) - 1
    BY <1>1, <2>1, FS_RemoveElement
  <2> QED
    BY <1>1, <1>4, <2>2 DEF Worth
<1>5. CASE n[f] = t <=> m[f] = t
  <2>1. Refs(n, t) = Refs(m, t)
    BY <1>5 DEF Refs
  <2> QED
    BY <1>1, <1>5, <2>1 DEF Worth
<1> QED
  BY <1>3, <1>4, <1>5

(* A step that uses Count(lost, won) keeps the counts exact when the       *)
(* references and the running tasks change in the same way.                *)
LEMMA CountStep ==
    ASSUME IsFiniteSet(Vars), Fut!TypeOK, Fut!CountsReferences,
           NEW lost, NEW won, Fut!Count(lost, won),
           m_task' \in [Vars -> Tasks \cup {Null}],
           alive' \subseteq Vars, running' \subseteq Tasks,
           \A t \in Tasks :
              /\ Cardinality(Refs(m_task, t)) \in Nat /\ Cardinality(Refs(m_task', t)) \in Nat
              /\ Cardinality(Refs(m_task', t)) + Own(running', t)
                 = Cardinality(Refs(m_task, t)) + Own(running, t)
                   + Worth(won, t) - Worth(lost, t),
           won \in Tasks => won \in live
    PROVE  Fut!TypeOK' /\ Fut!CountsReferences'
<1>1. \A t \in Tasks : /\ m_ref_count[t] \in Nat
                       /\ m_ref_count[t] = Cardinality(Refs(m_task, t)) + Own(running, t)
                       /\ t \in live <=> m_ref_count[t] > 0
  BY SameCardinality DEF Fut!TypeOK, Fut!CountsReferences, Fut!References, Refs, Own
<1>2. m_ref_count' = [t \in Tasks |-> m_ref_count[t] + Worth(won, t) - Worth(lost, t)]
  BY DEF Fut!Count, Worth
<1>3. live' = live \ {t \in Tasks : t = lost /\ t # won /\ m_ref_count[t] = 1}
  BY DEF Fut!Count
<1>4. ASSUME NEW t \in Tasks
      PROVE  /\ m_ref_count'[t] = Cardinality(Refs(m_task', t)) + Own(running', t)
             /\ m_ref_count'[t] \in Nat
             /\ t \in live' <=> m_ref_count'[t] > 0
  <2>1. m_ref_count'[t] = m_ref_count[t] + Worth(won, t) - Worth(lost, t)
    BY <1>2
  <2>2. Own(running', t) \in {0, 1} /\ Own(running, t) \in {0, 1}
    BY DEF Own
  <2>3. m_ref_count'[t] = Cardinality(Refs(m_task', t)) + Own(running', t)
    <3>1. Worth(won, t) \in {0, 1} /\ Worth(lost, t) \in {0, 1}
      BY DEF Worth
    <3> QED
      BY <1>1, <2>1, <2>2, <3>1
  <2>4. m_ref_count'[t] \in Nat
    <3>1. Cardinality(Refs(m_task', t)) \in Nat
      OBVIOUS
    <3> QED
      BY <2>2, <2>3, <3>1
  <2>5. t \in live' <=> m_ref_count'[t] > 0
    <3>1. CASE won = t /\ lost = t
      BY <1>1, <1>3, <2>1, <3>1 DEF Worth
    <3>2. CASE won = t /\ lost # t
      BY <1>1, <1>3, <2>1, <3>2 DEF Worth
    <3>3. CASE won # t /\ lost = t
      BY <1>1, <1>3, <2>1, <2>4, <3>3 DEF Worth
    <3>4. CASE won # t /\ lost # t
      BY <1>1, <1>3, <2>1, <3>4 DEF Worth
    <3> QED
      BY <3>1, <3>2, <3>3, <3>4
  <2> QED
    BY <2>3, <2>4, <2>5
<1>5. Fut!TypeOK'
  BY <1>2, <1>3, <1>4 DEF Fut!TypeOK
<1>6. Fut!CountsReferences'
  BY <1>4, SameCardinality DEF Fut!CountsReferences, Fut!References, Refs, Own
<1> QED
  BY <1>5, <1>6

(* Each operation on futures keeps FutureInv. *)
LEMMA FutureStep ==
    ASSUME IsFiniteSet(Vars), Null \notin Tasks, FutureInv, [Fut!NextDistinct]_(Fut!vars)
    PROVE  FutureInv'
<1> DEFINE S == Tasks \cup {Null}
<1>0. /\ Fut!TypeOK /\ Fut!CountsReferences /\ m_task \in [Vars -> S]
      /\ alive \subseteq Vars /\ running \subseteq Tasks
      /\ \A f \in Vars \ alive : m_task[f] = Null
  BY DEF FutureInv, Fut!TypeOK
<1>1. \A t \in Tasks : /\ m_ref_count[t] \in Nat
                       /\ m_ref_count[t] = Cardinality(Refs(m_task, t)) + Own(running, t)
                       /\ t \in live <=> m_ref_count[t] > 0
  BY <1>0, SameCardinality DEF Fut!TypeOK, Fut!CountsReferences, Fut!References, Refs, Own
<1>2. Null \in S /\ \A t \in Tasks : Worth(Null, t) = 0 /\ Own(running, t) \in {0, 1}
  BY DEF Worth, Own
<1>3. \A n \in [Vars -> S] : \A t : Cardinality(Refs(n, t)) \in Nat
  <2> SUFFICES ASSUME NEW n \in [Vars -> S], NEW t PROVE Cardinality(Refs(n, t)) \in Nat
    OBVIOUS
  <2>1. Refs(n, t) \subseteq Vars
    BY DEF Refs
  <2> QED
    BY <2>1, FS_Subset, FS_CardinalityType
<1>a. \A t : Cardinality(Refs(m_task, t)) \in Nat
  BY <1>0, <1>3
<1>4. ASSUME NEW f \in Vars, m_task[f] \in Tasks PROVE m_task[f] \in live
  <2> DEFINE t == m_task[f]
  <2>1. Refs(m_task, t) # {} /\ IsFiniteSet(Refs(m_task, t)) /\ Cardinality(Refs(m_task, t)) \in Nat
    <3>1. f \in Refs(m_task, t) /\ Refs(m_task, t) \subseteq Vars
      BY DEF Refs
    <3> QED
      BY <3>1, FS_Subset, FS_CardinalityType
  <2>2. Cardinality(Refs(m_task, t)) # 0
    BY <2>1, FS_EmptySet
  <2> QED
    BY <1>1, <1>2, <1>4, <2>1, <2>2
<1>5. ASSUME NEW f \in Vars, NEW t \in Tasks, Fut!SpawnFuture(f, t) PROVE FutureInv'
  <2>1. /\ f \notin alive /\ t \notin live /\ m_task' = [m_task EXCEPT ![f] = t]
        /\ m_ref_count' = [m_ref_count EXCEPT ![t] = 2]
        /\ alive' = alive \cup {f} /\ live' = live \cup {t} /\ running' = running \cup {t}
    BY <1>5 DEF Fut!SpawnFuture, Fut!Begin
  <2>2. m_task[f] = Null
    BY <1>0, <2>1
  <2>3. Fut!TypeOK'
    BY <1>0, <2>1 DEF Fut!TypeOK
  <2>4. ASSUME NEW u \in Tasks
        PROVE  Cardinality(Refs(m_task', u)) = Cardinality(Refs(m_task, u)) + Worth(t, u)
    <3>0. /\ m_task' \in [Vars -> Tasks \cup {Null}] /\ m_task'[f] = t
          /\ \A g \in Vars : g # f => m_task'[g] = m_task[g]
      BY <1>0, <2>1
    <3>1. Cardinality(Refs(m_task', u)) = Cardinality(Refs(m_task, u)) + Worth(t, u) - Worth(m_task[f], u)
      BY <1>0, <3>0, OneChange
    <3>2. Cardinality(Refs(m_task, u)) \in Nat /\ Worth(m_task[f], u) = 0 /\ Worth(t, u) \in {0, 1}
      BY <1>2, <1>a, <2>2 DEF Worth
    <3> QED
      BY <2>1, <3>1, <3>2
  <2>5. Cardinality(Refs(m_task, t)) = 0 /\ m_ref_count[t] = 0
    <3>1. Cardinality(Refs(m_task, t)) \in Nat /\ Own(running, t) \in {0, 1}
      BY <1>2, <1>a
    <3> QED
      BY <1>1, <2>1, <3>1
  <2>6. ASSUME NEW u \in Tasks
        PROVE  /\ m_ref_count'[u] = Cardinality(Refs(m_task', u)) + Own(running', u)
               /\ u \in live' <=> m_ref_count'[u] > 0
    <3>1. CASE u = t
      <4>1. m_ref_count'[u] = 2 /\ Own(running', u) = 1 /\ Worth(t, u) = 1
        BY <1>0, <2>1, <3>1 DEF Own, Worth, Fut!TypeOK
      <4>2. Cardinality(Refs(m_task', u)) = 1
        BY <2>4, <2>5, <3>1, <4>1
      <4> QED
        BY <2>1, <3>1, <4>1, <4>2
    <3>2. CASE u # t
      <4>1. m_ref_count'[u] = m_ref_count[u] /\ Own(running', u) = Own(running, u) /\ Worth(t, u) = 0
        BY <1>0, <2>1, <3>2 DEF Own, Worth, Fut!TypeOK
      <4>2. Cardinality(Refs(m_task', u)) = Cardinality(Refs(m_task, u))
        BY <1>a, <2>4, <4>1
      <4>3. u \in live' <=> u \in live
        BY <2>1, <3>2
      <4> QED
        BY <1>1, <4>1, <4>2, <4>3
    <3> QED
      BY <3>1, <3>2
  <2>7. Fut!CountsReferences'
    BY <2>6, SameCardinality DEF Fut!CountsReferences, Fut!References, Refs, Own
  <2> QED
    BY <1>0, <2>1, <2>3, <2>7 DEF FutureInv
<1>6. ASSUME NEW t \in Tasks, Fut!TaskCompletes(t) PROVE FutureInv'
  <2>1. /\ t \in running /\ running' = running \ {t} /\ Fut!Count(t, Null)
        /\ m_task' = m_task /\ alive' = alive
    BY <1>6 DEF Fut!TaskCompletes
  <2>2. ASSUME NEW u \in Tasks PROVE Own(running', u) = Own(running, u) - Worth(t, u)
    BY <2>1 DEF Own, Worth
  <2>3. \A u \in Tasks :
           Cardinality(Refs(m_task', u)) + Own(running', u)
           = Cardinality(Refs(m_task, u)) + Own(running, u) + Worth(Null, u) - Worth(t, u)
    <3> TAKE u \in Tasks
    <3>1. /\ Cardinality(Refs(m_task, u)) \in Nat /\ Worth(Null, u) = 0
          /\ Own(running, u) \in {0, 1} /\ Worth(t, u) \in {0, 1}
      BY <1>2, <1>a DEF Worth
    <3>2. Refs(m_task', u) = Refs(m_task, u) /\ Own(running', u) = Own(running, u) - Worth(t, u)
      BY <2>1, <2>2
    <3> QED
      BY <3>1, <3>2
  <2>4. Fut!TypeOK' /\ Fut!CountsReferences'
    BY <1>0, <1>a, <2>1, <2>3, CountStep
  <2> QED
    BY <1>0, <2>1, <2>4 DEF FutureInv
<1>7. ASSUME NEW lost, NEW won \in S, Fut!Count(lost, won), won \in Tasks => won \in live,
             running' = running, alive' \subseteq Vars, m_task' \in [Vars -> S],
             \A h \in Vars \ alive' : m_task'[h] = Null,
             \A u \in Tasks : Cardinality(Refs(m_task', u))
                              = Cardinality(Refs(m_task, u)) + Worth(won, u) - Worth(lost, u)
      PROVE  FutureInv'
  <2>1. \A u \in Tasks :
           /\ Cardinality(Refs(m_task, u)) \in Nat /\ Cardinality(Refs(m_task', u)) \in Nat
           /\ Cardinality(Refs(m_task', u)) + Own(running', u)
              = Cardinality(Refs(m_task, u)) + Own(running, u) + Worth(won, u) - Worth(lost, u)
    <3> TAKE u \in Tasks
    <3>1. /\ Cardinality(Refs(m_task, u)) \in Nat /\ Cardinality(Refs(m_task', u)) \in Nat
          /\ Worth(won, u) \in {0, 1} /\ Worth(lost, u) \in {0, 1} /\ Own(running, u) \in {0, 1}
      BY <1>2, <1>3, <1>7, <1>a DEF Worth
    <3> QED
      BY <1>7, <3>1
  <2>2. Fut!TypeOK' /\ Fut!CountsReferences'
    BY <1>0, <1>7, <2>1, CountStep
  <2> QED
    BY <1>7, <2>2 DEF FutureInv
<1>8. ASSUME m_ref_count' = m_ref_count, live' = live PROVE Fut!Count(Null, Null)
  <2>1. m_ref_count \in [Tasks -> Nat]
    BY <1>0 DEF Fut!TypeOK
  <2>2. [t \in Tasks |-> m_ref_count[t] + (IF t = Null THEN 1 ELSE 0) - (IF t = Null THEN 1 ELSE 0)]
        = m_ref_count
    BY <2>1
  <2> QED
    BY <1>8, <2>2 DEF Fut!Count
<1>9. ASSUME NEW f \in Vars, NEW v \in S, m_task' = [m_task EXCEPT ![f] = v], v \in Tasks => v \in live,
             NEW lost, NEW won \in S, Fut!Count(lost, won), running' = running, alive' \subseteq Vars,
             won \in Tasks => won \in live,
             \A h \in Vars \ alive' : m_task'[h] = Null,
             \A u \in Tasks : Worth(won, u) - Worth(lost, u) = Worth(v, u) - Worth(m_task[f], u)
      PROVE  FutureInv'
  <2>1. /\ m_task' \in [Vars -> S] /\ m_task'[f] = v
        /\ \A h \in Vars : h # f => m_task'[h] = m_task[h]
    BY <1>0, <1>9
  <2>2. ASSUME NEW u \in Tasks
        PROVE  Cardinality(Refs(m_task', u))
               = Cardinality(Refs(m_task, u)) + Worth(won, u) - Worth(lost, u)
    <3>1. Cardinality(Refs(m_task', u)) = Cardinality(Refs(m_task, u)) + Worth(v, u) - Worth(m_task[f], u)
      BY <1>0, <2>1, OneChange
    <3>2. /\ Cardinality(Refs(m_task, u)) \in Nat
          /\ Worth(won, u) \in {0, 1} /\ Worth(lost, u) \in {0, 1}
          /\ Worth(v, u) \in {0, 1} /\ Worth(m_task[f], u) \in {0, 1}
      BY <1>a DEF Worth
    <3> QED
      BY <1>9, <3>1, <3>2
  <2> QED
    BY <1>7, <1>9, <2>1, <2>2
<1>10. ASSUME NEW f \in Vars, NEW g \in Vars, f # g,
              m_task' = [m_task EXCEPT ![f] = m_task[g], ![g] = Null],
              Fut!Count(m_task[f], Null), running' = running, alive' \subseteq Vars,
              \A h \in Vars \ alive' : m_task'[h] = Null
       PROVE  FutureInv'
  <2> DEFINE n == [m_task EXCEPT ![f] = m_task[g]]
  <2>1. /\ n \in [Vars -> S] /\ n[f] = m_task[g] /\ n[g] = m_task[g]
        /\ \A h \in Vars : h # f => n[h] = m_task[h]
    BY <1>0, <1>10
  <2>2. /\ m_task' \in [Vars -> S] /\ m_task'[g] = Null
        /\ \A h \in Vars : h # g => m_task'[h] = n[h]
    BY <1>0, <1>2, <1>10
  <2> HIDE DEF n
  <2>3. ASSUME NEW u \in Tasks
        PROVE  Cardinality(Refs(m_task', u))
               = Cardinality(Refs(m_task, u)) + Worth(Null, u) - Worth(m_task[f], u)
    <3>1. Cardinality(Refs(n, u)) = Cardinality(Refs(m_task, u)) + Worth(m_task[g], u) - Worth(m_task[f], u)
      BY <1>0, <2>1, OneChange
    <3>2. Cardinality(Refs(m_task', u)) = Cardinality(Refs(n, u)) + Worth(Null, u) - Worth(m_task[g], u)
      BY <1>0, <2>1, <2>2, OneChange
    <3>3. /\ Cardinality(Refs(m_task, u)) \in Nat /\ Worth(Null, u) = 0
          /\ Worth(m_task[g], u) \in {0, 1} /\ Worth(m_task[f], u) \in {0, 1}
      BY <1>2, <1>a DEF Worth
    <3> QED
      BY <3>1, <3>2, <3>3
  <2>4. Null \in S /\ (Null \in Tasks => Null \in live)
    BY <1>2
  <2> QED
    BY <1>7, <1>10, <2>2, <2>3, <2>4
<1>b. \A f \in Vars : m_task[f] \in S /\ (m_task[f] \in Tasks => m_task[f] \in live)
  BY <1>0, <1>4
<1>11. ASSUME NEW f \in Vars, Fut!DefaultConstruct(f) PROVE FutureInv'
  <2>1. /\ f \notin alive /\ alive' = alive \cup {f} /\ m_task' = [m_task EXCEPT ![f] = Null]
        /\ running' = running /\ m_task[f] = Null /\ Fut!Count(Null, Null)
    BY <1>0, <1>8, <1>11 DEF Fut!DefaultConstruct, Fut!Begin
  <2>2. alive' \subseteq Vars /\ \A h \in Vars \ alive' : m_task'[h] = Null
    BY <1>0, <2>1
  <2> QED
    BY <1>2, <1>9, <2>1, <2>2
<1>12. ASSUME NEW f \in Vars, Fut!Destroy(f) PROVE FutureInv'
  <2>1. /\ alive' = alive \ {f} /\ m_task' = [m_task EXCEPT ![f] = Null]
        /\ running' = running /\ Fut!Count(m_task[f], Null)
    BY <1>12 DEF Fut!Destroy
  <2>2. alive' \subseteq Vars /\ \A h \in Vars \ alive' : m_task'[h] = Null
    BY <1>0, <2>1
  <2> QED
    BY <1>2, <1>9, <2>1, <2>2
<1>13. ASSUME NEW f \in Vars, NEW g \in Vars, Fut!CopyConstruct(f, g) PROVE FutureInv'
  <2>1. /\ f \notin alive /\ alive' = alive \cup {f} /\ m_task' = [m_task EXCEPT ![f] = m_task[g]]
        /\ running' = running /\ m_task[f] = Null /\ Fut!Count(Null, m_task[g])
    BY <1>0, <1>13 DEF Fut!CopyConstruct, Fut!Begin
  <2>2. alive' \subseteq Vars /\ \A h \in Vars \ alive' : m_task'[h] = Null
    BY <1>0, <2>1
  <2>3. m_task[g] \in S /\ (m_task[g] \in Tasks => m_task[g] \in live)
    BY <1>b
  <2> QED
    BY <1>9, <2>1, <2>2, <2>3
<1>14. ASSUME NEW f \in Vars, NEW g \in Vars, Fut!MoveConstruct(f, g) PROVE FutureInv'
  <2>1. /\ f \notin alive /\ f # g /\ alive' = alive \cup {f}
        /\ m_task' = [m_task EXCEPT ![f] = m_task[g], ![g] = Null]
        /\ running' = running /\ m_task[f] = Null /\ Fut!Count(Null, Null)
    BY <1>0, <1>8, <1>14 DEF Fut!MoveConstruct
  <2>2. alive' \subseteq Vars /\ \A h \in Vars \ alive' : m_task'[h] = Null
    BY <1>0, <2>1
  <2>3. Fut!Count(m_task[f], Null)
    BY <2>1
  <2> QED
    BY <1>10, <2>1, <2>2, <2>3
<1>15. ASSUME NEW f \in Vars, NEW g \in Vars, Fut!MoveAssign(f, g) PROVE FutureInv'
  <2>1. /\ f \in alive /\ g \in alive /\ alive' = alive /\ running' = running
        /\ Fut!Count(m_task[f], Null) /\ m_task' = [m_task EXCEPT ![f] = m_task[g], ![g] = Null]
    BY <1>15 DEF Fut!MoveAssign
  <2>2. alive' \subseteq Vars /\ \A h \in Vars \ alive' : m_task'[h] = Null
    BY <1>0, <2>1
  <2>3. CASE f # g
    BY <1>10, <2>1, <2>2, <2>3
  <2>4. CASE f = g
    <3>1. m_task' = [m_task EXCEPT ![f] = Null]
      BY <1>0, <2>1, <2>4
    <3> QED
      BY <1>2, <1>9, <2>1, <2>2, <3>1
  <2> QED
    BY <2>3, <2>4
<1>16. ASSUME NEW f \in Vars, NEW g \in Vars, f \in alive, alive' = alive, running' = running,
              m_task' = [m_task EXCEPT ![f] = m_task[g]],
              \/ Fut!Count(m_task[f], m_task[g])
              \/ m_task[f] = m_task[g] /\ Fut!Count(Null, Null)
       PROVE  FutureInv'
  <2>1. alive' \subseteq Vars /\ \A h \in Vars \ alive' : m_task'[h] = Null
    BY <1>0, <1>16
  <2>2. m_task[g] \in S /\ (m_task[g] \in Tasks => m_task[g] \in live)
    BY <1>b
  <2>3. CASE Fut!Count(m_task[f], m_task[g])
    BY <1>9, <1>16, <2>1, <2>2, <2>3
  <2>4. CASE m_task[f] = m_task[g] /\ Fut!Count(Null, Null)
    <3>1. m_task' = m_task
      BY <1>0, <1>16, <2>4
    <3>2. \A u \in Tasks : Cardinality(Refs(m_task', u))
                           = Cardinality(Refs(m_task, u)) + Worth(Null, u) - Worth(Null, u)
      BY <1>2, <1>a, <3>1
    <3>3. m_task' \in [Vars -> S]
      BY <1>0, <3>1
    <3>4. Null \in S /\ (Null \in Tasks => Null \in live) /\ running' = running /\ Fut!Count(Null, Null)
      BY <1>2, <1>16, <2>4
    <3> QED
      BY <1>7, <2>1, <3>2, <3>3, <3>4
  <2> QED
    BY <1>16, <2>3, <2>4
<1>17. ASSUME NEW f \in Vars, NEW g \in Vars,
              Fut!CopyAssignConverted(f, g) \/ (m_task[f] # m_task[g] /\ Fut!CopyAssign(f, g))
       PROVE  FutureInv'
  BY <1>16, <1>17 DEF Fut!CopyAssignConverted, Fut!CopyAssign
<1>18. CASE UNCHANGED Fut!vars
  BY <1>18 DEF Fut!vars, FutureInv, Fut!TypeOK, Fut!CountsReferences, Fut!References
<1> QED
  BY <1>5, <1>6, <1>11, <1>12, <1>13, <1>14, <1>15, <1>17, <1>18 DEF Fut!NextDistinct,
     Fut!Shared

(* As long as no future is copy-assigned to one of the same task, the      *)
(* count of a task is the number of its futures, and one more until it     *)
(* completes: a task is deallocated exactly when its last reference goes.  *)
THEOREM FuturesCountReferences ==
    ASSUME IsFiniteSet(Vars), Null \notin Tasks
    PROVE  Fut!SpecDistinct => []Fut!CountsReferences
<1>1. Fut!Init => FutureInv
  <2> SUFFICES ASSUME Fut!Init PROVE FutureInv
    OBVIOUS
  <2>1. \A t \in Tasks : Fut!References(t) = {}
    BY DEF Fut!Init, Fut!References
  <2> QED
    BY <2>1, FS_EmptySet, SameCardinality DEF Fut!Init, FutureInv, Fut!TypeOK,
       Fut!CountsReferences
<1>2. FutureInv /\ [Fut!NextDistinct]_(Fut!vars) => FutureInv'
  BY FutureStep
<1>3. FutureInv => Fut!CountsReferences
  BY DEF FutureInv
<1> QED
  BY <1>1, <1>2, <1>3, PTL DEF Fut!SpecDistinct
=============================================================================
