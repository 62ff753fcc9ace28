--------------------------- MODULE LockBasedLIFO ---------------------------
(***************************************************************************)
(* The ready queue of TaskQueueTraitsLockBased (class LockBasedLIFO): any  *)
(* number of threads push, pop and steal.  A pop locks the list by         *)
(* swapping LockTag into the head and unlocks it by storing the successor  *)
(* of the node it took.                                                    *)
(*                                                                         *)
(* holder, stack and outcome record what the operations mean to their      *)
(* callers: who has exclusive access to a node, the contents of the queue  *)
(* as a sequence, and how a thread's last operation ended.  No step reads  *)
(* stack or outcome, and holder only restrains the callers to pushing what *)
(* they own, as the schedulers do.                                         *)
(***************************************************************************)
EXTENDS LockBasedLIFOCommon, Sequences

CONSTANT InQueue     \* the holder of a node that is in the queue

ASSUME InQueueAssumption == InQueue \notin Threads

VARIABLES abort_on_locked,   \* the argument of pop: TRUE for a steal
          holder, stack, outcome

vars == <<m_head, m_next, pc, node, old_head, abort_on_locked,
          holder, stack, outcome>>

Init ==
    /\ CommonInit
    /\ abort_on_locked = [t \in Threads |-> FALSE]
    /\ holder \in [Nodes -> Threads]
    /\ stack = << >>
    /\ outcome = [t \in Threads |-> "none"]

Ends(t, how) == outcome' = [outcome EXCEPT ![t] = how]

-----------------------------------------------------------------------------
(* push(node): retry _try_push_node until it succeeds. *)

PushCall(t, n) ==
    /\ holder[n] = t
    /\ TryPushCall(t, n)
    /\ UNCHANGED <<abort_on_locked, holder, stack, outcome>>

PushRead(t) ==
    /\ TryPushRead(t)
    /\ UNCHANGED <<abort_on_locked, holder, stack, outcome>>

PushLink(t) ==
    /\ TryPushLink(t)
    /\ UNCHANGED <<abort_on_locked, holder, stack, outcome>>

PushSucceed(t) ==
    /\ TryPushSucceed(t)
    /\ stack' = <<node[t]>> \o stack
    /\ holder' = [holder EXCEPT ![node[t]] = InQueue]
    /\ Ends(t, "pushed")
    /\ UNCHANGED abort_on_locked

PushRetry(t) ==
    /\ TryPushRetry(t)
    /\ UNCHANGED <<abort_on_locked, holder, stack, outcome>>

PushFail(t) ==
    /\ TryPushFail(t, "push_read")
    /\ UNCHANGED <<abort_on_locked, holder, stack, outcome>>

-----------------------------------------------------------------------------
(* pop(abort_on_locked); steal() is pop(true). *)

(* The head of the loop, reached with rv = m_head just read: an empty list *)
(* ends the call, so does a locked one when stealing; otherwise the value  *)
(* to compare with is rv, or a null that never matches when rv is locked.  *)
PopLoopHead(t, steal) ==
    \/ /\ m_head = EndTag
       /\ Return(t)
       /\ Ends(t, "empty")
    \/ /\ m_head = LockTag /\ steal
       /\ Return(t)
       /\ Ends(t, "locked")
    \/ /\ m_head # EndTag /\ ~(m_head = LockTag /\ steal)
       /\ pc' = [pc EXCEPT ![t] = "pop_cas"]
       /\ old_head' = [old_head EXCEPT ![t] = IF m_head = LockTag THEN NullPtr
                                                                  ELSE m_head]
       /\ UNCHANGED <<node, outcome>>

PopCall(t, steal) ==
    /\ pc[t] = "idle"
    /\ abort_on_locked' = [abort_on_locked EXCEPT ![t] = steal]
    /\ PopLoopHead(t, steal)
    /\ UNCHANGED <<m_head, m_next, holder, stack>>

(* The compare-and-exchange of LockTag succeeds: the list is locked and rv *)
(* belongs to this thread.                                                 *)
PopLock(t) ==
    /\ pc[t] = "pop_cas"
    /\ m_head = old_head[t]
    /\ m_head' = LockTag
    /\ node' = [node EXCEPT ![t] = old_head[t]]
    /\ pc' = [pc EXCEPT ![t] = "pop_unlock"]
    /\ stack' = Tail(stack)
    /\ holder' = [holder EXCEPT ![old_head[t]] = t]
    /\ Ends(t, "popped")
    /\ UNCHANGED <<m_next, old_head, abort_on_locked>>

(* ... or fails, and the value found starts the loop again. *)
PopRetry(t) ==
    /\ pc[t] = "pop_cas"
    /\ m_head # old_head[t]
    /\ PopLoopHead(t, abort_on_locked[t])
    /\ UNCHANGED <<m_head, m_next, abort_on_locked, holder, stack>>

(* Mutant: the end of the list is never unlocked. *)
PopUnlockNonEmpty(t) ==
    /\ pc[t] = "pop_unlock"
    /\ m_head' = IF m_next[node[t]] = EndTag THEN LockTag ELSE m_next[node[t]]
    /\ pc' = [pc EXCEPT ![t] = "pop_mark"]
    /\ UNCHANGED <<m_next, node, old_head, abort_on_locked, holder, stack, outcome>>

(* m_head = next releases the lock. *)
PopUnlock(t) ==
    /\ pc[t] = "pop_unlock"
    /\ m_head' = m_next[node[t]]
    /\ pc' = [pc EXCEPT ![t] = "pop_mark"]
    /\ UNCHANGED <<m_next, node, old_head, abort_on_locked, holder, stack, outcome>>

(* Mutant: the popped node keeps its link. *)
PopUnmarked(t) ==
    /\ pc[t] = "pop_mark"
    /\ Return(t)
    /\ UNCHANGED <<m_head, m_next, abort_on_locked, holder, stack, outcome>>

(* mark_as_not_enqueued on the popped node, after the lock is released. *)
PopMark(t) ==
    /\ pc[t] = "pop_mark"
    /\ m_next' = [m_next EXCEPT ![node[t]] = NullPtr]
    /\ Return(t)
    /\ UNCHANGED <<m_head, abort_on_locked, holder, stack, outcome>>

-----------------------------------------------------------------------------
(* The steps a thread takes once it is inside an operation. *)
Step(t) ==
    \/ PushRead(t)
    \/ PushLink(t)
    \/ PushSucceed(t)
    \/ PushRetry(t)
    \/ PushFail(t)
    \/ PopLock(t)
    \/ PopRetry(t)
    \/ PopUnlock(t)
    \/ PopMark(t)

Next == \E t \in Threads :
    \/ \E n \in Nodes : PushCall(t, n)
    \/ \E steal \in BOOLEAN : PopCall(t, steal)
    \/ Step(t)

Spec == Init /\ [][Next]_vars

(* A thread inside an operation is not suspended for ever.  Whether it     *)
(* calls a further operation is up to it.                                  *)
FairSpec == Spec /\ \A t \in Threads : WF_vars(Step(t))
-----------------------------------------------------------------------------
pushPCs == {"push_read", "push_link", "push_cas", "push_fail"}
popPCs  == {"pop_cas", "pop_unlock", "pop_mark"}

TypeOK ==
    /\ m_head \in Heads
    /\ m_next \in [Nodes -> NextPtrs]
    /\ pc \in [Threads -> {"idle"} \cup pushPCs \cup popPCs]
    /\ node \in [Threads -> Nodes \cup {NullPtr}]
    /\ old_head \in [Threads -> Nodes \cup {EndTag, LockTag, NullPtr}]
    /\ abort_on_locked \in [Threads -> BOOLEAN]
    /\ holder \in [Nodes -> Threads \cup {InQueue}]
    /\ stack \in Seq(Nodes)
    /\ outcome \in [Threads -> {"none", "pushed", "popped", "empty", "locked"}]

(* What m_head is when the list is unlocked. *)
Front(s) == IF Len(s) = 0 THEN EndTag ELSE s[1]

(* The lock is held by exactly the thread between its successful exchange  *)
(* of LockTag and its store of the successor, and by one thread at most:   *)
(* "This thread has exclusive access to the queue".                        *)
LockIsExclusive ==
    /\ m_head = LockTag <=> \E t \in Threads : pc[t] = "pop_unlock"
    /\ \A t, u \in Threads :
          pc[t] = "pop_unlock" /\ pc[u] = "pop_unlock" => t = u

(* The words of the list always spell out the sequence of the nodes pushed *)
(* and not yet popped: nothing pushed is lost or appears twice when pushes *)
(* and pops of any threads overlap, whatever head a thread remembers.      *)
HeapIsStack ==
    /\ \A i \in 1..Len(stack) :
          m_next[stack[i]] = IF i = Len(stack) THEN EndTag ELSE stack[i + 1]
    /\ \A i, j \in 1..Len(stack) : stack[i] = stack[j] => i = j
    /\ m_head # LockTag => m_head = Front(stack)
    /\ \A t \in Threads : pc[t] = "pop_unlock" => m_next[node[t]] = Front(stack)

(* A thread inside push, or past the exchange of a pop, works on a node of *)
(* its own, and a node is in the queue exactly when no thread holds it.    *)
NodesAreOwned ==
    /\ \A t \in Threads :
          pc[t] \in pushPCs \cup {"pop_unlock", "pop_mark"} =>
             node[t] \in Nodes /\ holder[node[t]] = t
    /\ \A n \in Nodes :
          holder[n] = InQueue <=> \E i \in 1..Len(stack) : stack[i] = n

(* What a thread remembers of the head is no more than a guess that its    *)
(* exchange checks, and a node no operation is working on has no link.     *)
Locals ==
    /\ \A t \in Threads :
          /\ pc[t] = "push_link" => old_head[t] # LockTag /\ old_head[t] # NullPtr
          /\ pc[t] = "push_cas" => old_head[t] # LockTag /\ m_next[node[t]] = old_head[t]
          /\ pc[t] = "pop_cas" => old_head[t] \in Nodes \cup {NullPtr}
    /\ \A n \in Nodes :
          \/ holder[n] = InQueue
          \/ m_next[n] = NullPtr
          \/ \E t \in Threads :
                /\ pc[t] \in {"push_link", "push_cas", "push_fail", "pop_unlock", "pop_mark"}
                /\ node[t] = n

(* KOKKOS_EXPECTS(!node.is_enqueued()) on entry to _try_push_node: a node  *)
(* that comes back from pop, or from a failed attempt, carries no link.    *)
PushedNodeIsNotEnqueued ==
    \A t \in Threads : pc[t] = "push_read" => ~is_enqueued(node[t])

(* A locked list is unlocked again: the thread that locked it needs no     *)
(* other thread's step to store the successor.                             *)
LockIsReleased == (m_head = LockTag) ~> (m_head # LockTag)

(* The inductive invariant behind the theorems of TaskPartsProofs. *)
IInv ==
    /\ TypeOK
    /\ LockIsExclusive
    /\ HeapIsStack
    /\ NodesAreOwned
    /\ Locals
=============================================================================
