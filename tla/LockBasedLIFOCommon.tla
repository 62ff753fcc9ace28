------------------------ MODULE LockBasedLIFOCommon ------------------------
(***************************************************************************)
(* The intrusive singly linked list that the ready queues and the wait     *)
(* queues of the task schedulers share (struct LockBasedLIFOCommon): a     *)
(* head word, one next word per node and the push loop.  Every access to a *)
(* shared word is one step; the memory fences of the code make the         *)
(* accesses of one thread take effect in program order, so an interleaving *)
(* of these steps is what the code can do.                                 *)
(***************************************************************************)
EXTENDS Naturals

CONSTANTS Threads,   \* the threads that call the operations
          Nodes,     \* the intrusive nodes (tasks)
          EndTag,    \* m_head of an empty list, m_next of the last node
          LockTag,   \* m_head of a locked (or consumed) list
          NullPtr    \* m_next of a node that is in no list

ASSUME TagsAssumption ==
    /\ EndTag \notin Nodes /\ LockTag \notin Nodes /\ NullPtr \notin Nodes
    /\ EndTag # LockTag /\ EndTag # NullPtr /\ LockTag # NullPtr

VARIABLES m_head,    \* the head word
          m_next,    \* the next word of every node
          pc,        \* where each thread is
          node,      \* the node a thread pushes or has just popped
          old_head   \* the thread's last observation of m_head

commonVars == <<m_head, m_next, pc, node, old_head>>

Heads    == Nodes \cup {EndTag, LockTag}
NextPtrs == Nodes \cup {EndTag, NullPtr}

is_enqueued(n) == m_next[n] # NullPtr

CommonInit ==
    /\ m_head = EndTag
    /\ m_next = [n \in Nodes |-> NullPtr]
    /\ pc = [t \in Threads |-> "idle"]
    /\ node = [t \in Threads |-> NullPtr]
    /\ old_head = [t \in Threads |-> NullPtr]

(* The call returns: its local variables are gone. *)
Return(t) ==
    /\ pc' = [pc EXCEPT ![t] = "idle"]
    /\ node' = [node EXCEPT ![t] = NullPtr]
    /\ old_head' = [old_head EXCEPT ![t] = NullPtr]

(* Mutant of the loop condition: an empty list is taken for a locked one. *)
AfterObservingEmpty(h) == IF h \in {LockTag, EndTag} THEN "push_fail" ELSE "push_link"

(* The loop condition of _try_push_node: a locked head ends the loop. *)
AfterObserving(h) == IF h = LockTag THEN "push_fail" ELSE "push_link"

(* A caller that has exclusive access to n enters _try_push_node. *)
TryPushCall(t, n) ==
    /\ pc[t] = "idle"
    /\ node' = [node EXCEPT ![t] = n]
    /\ pc' = [pc EXCEPT ![t] = "push_read"]
    /\ UNCHANGED <<m_head, m_next, old_head>>

(* auto* old_head = m_head *)
TryPushRead(t) ==
    /\ pc[t] = "push_read"
    /\ old_head' = [old_head EXCEPT ![t] = m_head]
    /\ pc' = [pc EXCEPT ![t] = AfterObserving(m_head)]
    /\ UNCHANGED <<m_head, m_next, node>>

(* next = old_head, before the node is published *)
TryPushLink(t) ==
    /\ pc[t] = "push_link"
    /\ m_next' = [m_next EXCEPT ![node[t]] = old_head[t]]
    /\ pc' = [pc EXCEPT ![t] = "push_cas"]
    /\ UNCHANGED <<m_head, node, old_head>>

(* Mutant of the compare-and-exchange: a plain store of the new head. *)
TryPushBlindStore(t) ==
    /\ pc[t] = "push_cas"
    /\ m_head' = node[t]
    /\ Return(t)
    /\ UNCHANGED m_next

(* old_head = atomic_compare_exchange(&m_head, old_head, &node) finds the  *)
(* value it expects: the node is published and the call returns true.      *)
TryPushSucceed(t) ==
    /\ pc[t] = "push_cas"
    /\ m_head = old_head[t]
    /\ m_head' = node[t]
    /\ Return(t)
    /\ UNCHANGED m_next

(* ... or finds another one, and the loop goes on from there. *)
TryPushRetry(t) ==
    /\ pc[t] = "push_cas"
    /\ m_head # old_head[t]
    /\ old_head' = [old_head EXCEPT ![t] = m_head]
    /\ pc' = [pc EXCEPT ![t] = AfterObserving(m_head)]
    /\ UNCHANGED <<m_head, m_next, node>>

(* The list was found locked: mark_as_not_enqueued(node), return false. *)
TryPushFail(t, return) ==
    /\ pc[t] = "push_fail"
    /\ m_next' = [m_next EXCEPT ![node[t]] = NullPtr]
    /\ pc' = [pc EXCEPT ![t] = return]
    /\ UNCHANGED <<m_head, node, old_head>>
=============================================================================
