-------------------------- MODULE MCLockBasedLIFO --------------------------
(* Small instances of LockBasedLIFO, and the queue seen as a stack.        *)
EXTENDS LockBasedLIFO, FiniteSets

CONSTANTS t1, t2, n1, n2, n3

Threads2 == {t1, t2}
Nodes3   == {n1, n2, n3}

(* The nodes reached from p along m_next, cut after as many as there are.  *)
RECURSIVE Walk(_, _)
Walk(p, fuel) ==
    IF p \notin Nodes \/ fuel = 0 THEN << >> ELSE <<p>> \o Walk(m_next[p], fuel - 1)

(* The first node of the list: the head, or what a locked pop will store.  *)
FirstPtr ==
    IF m_head = LockTag
    THEN m_next[node[CHOOSE t \in Threads : pc[t] = "pop_unlock"]]
    ELSE m_head

Abstract == INSTANCE LIFOStack WITH stack <- Walk(FirstPtr, Cardinality(Nodes) + 1)

(* The linked list implements the atomic stack of LIFOStack: each push and *)
(* pop takes effect at its exchange, and a pop that returns nothing saw    *)
(* the queue empty (or locked, when stealing).                             *)
ImplementsStack == Abstract!Spec
=============================================================================
