------------------------ MODULE MCSingleConsumeLIFO ------------------------
(* Small instances of SingleConsumeLIFO, and what they implement.          *)
EXTENDS SingleConsumeLIFO, Sequences

CONSTANTS t1, t2, n1, n2, n3

Threads2 == {t1, t2}
Nodes3   == {n1, n2, n3}

(* The nodes reached from p along m_next, cut after as many as there are.  *)
RECURSIVE Reached(_, _)
Reached(p, fuel) ==
    IF p \notin Nodes \/ fuel = 0 THEN {} ELSE {p} \cup Reached(m_next[p], fuel - 1)

(* Waiting are the nodes in the list, those consume() has still to reach   *)
(* and the one it is about to visit.                                       *)
Waiting ==
    Reached(IF phase \in {"visiting", "returned"} THEN cursor ELSE m_head, Cardinality(Nodes) + 1)
      \cup ({call_arg} \ {NullPtr})

Abstract == INSTANCE WaitQueue WITH waiting <- Waiting

(* The list with its tagged head implements WaitQueue: a try_push takes    *)
(* effect at its exchange or where it observes ConsumedTag, a node that    *)
(* was accepted is visited once and before consume() returns, and          *)
(* consume() returns however many producers keep pushing.                  *)
ImplementsWaitQueue == Abstract!Spec
=============================================================================
