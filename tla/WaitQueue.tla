----------------------------- MODULE WaitQueue -----------------------------
(***************************************************************************)
(* What the wait queue of a task promises: it takes nodes until it is      *)
(* consumed, refuses them from then on, and the one consume() visits every *)
(* node it took, exactly once, before it returns.                          *)
(***************************************************************************)
CONSTANTS Threads, Nodes, InQueue

VARIABLES waiting,   \* nodes taken and not yet visited
          phase,     \* of consume(): "open", "called", "visiting", "returned"
          holder,    \* the thread with exclusive access to a node, or InQueue
          outcome    \* how the last try_push of a thread ended

vars == <<waiting, phase, holder, outcome>>

consumed == phase \in {"visiting", "returned"}

Init ==
    /\ waiting = {}
    /\ phase = "open"
    /\ holder \in [Nodes -> Threads]
    /\ outcome = [t \in Threads |-> "none"]

Accept(t, n) ==
    /\ ~consumed
    /\ holder[n] = t
    /\ waiting' = waiting \cup {n}
    /\ holder' = [holder EXCEPT ![n] = InQueue]
    /\ outcome' = [outcome EXCEPT ![t] = "accepted"]
    /\ UNCHANGED phase

Refuse(t) ==
    /\ consumed
    /\ outcome' = [outcome EXCEPT ![t] = "refused"]
    /\ UNCHANGED <<waiting, phase, holder>>

ConsumeCall == phase = "open" /\ phase' = "called" /\ UNCHANGED <<waiting, holder, outcome>>

Consume == phase = "called" /\ phase' = "visiting" /\ UNCHANGED <<waiting, holder, outcome>>

Visit(n, t) ==
    /\ phase = "visiting"
    /\ n \in waiting
    /\ waiting' = waiting \ {n}
    /\ holder' = [holder EXCEPT ![n] = t]
    /\ UNCHANGED <<phase, outcome>>

ConsumeReturn ==
    /\ phase = "visiting"
    /\ waiting = {}
    /\ phase' = "returned"
    /\ UNCHANGED <<waiting, holder, outcome>>

Next ==
    \/ \E t \in Threads : (\E n \in Nodes : Accept(t, n)) \/ Refuse(t)
    \/ \E t \in Threads, n \in Nodes : Visit(n, t)
    \/ ConsumeCall \/ Consume \/ ConsumeReturn

(* A consume() that is called takes its steps. *)
Spec == Init /\ [][Next]_vars /\ WF_vars(Consume \/ ConsumeReturn \/ \E t \in Threads, n \in Nodes : Visit(n, t))
=============================================================================
