----------------------------- MODULE LIFOStack -----------------------------
(***************************************************************************)
(* What a ready queue promises: an atomic stack.  A node is either held by *)
(* one thread or in the stack; push and pop move it between the two.  An   *)
(* unconditional pop comes back empty only when the stack is empty, a      *)
(* steal may also give up.                                                 *)
(***************************************************************************)
EXTENDS Sequences

CONSTANTS Threads, Nodes, InQueue

VARIABLES stack,    \* the nodes in the queue, the most recent first
          holder,   \* the thread with exclusive access to a node, or InQueue
          outcome   \* how the last operation of a thread ended

vars == <<stack, holder, outcome>>

Init ==
    /\ stack = << >>
    /\ holder \in [Nodes -> Threads]
    /\ outcome = [t \in Threads |-> "none"]

Push(t, n) ==
    /\ holder[n] = t
    /\ stack' = <<n>> \o stack
    /\ holder' = [holder EXCEPT ![n] = InQueue]
    /\ outcome' = [outcome EXCEPT ![t] = "pushed"]

Pop(t) ==
    /\ stack # << >>
    /\ stack' = Tail(stack)
    /\ holder' = [holder EXCEPT ![Head(stack)] = t]
    /\ outcome' = [outcome EXCEPT ![t] = "popped"]

PopEmpty(t) ==
    /\ stack = << >>
    /\ outcome' = [outcome EXCEPT ![t] = "empty"]
    /\ UNCHANGED <<stack, holder>>

StealGivesUp(t) ==
    /\ outcome' = [outcome EXCEPT ![t] = "locked"]
    /\ UNCHANGED <<stack, holder>>

Next == \E t \in Threads :
    \/ \E n \in Nodes : Push(t, n)
    \/ Pop(t)
    \/ PopEmpty(t)
    \/ StealGivesUp(t)

Spec == Init /\ [][Next]_vars
=============================================================================
