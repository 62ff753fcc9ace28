------------------------- MODULE WorkStealingDeque -------------------------
(***************************************************************************)
(* What a work-stealing deque promises: an atomic bounded deque.  The      *)
(* owner pushes and pops at the right end, thieves take from the left end, *)
(* and whoever takes an item is the only one to get it.                    *)
(***************************************************************************)
EXTENDS Naturals, Sequences

CONSTANTS Size, MaxPush

VARIABLES deque,    \* the items in the deque, oldest first
          pushed,   \* number of items pushed so far: item k is the k-th
          taken,    \* how often each item was handed out
          result    \* how the owner's last call ended

vars == <<deque, pushed, taken, result>>

Hand(i) == taken' = [taken EXCEPT ![i] = @ + 1]

Init ==
    /\ deque = << >> /\ pushed = 0
    /\ taken = [i \in 1..MaxPush |-> 0]
    /\ result = "none"

Push ==
    /\ pushed < MaxPush
    /\ Len(deque) < Size
    /\ pushed' = pushed + 1
    /\ deque' = Append(deque, pushed + 1)
    /\ result' = "pushed"
    /\ UNCHANGED taken

(* A push is refused only when the deque is full ... *)
PushFull ==
    /\ Len(deque) = Size
    /\ result' = "full"
    /\ UNCHANGED <<deque, pushed, taken>>

Pop ==
    /\ deque # << >>
    /\ Hand(deque[Len(deque)])
    /\ deque' = SubSeq(deque, 1, Len(deque) - 1)
    /\ result' = "popped"
    /\ UNCHANGED pushed

(* ... and the owner's pop finds nothing only when it is empty. *)
PopEmpty ==
    /\ deque = << >>
    /\ result' = "empty"
    /\ UNCHANGED <<deque, pushed, taken>>

Steal ==
    /\ deque # << >>
    /\ Hand(Head(deque))
    /\ deque' = Tail(deque)
    /\ UNCHANGED <<pushed, result>>

Next == Push \/ PushFull \/ Pop \/ PopEmpty \/ Steal

Spec == Init /\ [][Next]_vars
=============================================================================
