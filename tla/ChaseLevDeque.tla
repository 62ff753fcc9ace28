--------------------------- MODULE ChaseLevDeque ---------------------------
(***************************************************************************)
(* The ready queue of TaskQueueTraitsChaseLev (struct ChaseLevDeque over a *)
(* fixed_size_circular_buffer): one owner pushes and pops at the bottom,   *)
(* any number of thieves steal at the top.  An item is the serial number   *)
(* of its push.  The fences of pop() and steal() order their accesses, so  *)
(* each access to m_top, m_bottom or the buffer is one step of an          *)
(* interleaving; m_bottom is written by the owner alone, so the owner's    *)
(* own reads of it need no step.                                           *)
(***************************************************************************)
EXTENDS Integers

CONSTANTS Thieves,   \* the threads that steal
          Size,      \* CircularBufferSize
          MaxPush    \* bound: number of pushes that are tried

ASSUME SizeAssumption == Size \in Nat \ {0} /\ MaxPush \in Nat

Items == 1..MaxPush
Null  == 0           \* an empty slot of the buffer

VARIABLES m_top, m_bottom, m_array,
          opc, ob, ot, oval,     \* the owner's position, b, t, return_value
          tpc, tt, tval,         \* each thief's position, t, return_value
          pushed,                \* number of items pushed
          taken,                 \* how often each item was returned
          result                 \* how the owner's last call ended

ownerVars == <<opc, ob, ot, oval>>
thiefVars == <<tpc, tt, tval>>
vars == <<m_top, m_bottom, m_array, opc, ob, ot, oval, tpc, tt, tval, pushed, taken,
          result>>

Slot(k) == k % Size

Init ==
    /\ m_top = 0 /\ m_bottom = 0
    /\ m_array = [k \in 0..(Size - 1) |-> Null]
    /\ opc = "idle" /\ ob = 0 /\ ot = 0 /\ oval = Null
    /\ tpc = [p \in Thieves |-> "idle"]
    /\ tt = [p \in Thieves |-> 0]
    /\ tval = [p \in Thieves |-> Null]
    /\ pushed = 0
    /\ taken = [i \in Items |-> 0]
    /\ result = "none"

Hand(i) == taken' = [taken EXCEPT ![i] = @ + 1]

(* The owner's call returns and its locals are gone. *)
OwnerReturn == opc' = "idle" /\ ob' = 0 /\ ot' = 0 /\ oval' = Null

Ends(how) == result' = how

-----------------------------------------------------------------------------
(* push(node) *)

(* Mutant: the test lets one more item in than the buffer has slots. *)
PushStartOffByOne ==
    /\ opc = "idle"
    /\ pushed < MaxPush
    /\ m_bottom - m_top <= Size
    /\ ob' = m_bottom /\ ot' = m_top /\ opc' = "push_store"
    /\ UNCHANGED <<m_top, m_bottom, m_array, oval, thiefVars, pushed, taken, result>>

(* b = m_bottom, t = m_top and the test b - t > size() - 1. *)
PushStart ==
    /\ opc = "idle"
    /\ pushed < MaxPush
    /\ m_bottom - m_top <= Size - 1
    /\ ob' = m_bottom /\ ot' = m_top /\ opc' = "push_store"
    /\ UNCHANGED <<m_top, m_bottom, m_array, oval, thiefVars, pushed, taken, result>>

(* The deque is full: push returns false. *)
PushFull ==
    /\ opc = "idle"
    /\ pushed < MaxPush
    /\ m_bottom - m_top > Size - 1
    /\ Ends("full")
    /\ UNCHANGED <<m_top, m_bottom, m_array, ownerVars, thiefVars, pushed, taken>>

(* a[b] = &node *)
PushStore ==
    /\ opc = "push_store"
    /\ m_array' = [m_array EXCEPT ![Slot(ob)] = pushed + 1]
    /\ pushed' = pushed + 1
    /\ opc' = "push_publish"
    /\ UNCHANGED <<m_top, m_bottom, ob, ot, oval, thiefVars, taken, result>>

(* m_bottom = b + 1 *)
PushPublish ==
    /\ opc = "push_publish"
    /\ m_bottom' = ob + 1
    /\ OwnerReturn /\ Ends("pushed")
    /\ UNCHANGED <<m_top, m_array, thiefVars, pushed, taken>>

-----------------------------------------------------------------------------
(* pop() *)

(* b = m_bottom - 1, m_bottom = b *)
PopReserve ==
    /\ opc = "idle"
    /\ ob' = m_bottom - 1
    /\ m_bottom' = m_bottom - 1
    /\ opc' = "pop_top"
    /\ UNCHANGED <<m_top, m_array, ot, oval, thiefVars, pushed, taken, result>>

(* Mutant: the last item is taken without the compare-and-exchange. *)
PopReadTopNoRace ==
    /\ opc = "pop_top"
    /\ \/ m_top <= ob /\ Hand(m_array[Slot(ob)]) /\ OwnerReturn /\ Ends("popped")
       \/ /\ m_top > ob
          /\ ot' = m_top /\ opc' = "pop_restore" /\ Ends("empty")
          /\ UNCHANGED <<ob, oval, taken>>
    /\ UNCHANGED <<m_top, m_bottom, m_array, thiefVars, pushed>>

(* t = m_top: more than one item left, exactly one, or none. *)
PopReadTop ==
    /\ opc = "pop_top"
    /\ \/ m_top < ob /\ Hand(m_array[Slot(ob)]) /\ OwnerReturn /\ Ends("popped")
       \/ /\ m_top = ob
          /\ oval' = m_array[Slot(ob)] /\ ot' = m_top /\ opc' = "pop_cas"
          /\ UNCHANGED <<ob, taken, result>>
       \/ /\ m_top > ob
          /\ ot' = m_top /\ opc' = "pop_restore" /\ Ends("empty")
          /\ UNCHANGED <<ob, oval, taken>>
    /\ UNCHANGED <<m_top, m_bottom, m_array, thiefVars, pushed>>

(* The compare-and-exchange of m_top from t to t + 1 decides the race for  *)
(* the last item.                                                          *)
PopCAS ==
    /\ opc = "pop_cas"
    /\ \/ m_top = ot /\ m_top' = ot + 1 /\ Hand(oval) /\ Ends("popped")
       \/ m_top # ot /\ Ends("empty") /\ UNCHANGED <<m_top, taken>>
    /\ opc' = "pop_restore"
    /\ UNCHANGED <<m_bottom, m_array, ob, ot, oval, thiefVars, pushed>>

(* m_bottom = b + 1 *)
PopRestore ==
    /\ opc = "pop_restore"
    /\ m_bottom' = ob + 1
    /\ OwnerReturn
    /\ UNCHANGED <<m_top, m_array, thiefVars, pushed, taken, result>>

-----------------------------------------------------------------------------
(* steal() *)

ThiefReturn(p) ==
    /\ tpc' = [tpc EXCEPT ![p] = "idle"]
    /\ tt' = [tt EXCEPT ![p] = 0]
    /\ tval' = [tval EXCEPT ![p] = Null]

(* t = m_top *)
StealReadTop(p) ==
    /\ tpc[p] = "idle"
    /\ tt' = [tt EXCEPT ![p] = m_top]
    /\ tpc' = [tpc EXCEPT ![p] = "steal_bottom"]
    /\ UNCHANGED <<m_top, m_bottom, m_array, ownerVars, tval, pushed, taken, result>>

(* b = m_bottom and the test t < b *)
StealReadBottom(p) ==
    /\ tpc[p] = "steal_bottom"
    /\ \/ /\ tt[p] < m_bottom
          /\ tpc' = [tpc EXCEPT ![p] = "steal_item"]
          /\ UNCHANGED <<tt, tval>>
       \/ tt[p] >= m_bottom /\ ThiefReturn(p)
    /\ UNCHANGED <<m_top, m_bottom, m_array, ownerVars, pushed, taken, result>>

(* return_value = a[t] *)
StealReadItem(p) ==
    /\ tpc[p] = "steal_item"
    /\ tval' = [tval EXCEPT ![p] = m_array[Slot(tt[p])]]
    /\ tpc' = [tpc EXCEPT ![p] = "steal_cas"]
    /\ UNCHANGED <<m_top, m_bottom, m_array, ownerVars, tt, pushed, taken, result>>

(* The compare-and-exchange of m_top from t to t + 1. *)
StealCAS(p) ==
    /\ tpc[p] = "steal_cas"
    /\ \/ m_top = tt[p] /\ m_top' = tt[p] + 1 /\ Hand(tval[p])
       \/ m_top # tt[p] /\ UNCHANGED <<m_top, taken>>
    /\ ThiefReturn(p)
    /\ UNCHANGED <<m_bottom, m_array, ownerVars, pushed, result>>

-----------------------------------------------------------------------------
OwnerStep == PushStore \/ PushPublish \/ PopReadTop \/ PopCAS \/ PopRestore
StealStep(p) == StealReadBottom(p) \/ StealReadItem(p) \/ StealCAS(p)

Next ==
    \/ PushStart \/ PushFull \/ PopReserve \/ OwnerStep
    \/ \E p \in Thieves : StealReadTop(p) \/ StealStep(p)

Spec == Init /\ [][Next]_vars

(* The executors call pop and steal again until the queue is done, and no  *)
(* thread is suspended for ever.                                           *)
FairSpec ==
    /\ Spec
    /\ WF_vars(OwnerStep) /\ WF_vars(PopReserve)
    /\ \A p \in Thieves : WF_vars(StealReadTop(p) \/ StealStep(p))

-----------------------------------------------------------------------------
(* While the owner is inside pop, the slot it reserved still belongs to    *)
(* the deque until the step that decides who gets it.                      *)
Bottom == IF opc \in {"pop_top", "pop_cas", "pop_restore"} THEN m_bottom + 1 ELSE m_bottom

(* No item is lost, overwritten or returned twice: every item that push    *)
(* accepted is in the live part of the buffer until someone is given it,   *)
(* whatever stale t and b the owner and the thieves hold when they race    *)
(* for the last one.                                                       *)
NothingIsLost ==
    \A i \in 1..pushed :
       \/ taken[i] = 1
       \/ \E k \in m_top..(Bottom - 1) : m_array[Slot(k)] = i
       \/ opc = "push_publish" /\ i = pushed /\ m_array[Slot(ob)] = i

(* Every item that is pushed is returned in the end, if threads keep       *)
(* popping and stealing.                                                   *)
EverythingIsTaken == \A i \in Items : (pushed >= i) ~> (taken[i] = 1)

-----------------------------------------------------------------------------
(* The buffer seen as a sequence, and the pushes that have taken effect. *)
Contents == [j \in 1..(Bottom - m_top) |-> m_array[Slot(m_top + j - 1)]]
Accepted == IF opc = "push_publish" THEN pushed - 1 ELSE pushed

Deque == INSTANCE WorkStealingDeque WITH deque <- Contents, pushed <- Accepted

(* The buffer with its two indices implements the atomic bounded deque:    *)
(* push takes effect when it publishes the new bottom, pop when it reads   *)
(* the top or wins the exchange, steal when it wins the exchange; a push   *)
(* is refused only when the deque is full, and a pop finds nothing only    *)
(* when it is empty.                                                       *)
ImplementsDeque == Deque!Spec
=============================================================================
