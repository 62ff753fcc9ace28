------------------------- MODULE SingleConsumeLIFO -------------------------
(***************************************************************************)
(* The wait queue of a task (class SingleConsumeOperationLIFO): any number *)
(* of threads call try_push, one call of consume() swaps ConsumedTag into  *)
(* the head and visits the list it found.                                  *)
(*                                                                         *)
(* visiting a node hands it to a thread (the scheduler makes the task      *)
(* ready or adds it to a further wait queue), so another thread may write  *)
(* the node's next word while consume() is still walking the list.         *)
(***************************************************************************)
EXTENDS LockBasedLIFOCommon, FiniteSets

CONSTANT InQueue     \* the holder of a node that is in the queue

ASSUME InQueueAssumption == InQueue \notin Threads

ConsumedTag == LockTag

VARIABLES phase,      \* of the one call of consume()
          cursor,     \* old_head of consume(): the rest of the list
          call_arg,   \* the node being visited
          cpc,        \* where consume() is in its loop
          holder,     \* the thread with exclusive access to a node
          outcome,    \* how the last try_push of a thread ended
          begun       \* phase of consume() when the try_push began

consumeVars == <<phase, cursor, call_arg, cpc>>
vars == <<m_head, m_next, pc, node, old_head, phase, cursor, call_arg, cpc,
          holder, outcome, begun>>

Init ==
    /\ CommonInit
    /\ phase = "open" /\ cpc = "idle"
    /\ cursor = NullPtr /\ call_arg = NullPtr
    /\ holder \in [Nodes -> Threads]
    /\ outcome = [t \in Threads |-> "none"]
    /\ begun = [t \in Threads |-> "open"]

is_consumed == m_head = ConsumedTag

-----------------------------------------------------------------------------
(* try_push(node) *)

PushCall(t, n) ==
    /\ holder[n] = t
    /\ TryPushCall(t, n)
    /\ begun' = [begun EXCEPT ![t] = phase]
    /\ UNCHANGED <<consumeVars, holder, outcome>>

PushRead(t) == TryPushRead(t) /\ UNCHANGED <<consumeVars, holder, outcome, begun>>

PushLink(t) == TryPushLink(t) /\ UNCHANGED <<consumeVars, holder, outcome, begun>>

PushAccepted(t) ==
    /\ TryPushSucceed(t)
    /\ holder' = [holder EXCEPT ![node[t]] = InQueue]
    /\ outcome' = [outcome EXCEPT ![t] = "accepted"]
    /\ UNCHANGED <<consumeVars, begun>>

PushRetry(t) == TryPushRetry(t) /\ UNCHANGED <<consumeVars, holder, outcome, begun>>

(* return false: the caller keeps its node. *)
PushRefused(t) ==
    /\ TryPushFail(t, "idle")
    /\ outcome' = [outcome EXCEPT ![t] = "refused"]
    /\ UNCHANGED <<consumeVars, holder, begun>>

-----------------------------------------------------------------------------
(* consume(f) *)

ConsumeCall ==
    /\ phase = "open"
    /\ phase' = "called"
    /\ UNCHANGED <<commonVars, cursor, call_arg, cpc, holder, outcome, begun>>

(* Mutant: the head is reset to the empty list instead of ConsumedTag. *)
ConsumeReset ==
    /\ phase = "called"
    /\ phase' = "visiting" /\ cpc' = "loop"
    /\ cursor' = m_head
    /\ m_head' = EndTag
    /\ UNCHANGED <<m_next, pc, node, old_head, call_arg, holder, outcome, begun>>

(* old_head = atomic_exchange(&m_head, consumed_tag) *)
ConsumeExchange ==
    /\ phase = "called"
    /\ phase' = "visiting" /\ cpc' = "loop"
    /\ cursor' = m_head
    /\ m_head' = ConsumedTag
    /\ UNCHANGED <<m_next, pc, node, old_head, call_arg, holder, outcome, begun>>

(* call_arg = old_head; old_head = next of old_head *)
ConsumeAdvance ==
    /\ cpc = "loop" /\ cursor # EndTag
    /\ call_arg' = cursor
    /\ cursor' = m_next[cursor]
    /\ cpc' = "mark"
    /\ UNCHANGED <<commonVars, phase, holder, outcome, begun>>

(* mark_as_not_enqueued(call_arg) *)
ConsumeMark ==
    /\ cpc = "mark"
    /\ m_next' = [m_next EXCEPT ![call_arg] = NullPtr]
    /\ cpc' = "call"
    /\ UNCHANGED <<m_head, pc, node, old_head, phase, cursor, call_arg, holder,
                   outcome, begun>>

(* f(call_arg) hands the task to the scheduler, that is to some thread. *)
ConsumeVisit(t) ==
    /\ cpc = "call"
    /\ holder' = [holder EXCEPT ![call_arg] = t]
    /\ call_arg' = NullPtr /\ cpc' = "loop"
    /\ UNCHANGED <<commonVars, phase, cursor, outcome, begun>>

ConsumeReturn ==
    /\ cpc = "loop" /\ cursor = EndTag
    /\ phase' = "returned" /\ cpc' = "idle"
    /\ UNCHANGED <<commonVars, cursor, call_arg, holder, outcome, begun>>

-----------------------------------------------------------------------------
PushStep(t) == PushRead(t) \/ PushLink(t) \/ PushAccepted(t) \/ PushRetry(t) \/ PushRefused(t)

ConsumeStep ==
    \/ ConsumeExchange
    \/ ConsumeAdvance
    \/ ConsumeMark
    \/ \E t \in Threads : ConsumeVisit(t)
    \/ ConsumeReturn

Next ==
    \/ \E t \in Threads : (\E n \in Nodes : PushCall(t, n)) \/ PushStep(t)
    \/ ConsumeCall
    \/ ConsumeStep

(* Threads inside an operation keep running. *)
Spec == Init /\ [][Next]_vars /\ WF_vars(ConsumeStep) /\ \A t \in Threads : WF_vars(PushStep(t))

-----------------------------------------------------------------------------
(* "Any calls to try_push that happen-before the call to consume() will    *)
(* succeed" and "any calls to try_push for which the single call to        *)
(* consume() happens-before those calls will return false": a call that    *)
(* ends before consume() is called is not refused, and one that begins     *)
(* after the exchange, while consume() is still visiting, is not accepted. *)
PushRespectsConsume ==
    [][\A t \in Threads :
          /\ PushRefused(t) => phase # "open"
          /\ PushAccepted(t) => begun[t] \notin {"visiting", "returned"}]_vars

(* "Ensures: (return value is true) || (node.is_enqueued() == false)", and *)
(* the precondition of the next try_push on any queue.                     *)
HeldNodeIsNotEnqueued ==
    \A n \in Nodes :
       holder[n] # InQueue /\ (\A t \in Threads : pc[t] = "idle" \/ node[t] # n) => ~is_enqueued(n)
=============================================================================
