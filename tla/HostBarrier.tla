---------------------------- MODULE HostBarrier ----------------------------
(***************************************************************************)
(* HostBarrier, and the rendezvous of HostThreadTeamData built on its      *)
(* split functions: every thread arrives; the leader's call returns true   *)
(* when all have arrived, the others' calls return when the leader calls   *)
(* release.  One barrier is the three atomics in a buffer, which are only  *)
(* incremented and decremented, never stored, between rendezvous.          *)
(***************************************************************************)
EXTENDS Integers, FiniteSets

CONSTANTS Threads, Barriers

VARIABLES arrived,   \* buffer[arrive_idx] of each barrier
          master,    \* buffer[master_idx]
          released,  \* buffer[wait_idx]
          step,      \* of each barrier, the step of each thread
          rv         \* of each thread, the rendezvous that it is in

barrierVars == <<arrived, master, released, step, rv>>

In(t, pc) == rv[t].pc = pc
Move(t, pc) == rv' = [rv EXCEPT ![t].pc = pc]

(* A thread that is in no rendezvous, and one that is about to arrive at b *)
(* with the given number of threads, as its leader or not.                 *)
NoRendezvous == [pc |-> "out", b |-> 0, size |-> 1, lead |-> FALSE]
Rendezvous(b, size, lead) == [pc |-> "arrive", b |-> b, size |-> size, lead |-> lead]

(* Mutant: the count after the increment is compared with size - 1. *)
ArriveOffByOne(t) ==
    LET b == rv[t].b IN
    /\ In(t, "arrive")
    /\ \/ /\ rv[t].size <= 1
          /\ Move(t, IF rv[t].lead THEN "lead" ELSE "out")
          /\ UNCHANGED <<arrived, step>>
       \/ /\ rv[t].size > 1
          /\ step' = [step EXCEPT ![b][t] = @ + 1]
          /\ arrived' = [arrived EXCEPT ![b] = @ + 1]
          /\ Move(t, IF arrived[b] + 1 = rv[t].size - 1 THEN "last" ELSE "wait")
    /\ UNCHANGED <<master, released>>

(* split_arrive with master_wait.  A barrier of one thread is no barrier.  *)
Arrive(t) ==
    LET b == rv[t].b IN
    /\ In(t, "arrive")
    /\ \/ /\ rv[t].size <= 1
          /\ Move(t, IF rv[t].lead THEN "lead" ELSE "out")
          /\ UNCHANGED <<arrived, step>>
       \/ /\ rv[t].size > 1
          /\ step' = [step EXCEPT ![b][t] = @ + 1]
          /\ arrived' = [arrived EXCEPT ![b] = @ + 1]
          /\ Move(t, IF arrived[b] = rv[t].size - 1 THEN "last" ELSE "wait")
    /\ UNCHANGED <<master, released>>

(* ... the last thread to arrive also tells the leader. *)
TellMaster(t) ==
    /\ In(t, "last")
    /\ master' = [master EXCEPT ![rv[t].b] = @ + 1]
    /\ Move(t, "wait")
    /\ UNCHANGED <<arrived, released, step>>

(* wait, and split_master_wait: wait_until_equal sees the step. *)
Wait(t) ==
    LET b == rv[t].b IN
    /\ In(t, "wait")
    /\ \/ /\ ~rv[t].lead /\ released[b] = step[b][t]
          /\ Move(t, "out")
       \/ /\ rv[t].lead /\ master[b] = step[b][t]
          /\ Move(t, "lead")
    /\ UNCHANGED <<arrived, master, released, step>>

(* split_release, once the leader's code has called it. *)
Release(t) ==
    LET b == rv[t].b IN
    \/ /\ In(t, "release") /\ rv[t].size > 1
       /\ arrived' = [arrived EXCEPT ![b] = @ - rv[t].size]
       /\ Move(t, "open")
       /\ UNCHANGED <<released, master, step>>
    \/ /\ In(t, "open")
       /\ released' = [released EXCEPT ![b] = @ + 1]
       /\ Move(t, "out")
       /\ UNCHANGED <<arrived, master, step>>
    \/ /\ In(t, "release") /\ rv[t].size <= 1
       /\ Move(t, "out")
       /\ UNCHANGED <<arrived, master, released, step>>

BarrierStep(t) == Arrive(t) \/ TellMaster(t) \/ Wait(t) \/ Release(t)

-----------------------------------------------------------------------------
(* The threads that wait in the round that t leads. *)
Waiting(t) ==
    LET b == rv[t].b
    IN {u \in Threads : In(u, "wait") /\ rv[u].b = b /\ step[b][u] = step[b][t]}

(* "All threads have entered 'team_rendezvous', only this thread returned  *)
(* from 'team_rendezvous' with a return value of 'true'": until it calls   *)
(* release all the others wait in the same round, so that the leader may   *)
(* use the memory of each of them.                                         *)
LeaderIsAlone ==
    \A t \in Threads :
       rv[t].pc \in {"lead", "release"} => Cardinality(Waiting(t)) = rv[t].size - 1
=============================================================================
