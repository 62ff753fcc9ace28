------------------------- MODULE HostBarrierProofs -------------------------
(***************************************************************************)
(* The rendezvous of HostBarrier for any number of threads, any number of  *)
(* rounds, and a leader that may be another one in every round (the source *)
(* of team_broadcast): the barrier B of all Threads by itself, each thread *)
(* calling it again and again.                                             *)
(***************************************************************************)
EXTENDS HostBarrier, FiniteSetTheorems, TLAPS

CONSTANTS B, Source   \* the barrier, and the leader of each round

N == Cardinality(Threads)

RInit ==
    /\ arrived = [b \in Barriers |-> 0] /\ master = [b \in Barriers |-> 0]
    /\ released = [b \in Barriers |-> 0]
    /\ step = [b \in Barriers |-> [t \in Threads |-> 0]]
    /\ rv = [t \in Threads |-> NoRendezvous]

Call(t) ==
    /\ In(t, "out")
    /\ rv' = [rv EXCEPT ![t] = Rendezvous(B, N, Source[step[B][t] + 1] = t)]
    /\ UNCHANGED <<arrived, master, released, step>>

CallRelease(t) ==
    /\ In(t, "lead")
    /\ Move(t, "release")
    /\ UNCHANGED <<arrived, master, released, step>>

(* organize_pool, between two parallel regions. *)
Organize ==
    /\ \A t \in Threads : In(t, "out")
    /\ arrived' = [arrived EXCEPT ![B] = 0] /\ master' = [master EXCEPT ![B] = 0]
    /\ released' = [released EXCEPT ![B] = 0]
    /\ step' = [step EXCEPT ![B] = [t \in Threads |-> 0]]
    /\ UNCHANGED rv

RNext == Organize \/ \E t \in Threads : Call(t) \/ CallRelease(t) \/ BarrierStep(t)

RSpec == RInit /\ [][RNext]_barrierVars

-----------------------------------------------------------------------------
PCs == {"out", "arrive", "last", "wait", "lead", "release", "open"}

RTypeOK ==
    /\ arrived \in [Barriers -> Int] /\ master \in [Barriers -> Int]
    /\ released \in [Barriers -> Nat]
    /\ step \in [Barriers -> [Threads -> Nat]]
    /\ rv \in [Threads -> [pc : PCs, b : Barriers \cup {0}, size : Nat, lead : BOOLEAN]]

(* Where a thread is, s being its step and k the number of rounds that are *)
(* over: it is in the round k, or it has arrived in the next.              *)
Placed(r, s, k, t) ==
    /\ r.pc # "out" => r.b = B /\ r.size = N
    /\ r.pc \in {"out", "arrive"} => s = k
    /\ r.pc \in {"last", "lead", "release", "open"} => s = k + 1
    /\ r.pc = "wait" => s = k + 1 \/ (s = k /\ ~r.lead)
    /\ r.pc \in {"lead", "release", "open"} => r.lead
    /\ r.pc = "arrive" => (r.lead <=> Source[s + 1] = t)
    /\ r.pc \in {"last", "wait", "lead", "release", "open"} => (r.lead <=> Source[s] = t)

Round == \A t \in Threads : Placed(rv[t], step[B][t], released[B], t)

Present == {t \in Threads : step[B][t] = released[B] + 1}

Counted ==
    /\ (\E t \in Threads : In(t, "open")) => arrived[B] = 0
    /\ (\A t \in Threads : ~In(t, "open")) => arrived[B] = Cardinality(Present)

Told ==
    /\ master[B] \in {released[B], released[B] + 1}
    /\ master[B] = released[B] + 1 => \A t \in Threads : ~In(t, "last")
    /\ master[B] = released[B] + 1 => \A t \in Threads : t \in Present
    /\ \A t \in Threads : In(t, "last") => \A u \in Threads : u \in Present
    /\ \A t, u \in Threads : In(t, "last") /\ In(u, "last") => t = u
    /\ \A t \in Threads : rv[t].pc \in {"lead", "release", "open"} => master[B] = released[B] + 1

RInv == RTypeOK /\ Round /\ Counted /\ Told

Setting ==
    /\ IsFiniteSet(Threads) /\ N > 1
    /\ B \in Barriers
    /\ Source \in [Nat -> Threads]

-----------------------------------------------------------------------------
(* One more thread of a finite set arrives; when all others were there, so *)
(* are all now.                                                            *)
LEMMA OneMore ==
    ASSUME NEW T, IsFiniteSet(T), NEW S, S \subseteq T, NEW t \in T, t \notin S
    PROVE  /\ Cardinality(S) \in Nat /\ Cardinality(T) \in Nat
           /\ Cardinality(S \cup {t}) = Cardinality(S) + 1
           /\ Cardinality(S) = Cardinality(T) - 1 => S \cup {t} = T
<1>1. IsFiniteSet(S) /\ IsFiniteSet(S \cup {t}) BY FS_Subset, FS_AddElement
<1>2. Cardinality(S) \in Nat /\ Cardinality(T) \in Nat BY <1>1, FS_CardinalityType
<1>3. Cardinality(S \cup {t}) = Cardinality(S) + 1 BY <1>1, FS_AddElement
<1>4. S \cup {t} \subseteq T OBVIOUS
<1>5. Cardinality(S \cup {t}) = Cardinality(T) => S \cup {t} = T BY <1>4, FS_Subset
<1> QED BY <1>2, <1>3, <1>5

(* Before the first call all threads are in round 0. *)
LEMMA RInitInv == ASSUME Setting, RInit PROVE RInv
<1>1. RTypeOK BY DEF Setting, RInit, RTypeOK, NoRendezvous, PCs
<1>2. Round BY DEF Setting, RInit, Round, Placed, NoRendezvous
<1>3. Present = {} BY DEF Setting, RInit, Present
<1>4. Counted BY <1>3, FS_EmptySet DEF Setting, RInit, Counted, In, NoRendezvous
<1>5. Told BY DEF Setting, RInit, Told, In, NoRendezvous
<1> QED BY <1>1, <1>2, <1>4, <1>5 DEF RInv

RvType == [Threads -> [pc : PCs, b : Barriers \cup {0}, size : Nat, lead : BOOLEAN]]

(* Move changes where its thread is, and nothing else. *)
LEMMA Moved ==
    ASSUME rv \in RvType, NEW t \in Threads, NEW p \in PCs, Move(t, p)
    PROVE  /\ rv' \in RvType
           /\ \A u \in Threads \ {t} : rv'[u] = rv[u]
           /\ rv'[t].pc = p /\ rv'[t].b = rv[t].b
           /\ rv'[t].size = rv[t].size /\ rv'[t].lead = rv[t].lead
<1> DEFINE r == [pc |-> p, b |-> rv[t].b, size |-> rv[t].size, lead |-> rv[t].lead]
<1>1. [rv[t] EXCEPT !.pc = p] = r BY DEF RvType
<1>2. rv' = [rv EXCEPT ![t] = r] BY <1>1 DEF Move
<1>3. r \in [pc : PCs, b : Barriers \cup {0}, size : Nat, lead : BOOLEAN] BY DEF RvType
<1> HIDE DEF r
<1>4. /\ rv' \in RvType /\ rv'[t] = r
      /\ \A u \in Threads \ {t} : rv'[u] = rv[u]
  BY <1>2, <1>3 DEF RvType
<1> QED BY <1>4 DEF r

(* A call of the rendezvous: the thread is in the round that is open. *)
LEMMA CallInv ==
    ASSUME Setting, RInv, NEW t \in Threads, Call(t) PROVE RInv'
<1> USE DEF Setting
<1>1. N \in Nat BY FS_CardinalityType DEF N
<1>2. step[B][t] = released[B] BY DEF RInv, Round, Placed, Call, In
<1> DEFINE r == Rendezvous(B, N, Source[step[B][t] + 1] = t)
<1>3. r \in [pc : PCs, b : Barriers \cup {0}, size : Nat, lead : BOOLEAN]
  BY <1>1 DEF Rendezvous, PCs
<1>4. rv' \in RvType /\ rv'[t] = r /\ \A u \in Threads \ {t} : rv'[u] = rv[u]
  BY <1>3 DEF Call, RInv, RTypeOK, RvType
<1>5. UNCHANGED <<arrived, master, released, step>> BY DEF Call
<1>6. RTypeOK' BY <1>4, <1>5 DEF RInv, RTypeOK, RvType
<1>7. Round'
  <2>1. ASSUME NEW u \in Threads, u # t
        PROVE  Placed(rv'[u], step'[B][u], released'[B], u)
    BY <2>1, <1>4, <1>5 DEF RInv, Round
  <2>2. Placed(r, step[B][t], released[B], t) BY <1>2 DEF Placed, Rendezvous
  <2> QED BY <2>1, <2>2, <1>4, <1>5 DEF Round
<1>8. rv[t].pc = "out" /\ rv'[t].pc = "arrive" BY <1>4 DEF Call, In, Rendezvous
<1>9. Present' = Present BY <1>5 DEF Present
<1>10. Counted' BY <1>4, <1>5, <1>8, <1>9 DEF RInv, Counted, In
<1>11. Told' BY <1>4, <1>5, <1>8, <1>9 DEF RInv, Told, In
<1> QED BY <1>6, <1>7, <1>10, <1>11 DEF RInv

(* The leader calls release. *)
LEMMA CallReleaseInv ==
    ASSUME Setting, RInv, NEW t \in Threads, CallRelease(t) PROVE RInv'
<1> USE DEF Setting
<1>1. rv \in RvType BY DEF RInv, RTypeOK, RvType
<1>2. /\ rv' \in RvType
      /\ \A u \in Threads \ {t} : rv'[u] = rv[u]
      /\ rv'[t].pc = "release" /\ rv'[t].b = rv[t].b
      /\ rv'[t].size = rv[t].size /\ rv'[t].lead = rv[t].lead
  BY <1>1, Moved DEF CallRelease, PCs
<1>3. rv[t].pc = "lead" BY DEF CallRelease, In
<1>4. UNCHANGED <<arrived, master, released, step>> BY DEF CallRelease
<1>5. RTypeOK' BY <1>2, <1>4 DEF RInv, RTypeOK, RvType
<1>6. Round' BY <1>2, <1>3, <1>4 DEF RInv, Round, Placed
<1>7. Present' = Present BY <1>4 DEF Present
<1>8. Counted' BY <1>2, <1>3, <1>4, <1>7 DEF RInv, Counted, In
<1>9. Told' BY <1>2, <1>3, <1>4, <1>7 DEF RInv, Told, In
<1> QED BY <1>5, <1>6, <1>8, <1>9 DEF RInv

(* split_arrive: the thread is one more of those that are present, and the *)
(* last one when all the others are.                                       *)
LEMMA ArriveInv ==
    ASSUME Setting, RInv, NEW t \in Threads, Arrive(t) PROVE RInv'
<1> USE DEF Setting
<1> DEFINE p == IF arrived[B] = N - 1 THEN "last" ELSE "wait"
<1>1. rv \in RvType BY DEF RInv, RTypeOK, RvType
<1>2. rv[t].pc = "arrive" BY DEF Arrive, In
<1>3. /\ rv[t].b = B /\ rv[t].size = N /\ step[B][t] = released[B]
      /\ rv[t].lead <=> Source[step[B][t] + 1] = t
  BY <1>2 DEF RInv, Round, Placed
<1>4. /\ step' = [step EXCEPT ![B][t] = @ + 1]
      /\ arrived' = [arrived EXCEPT ![B] = @ + 1]
      /\ Move(t, p) /\ master' = master /\ released' = released
  <2>1. N \in Nat BY FS_CardinalityType DEF N
  <2>2. ~(rv[t].size <= 1) BY <1>3, <2>1
  <2> QED BY <1>3, <2>2 DEF Arrive, Move
<1>5. p \in PCs BY DEF PCs
<1>6. /\ rv' \in RvType
      /\ \A u \in Threads \ {t} : rv'[u] = rv[u]
      /\ rv'[t].pc = p /\ rv'[t].b = rv[t].b
      /\ rv'[t].size = rv[t].size /\ rv'[t].lead = rv[t].lead
  BY <1>1, <1>4, <1>5, Moved
<1>7. RTypeOK'
  <2>1. /\ step \in [Barriers -> [Threads -> Nat]] /\ arrived \in [Barriers -> Int]
        /\ master \in [Barriers -> Int] /\ released \in [Barriers -> Nat]
    BY DEF RInv, RTypeOK
  <2>2. step' \in [Barriers -> [Threads -> Nat]]
    <3>1. [step[B] EXCEPT ![t] = @ + 1] \in [Threads -> Nat] BY <2>1
    <3> QED BY <1>4, <2>1, <3>1
  <2>3. arrived' \in [Barriers -> Int] BY <1>4, <2>1
  <2> QED BY <1>4, <1>6, <2>1, <2>2, <2>3 DEF RTypeOK, RvType
<1>8. /\ \A u \in Threads \ {t} : step'[B][u] = step[B][u]
      /\ step'[B][t] = step[B][t] + 1 /\ arrived'[B] = arrived[B] + 1
  BY <1>4 DEF RInv, RTypeOK
<1>9. step[B][t] \in Nat /\ released[B] \in Nat BY DEF RInv, RTypeOK
<1>10. Round'
  <2>1. ASSUME NEW u \in Threads, u # t
        PROVE  Placed(rv'[u], step'[B][u], released'[B], u)
    BY <2>1, <1>4, <1>6, <1>8 DEF RInv, Round
  <2>2. Placed(rv'[t], step'[B][t], released'[B], t)
    BY <1>3, <1>4, <1>6, <1>8, <1>9 DEF Placed
  <2> QED BY <2>1, <2>2 DEF Round
<1>11. t \notin Present BY <1>3, <1>9 DEF Present
<1>12. /\ master[B] = released[B]
       /\ \A u \in Threads : rv[u].pc \notin {"last", "lead", "release", "open"}
  BY <1>11, <1>9 DEF RInv, Told, In
<1>13. arrived[B] = Cardinality(Present) BY <1>12 DEF RInv, Counted, In
<1>14. Present' = Present \cup {t} BY <1>3, <1>4, <1>8, <1>9 DEF Present
<1>15. Present \subseteq Threads BY DEF Present
<1>16. /\ Cardinality(Present') = arrived[B] + 1
       /\ arrived[B] = N - 1 => Present' = Threads
  <2>1. /\ Cardinality(Present \cup {t}) = Cardinality(Present) + 1
        /\ Cardinality(Present) = N - 1 => Present \cup {t} = Threads
    BY <1>11, <1>15, OneMore, Zenon DEF N
  <2> QED BY <2>1, <1>13, <1>14
<1>17. Counted' BY <1>6, <1>8, <1>12, <1>16 DEF Counted, In
<1>18. Told' BY <1>4, <1>6, <1>9, <1>12, <1>16 DEF Told, In
<1> QED BY <1>7, <1>10, <1>17, <1>18 DEF RInv

(* The last thread to arrive increments the leader's counter, once. *)
LEMMA TellMasterInv ==
    ASSUME Setting, RInv, NEW t \in Threads, TellMaster(t) PROVE RInv'
<1> USE DEF Setting
<1>1. rv \in RvType BY DEF RInv, RTypeOK, RvType
<1>2. /\ rv' \in RvType
      /\ \A u \in Threads \ {t} : rv'[u] = rv[u]
      /\ rv'[t].pc = "wait" /\ rv'[t].b = rv[t].b
      /\ rv'[t].size = rv[t].size /\ rv'[t].lead = rv[t].lead
  BY <1>1, Moved DEF TellMaster, PCs
<1>3. rv[t].pc = "last" BY DEF TellMaster, In
<1>4. rv[t].b = B BY <1>3 DEF RInv, Round, Placed
<1>5. UNCHANGED <<arrived, released, step>> BY DEF TellMaster
<1>6. master' = [master EXCEPT ![B] = @ + 1] BY <1>4 DEF TellMaster
<1>7. RTypeOK' BY <1>2, <1>5, <1>6 DEF RInv, RTypeOK, RvType
<1>8. Round' BY <1>2, <1>3, <1>5 DEF RInv, Round, Placed
<1>9. Present' = Present BY <1>5 DEF Present
<1>10. Counted' BY <1>2, <1>3, <1>5, <1>9 DEF RInv, Counted, In
<1>11. released[B] \in Nat BY DEF RInv, RTypeOK
<1>12. master[B] = released[B] BY <1>3 DEF RInv, Told, In
<1>13. master'[B] = released'[B] + 1 BY <1>5, <1>6, <1>12 DEF RInv, RTypeOK
<1>14. \A u \in Threads : rv'[u].pc # "last" BY <1>2, <1>3 DEF RInv, Told, In
<1>15. \A u \in Threads : u \in Present' BY <1>3, <1>9 DEF RInv, Told, In
<1>16. Told' BY <1>13, <1>14, <1>15 DEF Told, In
<1> QED BY <1>7, <1>8, <1>10, <1>16 DEF RInv

(* A wait ends: for the leader when it was told, for the others when the   *)
(* round is over.                                                          *)
LEMMA WaitInv ==
    ASSUME Setting, RInv, NEW t \in Threads, Wait(t) PROVE RInv'
<1> USE DEF Setting
<1> DEFINE p == IF rv[t].lead THEN "lead" ELSE "out"
<1>1. rv \in RvType BY DEF RInv, RTypeOK, RvType
<1>2. rv[t].pc = "wait" /\ rv[t].lead \in BOOLEAN BY <1>1 DEF Wait, In, RvType
<1>3. rv[t].b = B BY <1>2 DEF RInv, Round, Placed
<1>4. /\ Move(t, p)
      /\ ~rv[t].lead => released[B] = step[B][t]
      /\ rv[t].lead => master[B] = step[B][t]
  BY <1>2, <1>3 DEF Wait, Move
<1>5. p \in PCs BY DEF PCs
<1>6. /\ rv' \in RvType
      /\ \A u \in Threads \ {t} : rv'[u] = rv[u]
      /\ rv'[t].pc = p /\ rv'[t].b = rv[t].b
      /\ rv'[t].size = rv[t].size /\ rv'[t].lead = rv[t].lead
  BY <1>1, <1>4, <1>5, Moved
<1>7. UNCHANGED <<arrived, master, released, step>> BY DEF Wait
<1>8. RTypeOK' BY <1>6, <1>7 DEF RInv, RTypeOK, RvType
<1>9. step[B][t] \in Nat /\ released[B] \in Nat BY DEF RInv, RTypeOK
<1>10. rv[t].lead => step[B][t] = released[B] + 1
  BY <1>2 DEF RInv, Round, Placed
<1>11. Round'
  <2>1. ASSUME NEW u \in Threads, u # t
        PROVE  Placed(rv'[u], step'[B][u], released'[B], u)
    BY <2>1, <1>6, <1>7 DEF RInv, Round
  <2>2. Placed(rv[t], step[B][t], released[B], t) BY DEF RInv, Round
  <2>3. Placed(rv'[t], step[B][t], released[B], t)
    BY <2>2, <1>2, <1>4, <1>6, <1>9, <1>10 DEF Placed
  <2> QED BY <2>1, <2>3, <1>7 DEF Round
<1>12. Present' = Present BY <1>7 DEF Present
<1>13. Counted' BY <1>2, <1>6, <1>7, <1>12 DEF RInv, Counted, In
<1>14. rv[t].lead => master[B] = released[B] + 1 BY <1>4, <1>10
<1>15. Told' BY <1>2, <1>6, <1>7, <1>12, <1>14 DEF RInv, Told, In
<1> QED BY <1>8, <1>11, <1>13, <1>15 DEF RInv

(* While a thread leads, from its return to its release, every other       *)
(* thread waits in the same round.                                         *)
LEMMA AllWait ==
    ASSUME Setting, RInv, NEW t \in Threads, rv[t].pc \in {"lead", "release", "open"}
    PROVE  /\ master[B] = released[B] + 1
           /\ rv[t].b = B /\ rv[t].size = N
           /\ \A u \in Threads : step[B][u] = released[B] + 1
           /\ \A u \in Threads \ {t} : rv[u].pc = "wait" /\ ~rv[u].lead /\ rv[u].b = B
<1> USE DEF Setting
<1>1. master[B] = released[B] + 1 BY DEF RInv, Told
<1>2. \A u \in Threads : step[B][u] = released[B] + 1 BY <1>1 DEF RInv, Told, Present
<1>3. rv[t].b = B /\ rv[t].size = N /\ Source[released[B] + 1] = t
  BY <1>2 DEF RInv, Round, Placed
<1>4. released[B] \in Nat BY DEF RInv, RTypeOK
<1>5. ASSUME NEW u \in Threads, u # t
      PROVE  rv[u].pc = "wait" /\ ~rv[u].lead /\ rv[u].b = B
  <2>1. Placed(rv[u], step[B][u], released[B], u) BY DEF RInv, Round
  <2>2. Source[step[B][u]] # u BY <1>2, <1>3, <1>5
  <2>3. rv[u].pc \in PCs BY DEF RInv, RTypeOK
  <2>4. rv[u].pc # "last" BY <1>1 DEF RInv, Told, In
  <2>5. step[B][u] = released[B] + 1 BY <1>2
  <2> QED BY <2>1, <2>2, <2>3, <2>4, <2>5, <1>4 DEF Placed, PCs
<1> QED BY <1>1, <1>2, <1>3, <1>5

(* split_release, its two steps: the count is back at zero, then the round *)
(* is over for all.                                                        *)
LEMMA ReleaseInv ==
    ASSUME Setting, RInv, NEW t \in Threads, Release(t) PROVE RInv'
<1> USE DEF Setting
<1>1. rv \in RvType BY DEF RInv, RTypeOK, RvType
<1>2. rv[t].pc \in {"release", "open"} BY DEF Release, In
<1>3. /\ master[B] = released[B] + 1
      /\ rv[t].b = B /\ rv[t].size = N
      /\ \A u \in Threads : step[B][u] = released[B] + 1
      /\ \A u \in Threads \ {t} : rv[u].pc = "wait" /\ ~rv[u].lead /\ rv[u].b = B
  BY <1>2, AllWait
<1>4. N \in Nat BY FS_CardinalityType DEF N
<1>5. Placed(rv[t], step[B][t], released[B], t) BY DEF RInv, Round
<1>6. Present = Threads BY <1>3 DEF Present
<1>7. CASE rv[t].pc = "release"
  <2>1. /\ arrived' = [arrived EXCEPT ![B] = @ - N]
        /\ Move(t, "open") /\ UNCHANGED <<released, master, step>>
    BY <1>3, <1>4, <1>7 DEF Release, In
  <2>2. /\ rv' \in RvType
        /\ \A u \in Threads \ {t} : rv'[u] = rv[u]
        /\ rv'[t].pc = "open" /\ rv'[t].b = rv[t].b
        /\ rv'[t].size = rv[t].size /\ rv'[t].lead = rv[t].lead
    BY <1>1, <2>1, Moved DEF PCs
  <2>3. RTypeOK' BY <1>4, <2>1, <2>2 DEF RInv, RTypeOK, RvType
  <2>4. Round'
    <3>1. ASSUME NEW u \in Threads, u # t
          PROVE  Placed(rv'[u], step'[B][u], released'[B], u)
      BY <3>1, <2>1, <2>2 DEF RInv, Round
    <3>2. Placed(rv'[t], step[B][t], released[B], t) BY <1>5, <1>7, <2>2 DEF Placed
    <3> QED BY <2>1, <3>1, <3>2 DEF Round
  <2>5. arrived[B] = N BY <1>3, <1>6, <1>7 DEF RInv, Counted, In, N
  <2>6. arrived'[B] = 0 BY <1>4, <2>1, <2>5 DEF RInv, RTypeOK
  <2>7. Counted' BY <2>2, <2>6 DEF Counted, In
  <2>8. Present' = Present BY <2>1 DEF Present
  <2>9. Told' BY <1>3, <1>6, <2>1, <2>2, <2>8 DEF Told, In
  <2> QED BY <2>3, <2>4, <2>7, <2>9 DEF RInv
<1>8. CASE rv[t].pc = "open"
  <2>1. /\ released' = [released EXCEPT ![B] = @ + 1]
        /\ Move(t, "out") /\ UNCHANGED <<arrived, master, step>>
    BY <1>3, <1>8 DEF Release, In
  <2>2. /\ rv' \in RvType
        /\ \A u \in Threads \ {t} : rv'[u] = rv[u]
        /\ rv'[t].pc = "out" /\ rv'[t].b = rv[t].b
        /\ rv'[t].size = rv[t].size /\ rv'[t].lead = rv[t].lead
    BY <1>1, <2>1, Moved DEF PCs
  <2>3. RTypeOK' BY <2>1, <2>2 DEF RInv, RTypeOK, RvType
  <2>4. released'[B] = released[B] + 1 /\ released[B] \in Nat
    BY <2>1 DEF RInv, RTypeOK
  <2>5. Round'
    <3>1. ASSUME NEW u \in Threads, u # t
          PROVE  Placed(rv'[u], step'[B][u], released'[B], u)
      <4>1. Placed(rv[u], step[B][u], released[B], u) BY DEF RInv, Round
      <4> QED BY <1>3, <2>1, <2>2, <2>4, <3>1, <4>1 DEF Placed
    <3>2. Placed(rv'[t], step'[B][t], released'[B], t)
      BY <1>3, <2>1, <2>2, <2>4 DEF Placed
    <3> QED BY <3>1, <3>2 DEF Round
  <2>6. Present' = {} BY <1>3, <2>1, <2>4 DEF Present
  <2>7. arrived'[B] = 0 BY <1>8, <2>1 DEF RInv, Counted, In
  <2>8. Counted' BY <2>6, <2>7, FS_EmptySet DEF Counted
  <2>9. \A u \in Threads : rv'[u].pc \in {"wait", "out"} BY <1>3, <2>2
  <2>10. master'[B] = released'[B] BY <1>3, <2>1, <2>4
  <2>11. Told' BY <2>4, <2>9, <2>10 DEF Told, In
  <2> QED BY <2>3, <2>5, <2>8, <2>11 DEF RInv
<1> QED BY <1>2, <1>7, <1>8

(* organize_pool: no thread is in a rendezvous, and all start at zero. *)
LEMMA OrganizeInv == ASSUME Setting, RInv, Organize PROVE RInv'
<1> USE DEF Setting
<1>1. \A t \in Threads : rv[t].pc = "out" BY DEF Organize, In
<1>2. /\ arrived'[B] = 0 /\ master'[B] = 0 /\ released'[B] = 0 /\ rv' = rv
      /\ \A t \in Threads : step'[B][t] = 0
  BY DEF Organize, RInv, RTypeOK
<1>3. RTypeOK'
  <2>1. [t \in Threads |-> 0] \in [Threads -> Nat] OBVIOUS
  <2> QED BY <2>1 DEF Organize, RInv, RTypeOK
<1>4. Round' BY <1>1, <1>2 DEF Round, Placed
<1>5. Present' = {} BY <1>2 DEF Present
<1>6. Counted' BY <1>2, <1>5, FS_EmptySet DEF Counted
<1>7. Told' BY <1>1, <1>2 DEF Told, In
<1> QED BY <1>3, <1>4, <1>6, <1>7 DEF RInv

LEMMA RNextInv == ASSUME Setting, RInv, [RNext]_barrierVars PROVE RInv'
<1>1. CASE UNCHANGED barrierVars
  BY <1>1 DEF barrierVars, RInv, RTypeOK, Round, Counted, Told, Present, In
<1>2. CASE Organize BY <1>2, OrganizeInv
<1>3. CASE \E t \in Threads : Call(t) \/ CallRelease(t) \/ BarrierStep(t)
  BY <1>3, CallInv, CallReleaseInv, ArriveInv, TellMasterInv, WaitInv, ReleaseInv
     DEF BarrierStep
<1> QED BY <1>1, <1>2, <1>3 DEF RNext

LEMMA RInvLeaderIsAlone == ASSUME Setting, RInv PROVE LeaderIsAlone
<1> SUFFICES ASSUME NEW t \in Threads, rv[t].pc \in {"lead", "release"}
             PROVE  Cardinality(Waiting(t)) = rv[t].size - 1
  BY DEF LeaderIsAlone
<1>1. /\ rv[t].b = B /\ rv[t].size = N
      /\ \A u \in Threads : step[B][u] = released[B] + 1
      /\ \A u \in Threads \ {t} : rv[u].pc = "wait" /\ rv[u].b = B
  BY AllWait
<1>2. Waiting(t) = Threads \ {t} BY <1>1 DEF Waiting, In
<1>3. Cardinality(Threads \ {t}) = Cardinality(Threads) - 1
  BY FS_RemoveElement DEF Setting
<1> QED BY <1>1, <1>2, <1>3 DEF N

(* The rendezvous of any finite number of threads, in every round and with *)
(* a leader per round: from the return of the leader's call to its release *)
(* all other threads wait in that round, also when the next round starts   *)
(* while threads of the last one still leave.                              *)
THEOREM RendezvousLeaderIsAlone ==
    ASSUME IsFiniteSet(Threads), Cardinality(Threads) > 1, B \in Barriers,
           Source \in [Nat -> Threads]
    PROVE  RSpec => []LeaderIsAlone
<1>1. Setting BY DEF Setting, N
<1>2. RInit => RInv BY <1>1, RInitInv
<1>3. RInv /\ [RNext]_barrierVars => RInv' BY <1>1, RNextInv
<1>4. RInv => LeaderIsAlone BY <1>1, RInvLeaderIsAlone
<1> QED BY <1>2, <1>3, <1>4, PTL DEF RSpec
=============================================================================
