------------------------ MODULE ChaseLevDequeProofs ------------------------
(***************************************************************************)
(* ChaseLevDeque for any number of thieves, any capacity and any number of *)
(* pushes: no item is lost, overwritten or handed out twice.               *)
(***************************************************************************)
EXTENDS ChaseLevDeque, SequenceTheorems, TLAPS

ownerPCs == {"idle", "push_store", "push_publish", "pop_top", "pop_cas", "pop_restore"}
thiefPCs == {"idle", "steal_bottom", "steal_item", "steal_cas"}

DequeTypeOK ==
    /\ m_top \in Nat /\ m_bottom \in Int
    /\ m_array \in [0..(Size - 1) -> Items \cup {Null}]
    /\ opc \in ownerPCs /\ ob \in Int /\ ot \in Int /\ oval \in Items \cup {Null}
    /\ tpc \in [Thieves -> thiefPCs]
    /\ tt \in [Thieves -> Nat] /\ tval \in [Thieves -> Items \cup {Null}]
    /\ pushed \in Nat /\ pushed <= MaxPush
    /\ taken \in [Items -> {0, 1}]

(* The indices never cross, and span no more than the buffer; inside a     *)
(* call the owner knows where they are, up to the thieves' progress.       *)
Indices ==
    /\ m_top <= Bottom /\ Bottom - m_top <= Size
    /\ opc # "idle" => ob = m_bottom
    /\ opc \in {"push_store", "push_publish"} => ob - m_top <= Size - 1
    /\ opc = "push_store" => pushed < MaxPush
    /\ opc = "pop_cas" => ot = ob /\ ot <= m_top
    /\ opc = "pop_restore" => m_top = Bottom

(* What the buffer holds at k, for k in the live part, is an item that was *)
(* pushed and not yet returned, and each is there once.                    *)
At(k) == m_array[Slot(k)]

Live ==
    /\ \A k \in Int : m_top <= k /\ k < Bottom =>
          At(k) \in Items /\ At(k) <= pushed /\ taken[At(k)] = 0
    /\ \A j, k \in Int : m_top <= j /\ j < k /\ k < Bottom => At(j) # At(k)

Publishing ==
    opc = "push_publish" =>
       /\ pushed \in Items /\ At(ob) = pushed /\ taken[pushed] = 0
       /\ \A k \in Int : m_top <= k /\ k < Bottom => At(k) # pushed

(* What the owner and the thieves remember is right if their exchange of   *)
(* m_top is going to succeed.                                              *)
Guesses ==
    /\ opc = "pop_cas" /\ m_top = ot => oval = At(ob)
    /\ \A p \in Thieves :
          /\ tpc[p] # "idle" => tt[p] <= m_top
          /\ tpc[p] \in {"steal_item", "steal_cas"} /\ tt[p] = m_top => m_top < Bottom
          /\ tpc[p] = "steal_cas" /\ tt[p] = m_top => tval[p] = At(m_top)

Unpushed == \A i \in Items : i > pushed => taken[i] = 0

DequeInv ==
    /\ DequeTypeOK /\ Indices /\ Live /\ Publishing /\ Guesses /\ Unpushed /\ NothingIsLost

-----------------------------------------------------------------------------
(* Two indices that are less than the capacity apart have different slots. *)
LEMMA SlotsDiffer ==
    ASSUME NEW a \in Nat, NEW b \in Nat, a < b, b - a < Size
    PROVE  Slot(a) # Slot(b)
<1> USE SizeAssumption
<1>1. a = Size * (a \div Size) + (a % Size) /\ a \div Size \in Int OBVIOUS
<1>2. b = Size * (b \div Size) + (b % Size) /\ b \div Size \in Int OBVIOUS
<1> DEFINE d == (b \div Size) - (a \div Size)
<1>3. SUFFICES ASSUME a % Size = b % Size PROVE FALSE BY DEF Slot
<1>4. d \in Int BY <1>1, <1>2
<1>5. b - a = Size * d BY <1>1, <1>2, <1>3
<1> HIDE DEF d
<1>6. d <= 0 => Size * d <= 0 BY <1>4
<1>7. d >= 1 => Size * d >= Size BY <1>4
<1> QED BY <1>4, <1>5, <1>6, <1>7

LEMMA SlotType == ASSUME NEW a \in Nat PROVE Slot(a) \in 0..(Size - 1)
BY SizeAssumption DEF Slot

LEMMA DequeInit == ASSUME Init PROVE DequeInv
<1> USE SizeAssumption
<1>1. Bottom = 0 BY DEF Init, Bottom
<1>2. DequeTypeOK BY DEF Init, DequeTypeOK, ownerPCs, thiefPCs
<1>3. Indices BY <1>1 DEF Init, Indices
<1>4. Live BY <1>1 DEF Init, Live
<1>5. Publishing /\ Guesses /\ Unpushed BY DEF Init, Publishing, Guesses, Unpushed
<1>6. NothingIsLost BY DEF Init, NothingIsLost
<1> QED BY <1>2, <1>3, <1>4, <1>5, <1>6 DEF DequeInv

(* An item that nobody was given is given to somebody. *)
LEMMA Handed ==
    ASSUME DequeTypeOK, NEW i \in Items, taken[i] = 0, Hand(i)
    PROVE  /\ taken' \in [Items -> {0, 1}] /\ taken'[i] = 1
           /\ \A j \in Items : j # i => taken'[j] = taken[j]
<1>1. taken' = [taken EXCEPT ![i] = 1] BY DEF Hand, DequeTypeOK
<1> QED BY <1>1 DEF DequeTypeOK

(* Steps that change neither the deque nor what was pushed or returned:    *)
(* what they have to keep is what the owner and the thieves know.          *)
LEMMA OnlyLocals ==
    ASSUME DequeInv, UNCHANGED <<m_top, m_array, pushed, taken>>, Bottom' = Bottom,
           DequeTypeOK', Indices', Guesses', opc # "push_publish", opc' # "push_publish"
    PROVE  DequeInv'
<1>1. \A k : At(k)' = At(k) BY DEF At
<1>2. Live' BY <1>1 DEF DequeInv, Live
<1>3. Publishing' BY DEF Publishing
<1>4. Unpushed' BY DEF DequeInv, Unpushed
<1>5. NothingIsLost' BY <1>1 DEF DequeInv, NothingIsLost, At
<1> QED BY <1>2, <1>3, <1>4, <1>5 DEF DequeInv

LEMMA PushStartInv == ASSUME DequeInv, PushStart PROVE DequeInv'
<1> USE SizeAssumption
<1>1. Bottom = m_bottom /\ Bottom' = m_bottom BY DEF PushStart, Bottom
<1>2. DequeTypeOK' BY DEF DequeInv, DequeTypeOK, PushStart, thiefVars, ownerPCs
<1>3. Indices' BY <1>1 DEF DequeInv, DequeTypeOK, Indices, PushStart
<1>4. Guesses' BY <1>1 DEF DequeInv, Guesses, PushStart, thiefVars, At
<1> QED BY <1>1, <1>2, <1>3, <1>4, OnlyLocals DEF PushStart

(* A push writes a slot outside the live part. *)
LEMMA PushStoreInv == ASSUME DequeInv, PushStore PROVE DequeInv'
<1> USE SizeAssumption
<1>1. /\ Bottom = m_bottom /\ Bottom' = Bottom /\ ob = m_bottom /\ ob \in Nat
      /\ m_top \in Nat /\ ob - m_top <= Size - 1 /\ m_top <= ob
      /\ pushed \in Nat /\ pushed + 1 \in Items
  BY DEF PushStore, Bottom, DequeInv, Indices, DequeTypeOK, Items
<1>2. Slot(ob) \in 0..(Size - 1) BY <1>1, SlotType
<1>3. DequeTypeOK'
  BY <1>1, <1>2 DEF DequeInv, DequeTypeOK, PushStore, thiefVars, ownerPCs, Items
<1>4. At(ob)' = pushed + 1 BY <1>2 DEF At, PushStore, DequeInv, DequeTypeOK
<1>5. ASSUME NEW k \in Int, m_top <= k, k < Bottom PROVE At(k)' = At(k)
  <2>1. k \in Nat /\ k < ob /\ ob - k < Size BY <1>1, <1>5
  <2>2. Slot(k) # Slot(ob) BY <1>1, <2>1, SlotsDiffer
  <2>3. Slot(k) \in 0..(Size - 1) BY <2>1, SlotType
  <2> QED BY <1>2, <2>2, <2>3 DEF At, PushStore, DequeInv, DequeTypeOK
<1>6. UNCHANGED <<m_top, taken, tpc, tt, tval>> /\ pushed' = pushed + 1
      /\ ob' = ob /\ m_bottom' = m_bottom /\ opc = "push_store" /\ opc' = "push_publish"
  BY DEF PushStore, thiefVars
<1>7. Indices' BY <1>1, <1>6 DEF DequeInv, Indices
<1>8. Live' BY <1>1, <1>5, <1>6 DEF DequeInv, Live, Items
<1>9. Publishing'
  <2>1. taken[pushed + 1] = 0 BY <1>1 DEF DequeInv, Unpushed
  <2>2. \A k \in Int : m_top <= k /\ k < Bottom => At(k)' # pushed + 1
    BY <1>1, <1>5 DEF DequeInv, Live, Items
  <2> QED BY <1>1, <1>4, <1>6, <2>1, <2>2 DEF Publishing, At
<1>10. Guesses' BY <1>1, <1>5, <1>6 DEF DequeInv, Guesses
<1>11. Unpushed' BY <1>1, <1>6 DEF DequeInv, Unpushed, Items
<1>12. NothingIsLost'
  <2> SUFFICES ASSUME NEW i \in 1..(pushed + 1)
               PROVE  \/ taken[i] = 1
                      \/ \E k \in m_top..(Bottom - 1) : At(k)' = i
                      \/ i = pushed + 1 /\ At(ob)' = i
    BY <1>1, <1>6 DEF NothingIsLost, At
  <2>1. CASE i = pushed + 1 BY <1>4, <2>1
  <2>2. CASE i # pushed + 1
    <3>1. i \in 1..pushed BY <1>1, <2>2
    <3>2. taken[i] = 1 \/ \E k \in m_top..(Bottom - 1) : At(k) = i
      BY <1>6, <3>1 DEF DequeInv, NothingIsLost, At
    <3>3. \A k \in m_top..(Bottom - 1) : At(k)' = At(k) BY <1>1, <1>5
    <3> QED BY <3>2, <3>3
  <2> QED BY <2>1, <2>2
<1> QED BY <1>3, <1>7, <1>8, <1>9, <1>10, <1>11, <1>12 DEF DequeInv

LEMMA PushPublishInv == ASSUME DequeInv, PushPublish PROVE DequeInv'
<1> USE SizeAssumption
<1>1. /\ Bottom = m_bottom /\ Bottom' = Bottom + 1 /\ ob = m_bottom
      /\ ob - m_top <= Size - 1 /\ m_top <= ob /\ m_top \in Nat /\ ob \in Int
      /\ pushed \in Nat /\ pushed \in Items /\ At(ob) = pushed /\ taken[pushed] = 0
      /\ opc' = "idle" /\ m_bottom' = m_bottom + 1
  BY DEF PushPublish, OwnerReturn, Bottom, DequeInv, Indices, DequeTypeOK, Publishing
<1>2. UNCHANGED <<m_top, m_array, tpc, tt, tval, pushed, taken>>
  BY DEF PushPublish, thiefVars
<1>3. \A k : At(k)' = At(k) BY <1>2 DEF At
<1>4. DequeTypeOK' BY <1>1, <1>2 DEF DequeInv, DequeTypeOK, PushPublish, OwnerReturn, ownerPCs
<1>5. Indices' BY <1>1, <1>2 DEF Indices
<1>6. Live' BY <1>1, <1>2, <1>3 DEF DequeInv, Live, Publishing, PushPublish
<1>7. Publishing' BY <1>1 DEF Publishing
<1>8. Guesses' BY <1>1, <1>2, <1>3 DEF DequeInv, Guesses
<1>9. Unpushed' BY <1>2 DEF DequeInv, Unpushed
<1>10. NothingIsLost'
  <2> SUFFICES ASSUME NEW i \in 1..pushed
               PROVE  taken[i] = 1 \/ \E k \in m_top..Bottom : At(k) = i
    BY <1>1, <1>2 DEF NothingIsLost, At
  <2>1. \/ taken[i] = 1
        \/ \E k \in m_top..(Bottom - 1) : At(k) = i
        \/ At(ob) = i
    BY DEF DequeInv, NothingIsLost, At
  <2> QED BY <1>1, <2>1
<1> QED BY <1>4, <1>5, <1>6, <1>7, <1>8, <1>9, <1>10 DEF DequeInv

LEMMA PopReserveInv == ASSUME DequeInv, PopReserve PROVE DequeInv'
<1> USE SizeAssumption
<1>1. Bottom = m_bottom /\ Bottom' = Bottom
  BY DEF PopReserve, Bottom, DequeInv, DequeTypeOK
<1>2. DequeTypeOK' BY DEF DequeInv, DequeTypeOK, PopReserve, thiefVars, ownerPCs
<1>3. Indices' BY <1>1 DEF DequeInv, Indices, PopReserve
<1>4. Guesses' BY <1>1 DEF DequeInv, Guesses, PopReserve, thiefVars, At
<1> QED BY <1>1, <1>2, <1>3, <1>4, OnlyLocals DEF PopReserve

LEMMA PopRestoreInv == ASSUME DequeInv, PopRestore PROVE DequeInv'
<1> USE SizeAssumption
<1>1. Bottom' = Bottom /\ opc' = "idle"
  BY DEF PopRestore, OwnerReturn, Bottom, DequeInv, DequeTypeOK, Indices
<1>2. DequeTypeOK' BY DEF DequeInv, DequeTypeOK, PopRestore, OwnerReturn, thiefVars, ownerPCs
<1>3. Indices' BY <1>1 DEF DequeInv, Indices, PopRestore
<1>4. Guesses' BY <1>1 DEF DequeInv, Guesses, PopRestore, thiefVars, At
<1> QED BY <1>1, <1>2, <1>3, <1>4, OnlyLocals DEF PopRestore

(* pop reads m_top: below the reserved slot the item is the owner's, at it *)
(* the exchange is to decide, and above it there is none.                  *)
LEMMA PopReadTopInv == ASSUME DequeInv, PopReadTop PROVE DequeInv'
<1> USE SizeAssumption
<1>1. /\ Bottom = m_bottom + 1 /\ ob = m_bottom /\ m_bottom \in Int /\ m_top \in Nat
      /\ m_top <= Bottom /\ Bottom - m_top <= Size /\ DequeTypeOK
  BY DEF PopReadTop, Bottom, DequeInv, DequeTypeOK, Indices
<1>2. UNCHANGED <<m_top, m_bottom, m_array, tpc, tt, tval, pushed>>
  BY DEF PopReadTop, thiefVars
<1>3. \A k : At(k)' = At(k) BY <1>2 DEF At
<1>4. CASE m_top < ob
  <2>1. Hand(At(ob)) /\ OwnerReturn BY <1>1, <1>4 DEF PopReadTop, At
  <2>2. At(ob) \in Items /\ taken[At(ob)] = 0 BY <1>1, <1>4 DEF DequeInv, Live
  <2>3. /\ taken' \in [Items -> {0, 1}] /\ taken'[At(ob)] = 1
        /\ \A j \in Items : j # At(ob) => taken'[j] = taken[j]
    BY <1>1, <2>1, <2>2, Handed
  <2>4. Bottom' = ob /\ opc' = "idle" BY <1>1, <1>2, <2>1 DEF Bottom, OwnerReturn
  <2>5. DequeTypeOK' BY <1>2, <2>1, <2>3 DEF DequeInv, DequeTypeOK, OwnerReturn, ownerPCs
  <2>6. Indices' BY <1>1, <1>2, <1>4, <2>4 DEF Indices
  <2>7. \A k \in Int : m_top <= k /\ k < ob => At(k) # At(ob) BY <1>1 DEF DequeInv, Live
  <2>8. Live' BY <1>1, <1>2, <1>3, <2>3, <2>4, <2>7 DEF DequeInv, Live
  <2>9. Publishing' BY <2>4 DEF Publishing
  <2>10. Guesses' BY <1>1, <1>2, <1>3, <1>4, <2>4 DEF DequeInv, Guesses
  <2>11. At(ob) <= pushed BY <1>1, <1>4 DEF DequeInv, Live
  <2>12. Unpushed' BY <1>1, <1>2, <2>2, <2>3, <2>11 DEF DequeInv, Unpushed, DequeTypeOK, Items
  <2>13. NothingIsLost'
    <3> SUFFICES ASSUME NEW i \in 1..pushed
                 PROVE  taken'[i] = 1 \/ \E k \in m_top..(ob - 1) : At(k) = i
      BY <1>2, <2>4 DEF NothingIsLost, At
    <3>1. i \in Items BY <1>1 DEF DequeTypeOK, Items
    <3>2. taken[i] = 1 \/ \E k \in m_top..(Bottom - 1) : At(k) = i
      BY DEF DequeInv, NothingIsLost, At, PopReadTop
    <3>3. CASE i = At(ob) BY <2>3, <3>3
    <3>4. CASE i # At(ob) BY <1>1, <2>3, <3>1, <3>2, <3>4
    <3> QED BY <3>3, <3>4
  <2> QED BY <2>5, <2>6, <2>8, <2>9, <2>10, <2>12, <2>13 DEF DequeInv
<1>5. CASE m_top = ob
  <2>1. /\ oval' = At(ob) /\ ot' = m_top /\ opc' = "pop_cas" /\ ob' = ob /\ taken' = taken
        /\ opc = "pop_top"
    BY <1>1, <1>5 DEF PopReadTop, At
  <2>2. Bottom' = Bottom BY <1>1, <1>2, <2>1 DEF Bottom
  <2>3. At(ob) \in Items BY <1>1, <1>5 DEF DequeInv, Live
  <2>4. DequeTypeOK' BY <1>1, <1>2, <2>1, <2>3 DEF DequeTypeOK, ownerPCs
  <2>5. Indices' BY <1>1, <1>2, <1>5, <2>1, <2>2 DEF Indices
  <2>6. Guesses' BY <1>2, <1>3, <2>1, <2>2 DEF DequeInv, Guesses
  <2> QED BY <1>2, <2>1, <2>2, <2>4, <2>5, <2>6, OnlyLocals
<1>6. CASE m_top > ob
  <2>1. /\ ot' = m_top /\ opc' = "pop_restore" /\ ob' = ob /\ oval' = oval /\ taken' = taken
        /\ opc = "pop_top"
    BY <1>1, <1>6 DEF PopReadTop
  <2>2. Bottom' = Bottom BY <1>1, <1>2, <2>1 DEF Bottom
  <2>3. DequeTypeOK' BY <1>1, <1>2, <2>1 DEF DequeTypeOK, ownerPCs
  <2>4. Indices' BY <1>1, <1>2, <1>6, <2>1, <2>2 DEF Indices
  <2>5. Guesses' BY <1>2, <1>3, <2>1, <2>2 DEF DequeInv, Guesses
  <2> QED BY <1>2, <2>1, <2>2, <2>3, <2>4, <2>5, OnlyLocals
<1> QED BY <1>1, <1>4, <1>5, <1>6

(* An exchange of m_top succeeds, and hands out the item that was there. *)
LEMMA TopTaken ==
    ASSUME DequeInv, m_top < Bottom, Bottom \in Int, Hand(At(m_top)), m_top' = m_top + 1,
           UNCHANGED <<m_array, pushed, ob>>, Bottom' = Bottom,
           (opc = "push_publish") <=> (opc' = "push_publish")
    PROVE  /\ Live' /\ Publishing' /\ Unpushed' /\ NothingIsLost'
           /\ taken' \in [Items -> {0, 1}]
<1>1. m_top \in Nat /\ pushed \in Nat /\ pushed <= MaxPush /\ DequeTypeOK BY DEF DequeInv, DequeTypeOK
<1>2. At(m_top) \in Items /\ At(m_top) <= pushed /\ taken[At(m_top)] = 0
  BY <1>1 DEF DequeInv, Live
<1>3. /\ taken' \in [Items -> {0, 1}] /\ taken'[At(m_top)] = 1
      /\ \A j \in Items : j # At(m_top) => taken'[j] = taken[j]
  BY <1>1, <1>2, Handed
<1>4. \A k : m_array'[Slot(k)] = At(k) BY DEF At
<1>5. \A k \in Int : m_top < k /\ k < Bottom => At(k) # At(m_top)
  BY <1>1 DEF DequeInv, Live
<1>6. Live' BY <1>1, <1>3, <1>4, <1>5 DEF DequeInv, Live, At
<1>7. Publishing' BY <1>1, <1>3, <1>4 DEF DequeInv, Publishing, At
<1>8. Unpushed' BY <1>1, <1>2, <1>3 DEF DequeInv, Unpushed, Items
<1>9. NothingIsLost'
  <2> SUFFICES ASSUME NEW i \in 1..pushed
               PROVE  \/ taken'[i] = 1
                      \/ \E k \in (m_top + 1)..(Bottom - 1) : At(k) = i
                      \/ opc = "push_publish" /\ i = pushed /\ At(ob) = i
    BY <1>4 DEF NothingIsLost
  <2>1. i \in Items BY <1>1, SizeAssumption DEF Items
  <2>2. \/ taken[i] = 1
        \/ \E k \in m_top..(Bottom - 1) : At(k) = i
        \/ opc = "push_publish" /\ i = pushed /\ At(ob) = i
    BY DEF DequeInv, NothingIsLost, At
  <2>3. CASE i = At(m_top) BY <1>3, <2>3
  <2>4. CASE i # At(m_top) BY <1>1, <1>3, <2>1, <2>2, <2>4
  <2> QED BY <2>3, <2>4
<1> QED BY <1>3, <1>6, <1>7, <1>8, <1>9

LEMMA PopCASInv == ASSUME DequeInv, PopCAS PROVE DequeInv'
<1> USE SizeAssumption
<1>1. /\ Bottom = m_bottom + 1 /\ ob = m_bottom /\ m_bottom \in Int /\ m_top \in Nat
      /\ m_top <= Bottom /\ ot = ob /\ ot <= m_top /\ DequeTypeOK /\ Bottom - m_top <= Size
  BY DEF PopCAS, Bottom, DequeInv, DequeTypeOK, Indices
<1>2. UNCHANGED <<m_bottom, m_array, ob, ot, oval, tpc, tt, tval, pushed>>
      /\ opc = "pop_cas" /\ opc' = "pop_restore"
  BY DEF PopCAS, thiefVars
<1>3. Bottom' = Bottom BY <1>1, <1>2 DEF Bottom
<1>4. CASE m_top = ot
  <2>1. Hand(At(m_top)) /\ m_top' = m_top + 1
    BY <1>1, <1>2, <1>4 DEF PopCAS, DequeInv, Guesses
  <2>2. /\ Live' /\ Publishing' /\ Unpushed' /\ NothingIsLost'
        /\ taken' \in [Items -> {0, 1}]
    BY <1>1, <1>2, <1>3, <1>4, <2>1, TopTaken
  <2>3. DequeTypeOK' BY <1>1, <1>2, <2>1, <2>2 DEF DequeTypeOK, ownerPCs
  <2>4. Indices' BY <1>1, <1>2, <1>3, <1>4, <2>1 DEF Indices
  <2>5. Guesses' BY <1>1, <1>2, <2>1 DEF DequeInv, Guesses, DequeTypeOK
  <2> QED BY <2>2, <2>3, <2>4, <2>5 DEF DequeInv
<1>5. CASE m_top # ot
  <2>1. m_top' = m_top /\ taken' = taken BY <1>5 DEF PopCAS
  <2>2. DequeTypeOK' BY <1>1, <1>2, <2>1 DEF DequeTypeOK, ownerPCs
  <2>3. Indices' BY <1>1, <1>2, <1>3, <1>5, <2>1 DEF Indices
  <2>4. Guesses' BY <1>2, <1>3, <2>1 DEF DequeInv, Guesses, At
  <2> QED BY <1>2, <1>3, <2>1, <2>2, <2>3, <2>4, OnlyLocals
<1> QED BY <1>4, <1>5

(* The steps of a thief up to its exchange only change what it remembers. *)
LEMMA ThiefLocals ==
    ASSUME DequeInv, UNCHANGED <<m_top, m_bottom, m_array, opc, ob, ot, oval, pushed, taken>>,
           tpc' \in [Thieves -> thiefPCs], tt' \in [Thieves -> Nat],
           tval' \in [Thieves -> Items \cup {Null}], Guesses'
    PROVE  DequeInv'
<1>1. Bottom' = Bottom BY DEF Bottom
<1>2. \A k : At(k)' = At(k) BY DEF At
<1>3. DequeTypeOK' BY DEF DequeInv, DequeTypeOK
<1>4. Indices' BY <1>1 DEF DequeInv, Indices
<1>5. Live' BY <1>1, <1>2 DEF DequeInv, Live
<1>6. Publishing' BY <1>1, <1>2 DEF DequeInv, Publishing
<1>7. Unpushed' BY DEF DequeInv, Unpushed
<1>8. NothingIsLost' BY <1>1 DEF DequeInv, NothingIsLost
<1> QED BY <1>3, <1>4, <1>5, <1>6, <1>7, <1>8 DEF DequeInv

LEMMA StealReadTopInv == ASSUME DequeInv, NEW p \in Thieves, StealReadTop(p) PROVE DequeInv'
<1>1. UNCHANGED <<m_top, m_bottom, m_array, opc, ob, ot, oval, pushed, taken>>
  BY DEF StealReadTop, ownerVars
<1>2. Bottom' = Bottom /\ \A k : At(k)' = At(k) BY <1>1 DEF Bottom, At
<1>3. tpc' \in [Thieves -> thiefPCs] /\ tt' \in [Thieves -> Nat] /\ tval' = tval
  BY DEF StealReadTop, DequeInv, DequeTypeOK, thiefPCs
<1>4. Guesses' BY <1>1, <1>2 DEF DequeInv, DequeTypeOK, Guesses, StealReadTop
<1> QED BY <1>1, <1>3, <1>4, ThiefLocals DEF DequeInv, DequeTypeOK

LEMMA StealReadBottomInv ==
    ASSUME DequeInv, NEW p \in Thieves, StealReadBottom(p) PROVE DequeInv'
<1>1. UNCHANGED <<m_top, m_bottom, m_array, opc, ob, ot, oval, pushed, taken>>
  BY DEF StealReadBottom, ownerVars
<1>2. Bottom' = Bottom /\ \A k : At(k)' = At(k) BY <1>1 DEF Bottom, At
<1>3. /\ tpc \in [Thieves -> thiefPCs] /\ tt \in [Thieves -> Nat]
      /\ tval \in [Thieves -> Items \cup {Null}]
  BY DEF DequeInv, DequeTypeOK
<1>4. m_bottom <= Bottom /\ m_bottom \in Int /\ Bottom \in Int /\ m_top \in Nat
  BY DEF Bottom, DequeInv, DequeTypeOK
<1>5. /\ tpc' \in [Thieves -> thiefPCs] /\ tt' \in [Thieves -> Nat]
      /\ tval' \in [Thieves -> Items \cup {Null}]
      /\ \A r \in Thieves \ {p} : tpc'[r] = tpc[r] /\ tt'[r] = tt[r] /\ tval'[r] = tval[r]
      /\ \/ tpc'[p] = "idle"
         \/ tpc'[p] = "steal_item" /\ tt'[p] = tt[p] /\ tt[p] < m_bottom
      /\ tpc[p] = "steal_bottom"
  <2>1. CASE tt[p] < m_bottom
    <3>1. tpc' = [tpc EXCEPT ![p] = "steal_item"] /\ tt' = tt /\ tval' = tval
      BY <1>3, <1>4, <2>1 DEF StealReadBottom
    <3>2. tpc[p] = "steal_bottom" BY DEF StealReadBottom
    <3> QED BY <1>3, <2>1, <3>1, <3>2 DEF thiefPCs
  <2>2. CASE ~(tt[p] < m_bottom)
    <3>1. /\ tpc' = [tpc EXCEPT ![p] = "idle"] /\ tt' = [tt EXCEPT ![p] = 0]
          /\ tval' = [tval EXCEPT ![p] = Null]
      BY <2>2 DEF StealReadBottom, ThiefReturn
    <3>2. tpc[p] = "steal_bottom" BY DEF StealReadBottom
    <3> QED BY <1>3, <3>1, <3>2 DEF thiefPCs
  <2> QED BY <2>1, <2>2
<1>6. Guesses'
  <2>1. ASSUME NEW r \in Thieves
        PROVE  /\ tpc'[r] # "idle" => tt'[r] <= m_top
               /\ tpc'[r] \in {"steal_item", "steal_cas"} /\ tt'[r] = m_top => m_top < Bottom
               /\ tpc'[r] = "steal_cas" /\ tt'[r] = m_top => tval'[r] = At(m_top)
    <3>1. CASE r = p BY <1>3, <1>4, <1>5, <3>1 DEF DequeInv, Guesses
    <3>2. CASE r # p BY <1>5, <3>2 DEF DequeInv, Guesses
    <3> QED BY <3>1, <3>2
  <2> QED BY <1>1, <1>2, <2>1 DEF DequeInv, Guesses
<1> QED BY <1>1, <1>5, <1>6, ThiefLocals

LEMMA StealReadItemInv ==
    ASSUME DequeInv, NEW p \in Thieves, StealReadItem(p) PROVE DequeInv'
<1>1. UNCHANGED <<m_top, m_bottom, m_array, opc, ob, ot, oval, pushed, taken>>
  BY DEF StealReadItem, ownerVars
<1>2. Bottom' = Bottom /\ \A k : At(k)' = At(k) BY <1>1 DEF Bottom, At
<1>3. tt[p] \in Nat /\ Slot(tt[p]) \in 0..(Size - 1) BY SlotType DEF DequeInv, DequeTypeOK
<1>4. /\ tpc' \in [Thieves -> thiefPCs] /\ tt' = tt
      /\ tval' \in [Thieves -> Items \cup {Null}]
  BY <1>3 DEF StealReadItem, DequeInv, DequeTypeOK, thiefPCs
<1>5. Guesses' BY <1>1, <1>2 DEF DequeInv, DequeTypeOK, Guesses, StealReadItem, At
<1> QED BY <1>1, <1>4, <1>5, ThiefLocals DEF DequeInv, DequeTypeOK

LEMMA StealCASInv == ASSUME DequeInv, NEW p \in Thieves, StealCAS(p) PROVE DequeInv'
<1> USE SizeAssumption
<1>1. UNCHANGED <<m_bottom, m_array, opc, ob, ot, oval, pushed>> /\ tpc[p] = "steal_cas"
  BY DEF StealCAS, ownerVars
<1>2. Bottom' = Bottom /\ Bottom \in Int /\ m_top \in Nat
  BY <1>1 DEF Bottom, DequeInv, DequeTypeOK
<1>3. /\ tpc' \in [Thieves -> thiefPCs] /\ tt' \in [Thieves -> Nat]
      /\ tval' \in [Thieves -> Items \cup {Null}]
      /\ tpc'[p] = "idle"
      /\ \A r \in Thieves \ {p} : tpc'[r] = tpc[r] /\ tt'[r] = tt[r] /\ tval'[r] = tval[r]
  BY DEF StealCAS, ThiefReturn, DequeInv, DequeTypeOK, thiefPCs
<1>4. CASE m_top = tt[p]
  <2>1. m_top < Bottom /\ Hand(At(m_top)) /\ m_top' = m_top + 1
    BY <1>1, <1>4 DEF StealCAS, DequeInv, Guesses
  <2>2. /\ Live' /\ Publishing' /\ Unpushed' /\ NothingIsLost'
        /\ taken' \in [Items -> {0, 1}]
    BY <1>1, <1>2, <2>1, TopTaken
  <2>3. DequeTypeOK' BY <1>1, <1>2, <1>3, <2>1, <2>2 DEF DequeInv, DequeTypeOK
  <2>4. Indices' BY <1>1, <1>2, <2>1 DEF DequeInv, Indices, DequeTypeOK
  <2>5. Guesses'
    <3>1. \A r \in Thieves : tpc'[r] # "idle" => tt'[r] <= m_top /\ tt'[r] \in Nat
      BY <1>3 DEF DequeInv, Guesses
    <3>2. ~(opc' = "pop_cas" /\ m_top' = ot')
      BY <1>1, <1>2, <2>1 DEF DequeInv, Indices, DequeTypeOK
    <3>3. \A r \in Thieves : tpc'[r] # "idle" => tt'[r] <= m_top' /\ tt'[r] # m_top'
      BY <1>2, <2>1, <3>1
    <3> QED BY <3>2, <3>3 DEF Guesses
  <2> QED BY <2>2, <2>3, <2>4, <2>5 DEF DequeInv
<1>5. CASE m_top # tt[p]
  <2>1. m_top' = m_top /\ taken' = taken BY <1>5 DEF StealCAS
  <2>2. Guesses' BY <1>1, <1>2, <1>3, <2>1 DEF DequeInv, Guesses, At
  <2> QED BY <1>1, <1>3, <2>1, <2>2, ThiefLocals
<1> QED BY <1>4, <1>5

LEMMA DequeNext == ASSUME DequeInv, [Next]_vars PROVE DequeInv'
<1>1. CASE UNCHANGED vars \/ PushFull
  <2>1. UNCHANGED <<m_top, m_bottom, m_array, opc, ob, ot, oval, tpc, tt, tval, pushed, taken>>
    BY <1>1 DEF vars, PushFull, ownerVars, thiefVars
  <2>2. Guesses' BY <2>1 DEF DequeInv, Guesses, Bottom, At
  <2> QED BY <2>1, <2>2, ThiefLocals DEF DequeInv, DequeTypeOK
<1>2. CASE PushStart \/ PopReserve \/ OwnerStep
  BY <1>2, PushStartInv, PopReserveInv, PushStoreInv, PushPublishInv, PopReadTopInv,
     PopCASInv, PopRestoreInv DEF OwnerStep
<1>3. CASE \E p \in Thieves : StealReadTop(p) \/ StealStep(p)
  BY <1>3, StealReadTopInv, StealReadBottomInv, StealReadItemInv, StealCASInv DEF StealStep
<1> QED BY <1>1, <1>2, <1>3 DEF Next

(* The Chase-Lev deque of any capacity, with any number of thieves: every  *)
(* item that push accepted is in the live part of the buffer until it is   *)
(* returned, and it is returned at most once, however the owner's pop and  *)
(* the thieves' steals overlap.                                            *)
THEOREM DequeLosesNothing == Spec => []NothingIsLost
<1>1. DequeInv => NothingIsLost BY DEF DequeInv
<1> QED BY <1>1, DequeInit, DequeNext, PTL DEF Spec

-----------------------------------------------------------------------------
Word == Items \cup {Null}

(* A function on an initial segment of the integers is a sequence. *)
LEMMA FunctionIsSeq ==
    ASSUME NEW S, NEW n \in Nat, NEW f \in [1..n -> S]
    PROVE  f \in Seq(S) /\ Len(f) = n
OBVIOUS

(* n entries of a buffer a from index t on; Contents is such a window. *)
Window(a, t, n) == [j \in 1..n |-> a[Slot(t + j - 1)]]

LEMMA WindowIsSeq ==
    ASSUME NEW a \in [0..(Size - 1) -> Word], NEW t \in Nat, NEW n \in Nat
    PROVE  /\ Window(a, t, n) \in Seq(Word) /\ Len(Window(a, t, n)) = n
           /\ \A j \in 1..n : Window(a, t, n)[j] = a[Slot(t + j - 1)]
           /\ \A j \in 1..n : a[Slot(t + j - 1)] \in Word
           /\ n = 0 <=> Window(a, t, n) = << >>
<1>1. \A j \in 1..n : a[Slot(t + j - 1)] \in Word
  <2> TAKE j \in 1..n
  <2>1. t + j - 1 \in Nat OBVIOUS
  <2> QED BY <2>1, SlotType
<1>2. /\ Window(a, t, n) \in [1..n -> Word]
      /\ \A j \in 1..n : Window(a, t, n)[j] = a[Slot(t + j - 1)]
  BY <1>1 DEF Window
<1>3. Window(a, t, n) \in Seq(Word) /\ Len(Window(a, t, n)) = n BY <1>2, FunctionIsSeq
<1>4. n = 0 <=> Window(a, t, n) = << >> BY <1>3, EmptySeq
<1> QED BY <1>1, <1>2, <1>3, <1>4

(* A push, a pop and a steal of the window. *)
LEMMA WindowGrows ==
    ASSUME NEW a \in [0..(Size - 1) -> Word], NEW t \in Nat, NEW n \in Nat
    PROVE  Window(a, t, n + 1) = Append(Window(a, t, n), a[Slot(t + n)])
<1> DEFINE w == Window(a, t, n)  v == Window(a, t, n + 1)
<1>1. w \in Seq(Word) /\ Len(w) = n /\ \A j \in 1..n : w[j] = a[Slot(t + j - 1)]
  BY WindowIsSeq, Zenon
<1>2. /\ v \in Seq(Word) /\ Len(v) = n + 1
      /\ \A j \in 1..(n + 1) : v[j] = a[Slot(t + j - 1)] /\ a[Slot(t + j - 1)] \in Word
  BY n + 1 \in Nat, WindowIsSeq, Zenon
<1> HIDE DEF w, v
<1>3. v[n + 1] = a[Slot(t + n)] /\ a[Slot(t + n)] \in Word
  <2>1. n + 1 \in 1..(n + 1) /\ t + (n + 1) - 1 = t + n OBVIOUS
  <2>2. v[n + 1] = a[Slot(t + (n + 1) - 1)] /\ a[Slot(t + (n + 1) - 1)] \in Word
    BY <1>2, <2>1
  <2> QED BY <2>1, <2>2
<1> DEFINE u == Append(w, a[Slot(t + n)])
<1>4. /\ u \in Seq(Word) /\ Len(u) = n + 1
      /\ u[n + 1] = a[Slot(t + n)] /\ \A i \in 1..n : u[i] = w[i]
  BY <1>1, <1>3, AppendProperties
<1> HIDE DEF u
<1>5. \A i \in 1..(n + 1) : u[i] = v[i] BY <1>1, <1>2, <1>3, <1>4
<1>6. u = v BY <1>2, <1>4, <1>5, SeqEqual
<1> QED BY <1>6 DEF u, v, w

LEMMA WindowPops ==
    ASSUME NEW a \in [0..(Size - 1) -> Word], NEW t \in Nat, NEW n \in Nat, n > 0
    PROVE  /\ Window(a, t, n) # << >> /\ Len(Window(a, t, n)) = n
           /\ Window(a, t, n)[n] = a[Slot(t + n - 1)]
           /\ Window(a, t, n - 1) = SubSeq(Window(a, t, n), 1, n - 1)
<1> DEFINE w == Window(a, t, n)  v == Window(a, t, n - 1)
<1>1. /\ w \in Seq(Word) /\ Len(w) = n /\ w # << >>
      /\ \A j \in 1..n : w[j] = a[Slot(t + j - 1)] /\ w[j] \in Word
  BY n # 0, WindowIsSeq, Zenon
<1>2. /\ v \in Seq(Word) /\ Len(v) = n - 1
      /\ \A j \in 1..(n - 1) : v[j] = a[Slot(t + j - 1)]
  BY n - 1 \in Nat, WindowIsSeq, Zenon
<1> HIDE DEF w, v
<1> DEFINE u == SubSeq(w, 1, n - 1)
<1>3. /\ u \in Seq(Word) /\ Len(u) = IF 1 <= n - 1 THEN (n - 1) - 1 + 1 ELSE 0
      /\ \A i \in 1..((n - 1) - 1 + 1) : u[i] = w[1 + i - 1]
  <2>1. \A i \in 1..(n - 1) : w[i] \in Word BY <1>1
  <2>2. 1 \in Int /\ n - 1 \in Int OBVIOUS
  <2> QED BY <2>1, <2>2, SubSeqProperties
<1> HIDE DEF u
<1>4. Len(u) = n - 1 /\ \A i \in 1..(n - 1) : u[i] = w[i] BY <1>3
<1>5. \A i \in 1..(n - 1) : u[i] = v[i] BY <1>1, <1>2, <1>4
<1>6. u = v BY <1>2, <1>3, <1>4, <1>5, SeqEqual
<1> QED BY <1>1, <1>6 DEF u, v, w

LEMMA WindowIsStolen ==
    ASSUME NEW a \in [0..(Size - 1) -> Word], NEW t \in Nat, NEW n \in Nat, n > 0
    PROVE  /\ Window(a, t, n) # << >> /\ Head(Window(a, t, n)) = a[Slot(t)]
           /\ Window(a, t + 1, n - 1) = Tail(Window(a, t, n))
<1> DEFINE w == Window(a, t, n)  v == Window(a, t + 1, n - 1)
<1>1. /\ w \in Seq(Word) /\ Len(w) = n /\ w # << >>
      /\ \A j \in 1..n : w[j] = a[Slot(t + j - 1)]
  BY n # 0, WindowIsSeq, Zenon
<1>2. /\ v \in Seq(Word) /\ Len(v) = n - 1
      /\ \A j \in 1..(n - 1) : v[j] = a[Slot((t + 1) + j - 1)]
  BY n - 1 \in Nat, t + 1 \in Nat, WindowIsSeq, Zenon
<1> HIDE DEF w, v
<1>3. /\ Tail(w) \in Seq(Word) /\ Len(Tail(w)) = n - 1
      /\ \A i \in 1..(n - 1) : Tail(w)[i] = w[i + 1]
  BY <1>1, HeadTailProperties
<1>4. \A i \in 1..(n - 1) : Tail(w)[i] = v[i]
  <2> TAKE i \in 1..(n - 1)
  <2>1. i + 1 \in 1..n /\ t + (i + 1) - 1 = (t + 1) + i - 1 OBVIOUS
  <2>2. w[i + 1] = a[Slot(t + (i + 1) - 1)] BY <1>1, <2>1
  <2> QED BY <1>2, <1>3, <2>1, <2>2
<1>5. Tail(w) = v BY <1>2, <1>3, <1>4, SeqEqual
<1>6. Head(w) = a[Slot(t)]
  <2>1. 1 \in 1..n /\ t + 1 - 1 = t OBVIOUS
  <2>2. w[1] = a[Slot(t + 1 - 1)] BY <1>1, <2>1
  <2> QED BY <1>1, <2>1, <2>2
<1> QED BY <1>1, <1>5, <1>6 DEF v, w

(* Whichever step changes neither the live part of the buffer nor what was *)
(* accepted, returned or answered is no step of the atomic deque.          *)
LEMMA DequeStutters ==
    ASSUME Bottom' = Bottom, m_top' = m_top, taken' = taken, result' = result,
           Accepted' = Accepted,
           \A j \in 1..(Bottom - m_top) : m_array'[Slot(m_top + j - 1)] = m_array[Slot(m_top + j - 1)]
    PROVE  UNCHANGED Deque!vars
<1>1. Contents' = Contents BY DEF Contents
<1> QED BY <1>1 DEF Deque!vars

LEMMA DequeSteps == ASSUME DequeInv, [Next]_vars PROVE [Deque!Next]_(Deque!vars)
<1> USE SizeAssumption
<1> DEFINE n == Bottom - m_top
<1>0. /\ m_array \in [0..(Size - 1) -> Word] /\ m_top \in Nat /\ n \in Nat /\ n <= Size
      /\ Bottom \in Int /\ m_bottom \in Int /\ pushed \in Nat /\ pushed <= MaxPush
  BY DEF DequeInv, DequeTypeOK, Indices, Word, Bottom
<1>1. Contents = Window(m_array, m_top, n) /\ Contents' = Window(m_array', m_top', Bottom' - m_top')
  BY DEF Contents, Window
<1>2. Len(Contents) = n /\ (n = 0 <=> Contents = << >>) BY <1>0, <1>1, WindowIsSeq, Zenon
<1> HIDE DEF n
<1>3. CASE UNCHANGED vars
  BY <1>3, DequeStutters DEF vars, Bottom, Accepted
<1>4. CASE PushStart \/ PopReserve \/ PopRestore
  <2>1. UNCHANGED <<m_top, m_array, pushed, taken, result>>
    BY <1>4 DEF PushStart, PopReserve, PopRestore
  <2>2. Bottom' = Bottom
    BY <1>4 DEF PushStart, PopReserve, PopRestore, OwnerReturn, Bottom, DequeInv, DequeTypeOK, Indices
  <2>3. Accepted' = Accepted
    BY <1>4 DEF PushStart, PopReserve, PopRestore, OwnerReturn, Accepted
  <2> QED BY <2>1, <2>2, <2>3, DequeStutters
<1>5. CASE PushFull
  <2>1. n = Size BY <1>0, <1>5 DEF PushFull, Bottom, n
  <2>2. UNCHANGED <<m_top, m_bottom, m_array, opc, pushed, taken>> /\ result' = "full"
    BY <1>5 DEF PushFull, ownerVars, Ends
  <2>3. Contents' = Contents /\ Accepted' = Accepted BY <2>2 DEF Contents, Accepted, Bottom
  <2>4. Deque!PushFull BY <1>2, <2>1, <2>2, <2>3 DEF Deque!PushFull
  <2> QED BY <2>4 DEF Deque!Next
<1>6. CASE PushStore
  <2>1. /\ Bottom' = Bottom /\ m_top' = m_top /\ taken' = taken /\ result' = result
        /\ Accepted' = Accepted /\ ob = m_bottom /\ Bottom = m_bottom
        /\ ob - m_top <= Size - 1 /\ m_top <= ob
    BY <1>0, <1>6 DEF PushStore, Bottom, Accepted, DequeInv, Indices
  <2>2. ASSUME NEW j \in 1..(Bottom - m_top)
        PROVE  m_array'[Slot(m_top + j - 1)] = m_array[Slot(m_top + j - 1)]
    <3>1. /\ m_top + j - 1 \in Nat /\ ob \in Nat /\ m_top + j - 1 < ob
          /\ ob - (m_top + j - 1) < Size
      BY <1>0, <2>1
    <3>2. Slot(m_top + j - 1) # Slot(ob) BY <3>1, SlotsDiffer
    <3>3. Slot(m_top + j - 1) \in 0..(Size - 1) BY <3>1, SlotType
    <3> QED BY <1>0, <1>6, <3>2, <3>3 DEF PushStore
  <2> QED BY <2>1, <2>2, DequeStutters
<1>7. CASE PushPublish
  <2>1. /\ m_top' = m_top /\ m_array' = m_array /\ pushed' = pushed /\ taken' = taken
        /\ result' = "pushed" /\ opc' = "idle" /\ opc = "push_publish" /\ m_bottom' = ob + 1
        /\ ob = m_bottom /\ ob - m_top <= Size - 1
    BY <1>7 DEF PushPublish, OwnerReturn, Ends, DequeInv, Indices
  <2>2. Bottom = m_bottom /\ Bottom' = m_bottom + 1 BY <2>1 DEF Bottom
  <2>3. Accepted = pushed - 1 /\ Accepted' = Accepted + 1 BY <1>0, <2>1 DEF Accepted
  <2>4. Bottom' - m_top' = n + 1 /\ m_top + n = ob BY <1>0, <2>1, <2>2 DEF n
  <2>5. m_array[Slot(ob)] = pushed BY <2>1 DEF DequeInv, Publishing, At
  <2>6. Window(m_array, m_top, n + 1) = Append(Window(m_array, m_top, n), m_array[Slot(m_top + n)])
    BY <1>0, WindowGrows, Zenon
  <2>7. Contents' = Append(Contents, Accepted + 1)
    <3>1. Contents' = Window(m_array, m_top, n + 1) BY <1>1, <2>1, <2>4
    <3>2. Accepted + 1 = m_array[Slot(m_top + n)] BY <1>0, <2>3, <2>4, <2>5
    <3> QED BY <1>1, <2>6, <3>1, <3>2
  <2>8. n < Size BY <1>0, <2>1, <2>2 DEF n
  <2>9. Accepted < MaxPush BY <1>0, <2>3
  <2>10. Deque!Push BY <1>2, <2>1, <2>3, <2>7, <2>8, <2>9 DEF Deque!Push
  <2> QED BY <2>10 DEF Deque!Next
<1>8. ASSUME m_top < Bottom, Hand(m_array[Slot(Bottom - 1)]), result' = "popped",
             m_array' = m_array, Accepted' = Accepted,
             \/ m_top' = m_top /\ Bottom' = Bottom - 1
             \/ m_top' = m_top + 1 /\ Bottom' = Bottom /\ m_top + 1 = Bottom
      PROVE  Deque!Pop
  <2>1. n > 0 /\ m_top + n - 1 = Bottom - 1 BY <1>0, <1>8 DEF n
  <2>2. /\ Contents # << >> /\ Contents[n] = m_array[Slot(m_top + n - 1)]
        /\ Window(m_array, m_top, n - 1) = SubSeq(Contents, 1, n - 1)
    BY <1>0, <1>1, <2>1, WindowPops, Zenon
  <2>3. Contents' = Window(m_array, m_top, n - 1)
    <3>1. CASE m_top' = m_top /\ Bottom' = Bottom - 1
      <4>1. Bottom' - m_top' = n - 1 BY <1>0, <3>1 DEF n
      <4> QED BY <1>1, <1>8, <3>1, <4>1
    <3>2. CASE m_top' = m_top + 1 /\ Bottom' = Bottom /\ m_top + 1 = Bottom
      <4>1. Bottom' - m_top' = 0 /\ n - 1 = 0 BY <1>0, <3>2 DEF n
      <4>2. /\ Window(m_array, m_top + 1, 0) = << >> /\ Window(m_array, m_top, 0) = << >>
        BY <1>0, 0 \in Nat, m_top + 1 \in Nat, WindowIsSeq, Zenon
      <4> QED BY <1>1, <1>8, <3>2, <4>1, <4>2
    <3> QED BY <1>8, <3>1, <3>2
  <2>4. Deque!Hand(Contents[Len(Contents)]) BY <1>2, <1>8, <2>1, <2>2 DEF Hand, Deque!Hand
  <2> QED BY <1>2, <1>8, <2>2, <2>3, <2>4 DEF Deque!Pop
<1>9. ASSUME m_top = Bottom, result' = "empty", m_array' = m_array, Accepted' = Accepted,
             m_top' = m_top, Bottom' = Bottom, taken' = taken
      PROVE  Deque!PopEmpty
  <2>1. Contents = << >> BY <1>0, <1>2, <1>9 DEF n
  <2>2. Contents' = Contents BY <1>9 DEF Contents
  <2> QED BY <1>9, <2>1, <2>2 DEF Deque!PopEmpty
<1>10. CASE PopReadTop
  <2>1. /\ Bottom = m_bottom + 1 /\ ob = m_bottom /\ m_top <= Bottom /\ opc = "pop_top"
        /\ UNCHANGED <<m_top, m_bottom, m_array, pushed>>
    BY <1>0, <1>10 DEF PopReadTop, Bottom, DequeInv, Indices
  <2>2. CASE m_top < ob
    <3>1. Hand(m_array[Slot(ob)]) /\ opc' = "idle" /\ result' = "popped"
      BY <1>0, <1>10, <2>1, <2>2 DEF PopReadTop, OwnerReturn, Ends
    <3>2. Bottom' = Bottom - 1 /\ Accepted' = Accepted /\ ob = Bottom - 1
      BY <1>0, <2>1, <3>1 DEF Bottom, Accepted
    <3>3. m_top < Bottom BY <1>0, <2>1, <2>2
    <3> QED BY <1>8, <2>1, <3>1, <3>2, <3>3 DEF Deque!Next
  <2>3. CASE m_top = ob
    <3>1. taken' = taken /\ result' = result /\ opc' = "pop_cas"
      BY <1>0, <1>10, <2>1, <2>3 DEF PopReadTop
    <3>2. Bottom' = Bottom /\ Accepted' = Accepted BY <2>1, <3>1 DEF Bottom, Accepted
    <3> QED BY <2>1, <3>1, <3>2, DequeStutters
  <2>4. CASE m_top > ob
    <3>1. taken' = taken /\ result' = "empty" /\ opc' = "pop_restore"
      BY <1>0, <1>10, <2>1, <2>4 DEF PopReadTop, Ends
    <3>2. Bottom' = Bottom /\ Accepted' = Accepted BY <2>1, <3>1 DEF Bottom, Accepted
    <3>3. m_top = Bottom BY <1>0, <2>1, <2>4
    <3> QED BY <1>9, <2>1, <3>1, <3>2, <3>3 DEF Deque!Next
  <2> QED BY <1>0, <2>1, <2>2, <2>3, <2>4
<1>11. CASE PopCAS
  <2>1. /\ Bottom = m_bottom + 1 /\ ob = m_bottom /\ m_top <= Bottom /\ ot = ob /\ ot <= m_top
        /\ opc = "pop_cas" /\ opc' = "pop_restore" /\ UNCHANGED <<m_bottom, m_array, pushed>>
    BY <1>0, <1>11 DEF PopCAS, Bottom, DequeInv, Indices
  <2>2. Bottom' = Bottom /\ Accepted' = Accepted BY <2>1 DEF Bottom, Accepted
  <2>3. CASE m_top = ot
    <3>1. m_top' = m_top + 1 /\ Hand(oval) /\ result' = "popped" BY <1>11, <2>3 DEF PopCAS, Ends
    <3>2. oval = m_array[Slot(ob)] BY <2>1, <2>3 DEF DequeInv, Guesses, At
    <3>3. ob = Bottom - 1 /\ m_top < Bottom /\ m_top + 1 = Bottom BY <1>0, <2>1, <2>3
    <3> QED BY <1>8, <2>1, <2>2, <3>1, <3>2, <3>3 DEF Deque!Next
  <2>4. CASE m_top # ot
    <3>1. m_top' = m_top /\ taken' = taken /\ result' = "empty" BY <1>11, <2>4 DEF PopCAS, Ends
    <3>2. m_top = Bottom BY <1>0, <2>1, <2>4
    <3> QED BY <1>9, <2>1, <2>2, <3>1, <3>2 DEF Deque!Next
  <2> QED BY <2>3, <2>4
<1>12. ASSUME NEW p \in Thieves, StealReadTop(p) \/ StealReadBottom(p) \/ StealReadItem(p)
       PROVE  UNCHANGED Deque!vars
  <2>1. UNCHANGED <<m_top, m_bottom, m_array, opc, pushed, taken, result>>
    BY <1>12 DEF StealReadTop, StealReadBottom, StealReadItem, ownerVars
  <2> QED BY <2>1, DequeStutters DEF Bottom, Accepted
<1>13. ASSUME NEW p \in Thieves, StealCAS(p) PROVE [Deque!Next]_(Deque!vars)
  <2>1. UNCHANGED <<m_bottom, m_array, opc, pushed, result>> BY <1>13 DEF StealCAS, ownerVars
  <2>2. Bottom' = Bottom /\ Accepted' = Accepted BY <2>1 DEF Bottom, Accepted
  <2>3. CASE m_top # tt[p]
    <3>1. m_top' = m_top /\ taken' = taken BY <1>13, <2>3 DEF StealCAS
    <3> QED BY <2>1, <2>2, <3>1, DequeStutters
  <2>4. CASE m_top = tt[p]
    <3>1. m_top' = m_top + 1 /\ Hand(tval[p]) /\ tpc[p] = "steal_cas" BY <1>13, <2>4 DEF StealCAS
    <3>2. m_top < Bottom /\ tval[p] = m_array[Slot(m_top)]
      BY <2>4, <3>1 DEF DequeInv, Guesses, At
    <3>3. n > 0 /\ Bottom' - m_top' = n - 1 BY <1>0, <2>2, <3>1, <3>2 DEF n
    <3>4. /\ Contents # << >> /\ Head(Contents) = m_array[Slot(m_top)]
          /\ Window(m_array, m_top + 1, n - 1) = Tail(Contents)
      BY <1>0, <1>1, <3>3, WindowIsStolen, Zenon
    <3>5. Contents' = Tail(Contents) BY <1>1, <2>1, <3>1, <3>3, <3>4
    <3>6. Deque!Steal BY <2>1, <2>2, <3>1, <3>2, <3>4, <3>5 DEF Deque!Steal, Hand, Deque!Hand
    <3> QED BY <3>6 DEF Deque!Next
  <2> QED BY <2>3, <2>4
<1> QED BY <1>3, <1>4, <1>5, <1>6, <1>7, <1>10, <1>11, <1>12, <1>13 DEF Next, OwnerStep, StealStep

(* The circular buffer with its two indices implements the atomic bounded  *)
(* deque of WorkStealingDeque, for any capacity and any number of thieves: *)
(* push, pop and steal take effect at one step each, in order, and a call  *)
(* that reports a full or an empty deque is right.                         *)
THEOREM DequeIsLinearizable == Spec => ImplementsDeque
<1>1. Init => Deque!Init
  <2> SUFFICES ASSUME Init PROVE Deque!Init OBVIOUS
  <2>1. Bottom - m_top = 0 /\ Accepted = 0 BY DEF Init, Bottom, Accepted
  <2>2. Contents = << >> BY <2>1 DEF Contents
  <2> QED BY <2>1, <2>2 DEF Init, Deque!Init, Items
<1>2. DequeInv /\ [Next]_vars => [Deque!Next]_(Deque!vars) BY DequeSteps
<1> QED BY <1>1, <1>2, DequeInit, DequeNext, PTL DEF Spec, ImplementsDeque, Deque!Spec
=============================================================================
