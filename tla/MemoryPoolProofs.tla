-------------------------- MODULE MemoryPoolProofs --------------------------
(***************************************************************************)
(* For every pool, every number of threads and every workload: the blocks  *)
(* that callers hold never overlap, the counts are those of the blocks,    *)
(* nullptr means that nothing fits, and no deallocate aborts.  The proof   *)
(* is one inductive invariant, IInv, of six parts.                         *)
(***************************************************************************)
EXTENDS MemoryPool, FiniteSetTheorems, TLAPS

(* Steps are proved by Zenon unless they name another prover. *)
USE ZenonT(20)

Pcs == {"idle", "null", "hint", "test", "count", "back_out", "set", "search", "empty", "claim",
        "update_hint", "release", "clear", "discount"}

ThreadState ==
    [pc : Pcs, k : Int, tic : Nat, attempts : Int, sb : Int, expect : Int, old : Int,
     i : Nat, empty : Int, large : Int, larger : Int, bit : Nat, alone : BOOLEAN]

(* What the constructor makes of its arguments. *)
PoolOK ==
    /\ pool.m_sb_count \in Nat \ {0} /\ pool.m_sb_size_lg2 \in Nat
    /\ pool.m_min_block_size_lg2 \in Nat /\ pool.m_max_block_size_lg2 \in Nat
    /\ pool.m_min_block_size_lg2 <= pool.m_max_block_size_lg2
    /\ pool.m_max_block_size_lg2 <= pool.m_sb_size_lg2
    /\ pool.callers \subseteq Threads /\ pool.requests \subseteq Nat
    /\ pool.attempt_limit \in Nat \ {0}

TypeOK ==
    /\ PoolOK
    /\ state \in [Superblocks -> [header : BlockStates(pool), used : Nat]]
    /\ bits \in [Superblocks -> SUBSET Nat]
    /\ hint \in [BlockStates(pool) -> Superblocks]
    /\ self \in [Threads -> ThreadState]
    /\ live \subseteq [sb : Superblocks, d : Nat, size_lg2 : Nat, for : Nat]
    /\ calls \in Nat

(* What the locals of a thread hold: the size it wants; the superblock and *)
(* the state it expects there, of blocks as large or larger, and a bit of  *)
(* it; and the candidates that the search has met.                         *)
LocalsOK(me) ==
    /\ me.pc \notin {"idle", "release", "clear", "discount"} => me.k \in BlockStates(pool)
    /\ me.pc \notin {"idle", "null", "hint", "search"} => me.sb \in Superblocks
    /\ me.pc \in {"hint", "search"} => me.expect = me.k
    /\ me.pc \in {"test", "count", "back_out", "set"} => me.expect \in BlockStates(pool) /\ me.expect <= me.k
    /\ me.pc \in {"count", "set"} => me.bit < 2^me.expect
    /\ me.pc = "null" => me.empty = None /\ me.large = None
    /\ me.pc = "search" =>
          /\ me.i < pool.m_sb_count
          /\ me.empty \in Superblocks \cup {None}
          /\ me.large \in Superblocks \cup {None}
          /\ me.large # None => me.larger \in BlockStates(pool) /\ me.larger < me.k

Locals == \A t \in Threads : LocalsOK(self[t])

(* The threads at b that have counted and have no bit, or had it cleared.  *)
(* Those in back_out will not get one.                                     *)
Users(b, pcs) == {t \in Threads : self[t].sb = b /\ self[t].pc \in pcs}
Counting(b) == Users(b, {"back_out", "set", "discount"})
Claiming(b) == Users(b, {"set", "discount"})

(* The count of a superblock is that of its bits and of those threads.     *)
(* Bits never outnumber the blocks, also when all that may still be set    *)
(* are.                                                                    *)
Counts ==
    \A b \in Superblocks :
       /\ IsFiniteSet(bits[b])
       /\ \A x \in bits[b] : x < 2^state[b].header
       /\ state[b].used = Cardinality(bits[b]) + Cardinality(Counting(b))
       /\ Cardinality(bits[b]) + Cardinality(Claiming(b)) <= 2^state[b].header

(* The bit of a block, and the threads that are about to clear one. *)
BitOf(p) == p.d \div 2^p.size_lg2
Clearing == {t \in Threads : self[t].pc \in {"release", "clear"}}

(* A superblock has the state that its users expect. *)
Headers ==
    /\ \A p \in live : p.size_lg2 = pool.m_sb_size_lg2 - state[p.sb].header /\ p.for <= p.size_lg2
    /\ \A t \in Threads : self[t].pc \in {"set", "release", "clear"} => self[t].expect = state[self[t].sb].header

(* Each bit that is set is that of one block that a caller holds, or of a  *)
(* thread that is about to clear it.                                       *)
Bits ==
    /\ \A p \in live : BitOf(p) \in bits[p.sb] /\ p.d = BitOf(p) * 2^p.size_lg2
    /\ \A t \in Clearing : self[t].bit \in bits[self[t].sb]
    /\ \A p, q \in live : p.sb = q.sb /\ BitOf(p) = BitOf(q) => p = q
    /\ \A t, u \in Clearing : self[t].sb = self[u].sb /\ self[t].bit = self[u].bit => t = u
    /\ \A p \in live, t \in Clearing : p.sb = self[t].sb => BitOf(p) # self[t].bit
    /\ \A b \in Superblocks : \A x \in bits[b] :
          \/ \E p \in live : p.sb = b /\ BitOf(p) = x
          \/ \E t \in Clearing : self[t].sb = b /\ self[t].bit = x

(* The j-th candidate of the search for k. *)
Candidate(k, j) == (SbIdBegin(pool, k) + j) % pool.m_sb_count

(* A superblock that is neither empty nor has room for what me wants. *)
NoRoom(me, s) ==
    /\ me.empty = None => s.used > 0
    /\ me.empty = None /\ me.large = None /\ s.header <= me.k => s.used >= 2^s.header

(* A thread that has had the pool to itself since its call began has seen  *)
(* the superblocks as they are.                                            *)
Alone ==
    \A t \in Threads : self[t].alone =>
       /\ \A u \in Threads \ {t} : Rests(u)
       /\ self[t].pc = "search" => \A j \in 0..(self[t].i - 1) : NoRoom(self[t], state[Candidate(self[t].k, j)])
       /\ self[t].pc = "null" => \A b \in Superblocks : NoRoom(self[t], state[b])

IInv == TypeOK /\ Locals /\ Counts /\ Headers /\ Bits /\ Alone

-----------------------------------------------------------------------------
(* An interval of n numbers has 2^n subsets: what this proof knows of      *)
(* powers of two.                                                          *)
LEMMA SubsetsOfInterval ==
    ASSUME NEW a \in Nat, NEW n \in Nat, NEW S, S = (a + 1)..(a + n)
    PROVE  IsFiniteSet(SUBSET S) /\ Cardinality(SUBSET S) = 2^n
<1>1. a + 1 \in Int /\ a + n \in Int
  BY SMTT(20)
<1>2. IsFiniteSet(S) /\ Cardinality(S) = n
  BY <1>1, FS_Interval, SMTT(20)
<1> QED
  BY <1>2, FS_SUBSET

(* Powers of two are positive numbers. *)
LEMMA PowType ==
    ASSUME NEW n \in Nat
    PROVE  2^n \in Nat /\ n < 2^n /\ 2^n > 0
<1> PICK S : S = (0 + 1)..(0 + n)
  OBVIOUS
<1>1. IsFiniteSet(SUBSET S) /\ Cardinality(SUBSET S) = 2^n
  BY SubsetsOfInterval
<1>2. 2^n \in Nat
  BY <1>1, FS_CardinalityType
<1>3. PICK f : f = [x \in 0..n |-> IF x = 0 THEN {} ELSE {x}]
  OBVIOUS
<1>4. f \in Injection(0..n, SUBSET S)
  <2>1. f \in [0..n -> SUBSET S]
    BY <1>3, SMTT(20)
  <2>2. ASSUME NEW x \in 0..n, NEW y \in 0..n, f[x] = f[y] PROVE x = y
    BY <1>3, <2>2
  <2> QED
    BY <2>1, <2>2 DEF Injection, IsInjective
<1>5. Cardinality(0..n) <= 2^n
  BY <1>1, <1>4, FS_Injection, SMTT(20)
<1>6. Cardinality(0..n) = n + 1
  <2>1. 0 \in Int /\ n \in Int
    BY SMTT(20)
  <2> QED
    BY <2>1, FS_Interval, SMTT(20)
<1> QED
  BY <1>2, <1>5, <1>6, SMTT(20)

(* Powers of two multiply by adding the exponents: a superblock of 2^s     *)
(* bytes is 2^h blocks of 2^(s - h).                                       *)
LEMMA PowPlus ==
    ASSUME NEW m \in Nat, NEW n \in Nat
    PROVE  2^(m + n) = 2^m * 2^n
<1> PICK S, T, U : S = (0 + 1)..(0 + m) /\ T = (m + 1)..(m + n) /\ U = (0 + 1)..(0 + (m + n))
  OBVIOUS
<1>1. /\ IsFiniteSet(SUBSET S) /\ Cardinality(SUBSET S) = 2^m
      /\ IsFiniteSet(SUBSET T) /\ Cardinality(SUBSET T) = 2^n
      /\ IsFiniteSet(SUBSET U) /\ Cardinality(SUBSET U) = 2^(m + n)
  <2>1. IsFiniteSet(SUBSET S) /\ Cardinality(SUBSET S) = 2^m
    BY SubsetsOfInterval
  <2>2. IsFiniteSet(SUBSET T) /\ Cardinality(SUBSET T) = 2^n
    BY SubsetsOfInterval
  <2>3. IsFiniteSet(SUBSET U) /\ Cardinality(SUBSET U) = 2^(m + n)
    <3>1. m + n \in Nat
      BY SMTT(20)
    <3> QED
      BY <3>1, SubsetsOfInterval
  <2> QED
    BY <2>1, <2>2, <2>3
<1>2. S \cap T = {} /\ U = S \cup T
  BY SMTT(20)
<1>3. PICK f : f = [p \in (SUBSET S) \X (SUBSET T) |-> p[1] \cup p[2]]
  OBVIOUS
<1>4. f \in Bijection((SUBSET S) \X (SUBSET T), SUBSET U)
  <2>1. f \in [(SUBSET S) \X (SUBSET T) -> SUBSET U]
    BY <1>2, <1>3
  <2>2. ASSUME NEW p \in (SUBSET S) \X (SUBSET T), NEW q \in (SUBSET S) \X (SUBSET T), f[p] = f[q]
        PROVE  p = q
    <3>1. p[1] \cup p[2] = q[1] \cup q[2] /\ p[1] \subseteq S /\ q[1] \subseteq S /\ p[2] \subseteq T /\ q[2] \subseteq T
      BY <1>3, <2>2
    <3>2. p[1] = q[1] /\ p[2] = q[2]
      BY <1>2, <3>1
    <3> QED
      BY <3>2, SMTT(20)
  <2>3. ASSUME NEW V \in SUBSET U PROVE \E p \in (SUBSET S) \X (SUBSET T) : f[p] = V
    <3>1. PICK p : p = <<V \cap S, V \cap T>>
      OBVIOUS
    <3>2. p \in (SUBSET S) \X (SUBSET T) /\ p[1] \cup p[2] = V
      BY <1>2, <3>1
    <3> QED
      BY <1>3, <3>2
  <2>4. f \in Injection((SUBSET S) \X (SUBSET T), SUBSET U)
    BY <2>1, <2>2 DEF Injection, IsInjective
  <2>5. f \in Surjection((SUBSET S) \X (SUBSET T), SUBSET U)
    BY <2>1, <2>3 DEF Surjection
  <2> QED
    BY <2>4, <2>5 DEF Bijection
<1>5. /\ IsFiniteSet((SUBSET S) \X (SUBSET T))
      /\ Cardinality((SUBSET S) \X (SUBSET T)) = 2^m * 2^n
  BY <1>1, FS_Product, SMTT(20)
<1>6. Cardinality(SUBSET U) = Cardinality((SUBSET S) \X (SUBSET T))
  BY <1>4, <1>5, FS_Bijection DEF ExistsBijection
<1> QED
  BY <1>1, <1>5, <1>6

(* A larger exponent gives a power that is no smaller. *)
LEMMA PowMonotonic ==
    ASSUME NEW m \in Nat, NEW n \in Nat, m <= n
    PROVE  2^m <= 2^n
<1>1. n - m \in Nat /\ m + (n - m) = n
  BY SMTT(20)
<1>2. 2^n = 2^m * 2^(n - m)
  BY <1>1, PowPlus
<1>3. PICK x, y \in Nat : x = 2^m /\ y = 2^(n - m) /\ y > 0
  BY <1>1, PowType
<1>4. x <= x * y
  BY <1>3, SMTT(20)
<1> QED
  BY <1>2, <1>3, <1>4

-----------------------------------------------------------------------------
(* A set of numbers that is not empty has a least one. *)
LEMMA Least ==
    ASSUME NEW T, T \subseteq Nat, T # {}
    PROVE  \E x \in T : \A y \in T : x <= y
<1>1. PICK R : R = {ss \in Nat \X Nat : ss[1] < ss[2]} /\ IsWellFoundedOn(R, Nat)
  BY NatLessThanWellFounded DEF OpToRel
<1>2. PICK x \in T : \A y \in T : ~(<<y, x>> \in R)
  BY <1>1, WFMin
<1>3. ASSUME NEW y \in T PROVE x <= y
  <2>1. x \in Nat /\ y \in Nat /\ <<y, x>> \notin R
    BY <1>2
  <2>2. R = {ss \in Nat \X Nat : ss[1] < ss[2]}
    BY <1>1
  <2>3. ~(y < x)
    BY <2>1, <2>2
  <2> QED
    BY <2>1, <2>3, SMTT(20)
<1> QED
  BY <1>3

(* integral_power_of_two_that_contains(n) is the least exponent whose      *)
(* power is not below n.                                                   *)
LEMMA PowerThatContains ==
    ASSUME NEW n \in Nat, NEW i, i = integral_power_of_two_that_contains(n)
    PROVE  i \in Nat /\ n <= 2^i /\ \A j \in Nat : n <= 2^j => i <= j
<1>1. \E x \in 0..n : n <= 2^x /\ \A j \in 0..(x - 1) : 2^j < n
  <2>1. PICK T : T = {x \in Nat : n <= 2^x}
    OBVIOUS
  <2>2. n \in T
    BY <2>1, PowType, SMTT(20)
  <2>3. PICK x \in T : \A y \in T : x <= y
    BY <2>1, <2>2, Least
  <2>4. x \in 0..n /\ n <= 2^x
    BY <2>1, <2>2, <2>3, SMTT(20)
  <2>5. ASSUME NEW j \in 0..(x - 1) PROVE 2^j < n
    <3>1. j \in Nat /\ j \notin T
      BY <2>3, <2>4, SMTT(20)
    <3> QED
      BY <2>1, <3>1, PowType, SMTT(20)
  <2> QED
    BY <2>4, <2>5
<1>2. i \in 0..n /\ n <= 2^i /\ \A j \in 0..(i - 1) : 2^j < n
  BY <1>1 DEF integral_power_of_two_that_contains
<1>3. ASSUME NEW j \in Nat, n <= 2^j PROVE i <= j
  <2>1. j \notin 0..(i - 1)
    BY <1>2, <1>3, PowType, SMTT(20)
  <2> QED
    BY <1>2, <2>1, SMTT(20)
<1> QED
  BY <1>2, <1>3, SMTT(20)

(* The share (i * c) \div m of the i-th of m sizes is one of c             *)
(* superblocks.                                                            *)
LEMMA DivBelow ==
    ASSUME NEW i \in Nat, NEW m \in Nat \ {0}, NEW c \in Nat \ {0}, i < m
    PROVE  (i * c) \div m \in 0..(c - 1)
<1>1. PICK q : q = (i * c) \div m
  OBVIOUS
<1>2. i * c \in Nat /\ q \in Int /\ m * q <= i * c /\ i * c < m * q + m
  BY <1>1, SMTT(20)
<1>3. i * c < m * c
  BY SMTT(20)
<1>4. m * q < m * c
  BY <1>2, <1>3, SMTT(20)
<1>5. q < c
  BY <1>2, <1>4, SMTT(20)
<1>6. q >= 0
  BY <1>2, SMTT(20)
<1> QED
  BY <1>1, <1>2, <1>5, <1>6, SMTT(20)

(* A block_state is the logarithm of a number of blocks that a superblock  *)
(* can be divided into, and its search begins at a superblock.             *)
LEMMA StateFacts ==
    ASSUME PoolOK, NEW k \in BlockStates(pool)
    PROVE  /\ k \in Nat /\ k <= pool.m_sb_size_lg2 /\ pool.m_sb_size_lg2 - k \in Nat
           /\ 2^k \in Nat /\ 2^k > 0
           /\ SbIdBegin(pool, k) \in Superblocks
<1>1. k \in Nat /\ k <= pool.m_sb_size_lg2 /\ pool.m_sb_size_lg2 - k \in Nat
  BY SMTT(20) DEF PoolOK, BlockStates
<1>2. PICK m, i : /\ m = 1 + pool.m_max_block_size_lg2 - pool.m_min_block_size_lg2
                  /\ i = pool.m_sb_size_lg2 - k - pool.m_min_block_size_lg2
  OBVIOUS
<1>3. i \in Nat /\ m \in Nat \ {0} /\ i < m
  BY <1>2, SMTT(20) DEF PoolOK, BlockStates
<1>4. SbIdBegin(pool, k) = (i * pool.m_sb_count) \div m
  BY <1>2 DEF SbIdBegin
<1> QED
  BY <1>1, <1>3, <1>4, PowType, DivBelow DEF PoolOK, Superblocks

(* The block_state that the constructor assigns a superblock to is one of  *)
(* the pool.                                                               *)
LEMMA AssignedIsState ==
    ASSUME PoolOK, NEW b \in Superblocks
    PROVE  Assigned(pool, b) \in BlockStates(pool)
<1>1. PICK lo, hi \in Nat : /\ lo = pool.m_sb_size_lg2 - pool.m_max_block_size_lg2
                           /\ hi = pool.m_sb_size_lg2 - pool.m_min_block_size_lg2
                           /\ lo <= hi /\ BlockStates(pool) = lo..hi
  BY SMTT(20) DEF PoolOK, BlockStates
<1>2. PICK T : T = {k \in lo..hi : SbIdBegin(pool, k) <= b}
  OBVIOUS
<1>3. hi \in T
  <2>1. pool.m_sb_size_lg2 - hi - pool.m_min_block_size_lg2 = 0
    BY <1>1, SMTT(20) DEF PoolOK
  <2>2. PICK m \in Nat \ {0} : m = 1 + pool.m_max_block_size_lg2 - pool.m_min_block_size_lg2
    BY SMTT(20) DEF PoolOK
  <2>3. SbIdBegin(pool, hi) = (0 * pool.m_sb_count) \div m
    BY <2>1, <2>2 DEF SbIdBegin
  <2>4. SbIdBegin(pool, hi) = 0
    BY <2>2, <2>3, SMTT(20) DEF PoolOK
  <2>5. b \in Nat
    BY SMTT(20) DEF PoolOK, Superblocks
  <2> QED
    BY <1>1, <1>2, <2>4, <2>5, SMTT(20)
<1>4. T \subseteq Nat /\ T # {}
  BY <1>1, <1>2, <1>3, SMTT(20)
<1>5. PICK k \in T : \A x \in T : k <= x
  BY <1>4, Least
<1>6. k \in BlockStates(pool) /\ SbIdBegin(pool, k) <= b
  BY <1>1, <1>2, <1>5
<1>7. k = lo \/ b < SbIdBegin(pool, k - 1)
  <2> SUFFICES ASSUME k # lo PROVE b < SbIdBegin(pool, k - 1)
    OBVIOUS
  <2>1. k - 1 \in lo..hi /\ ~(k <= k - 1)
    BY <1>1, <1>2, <1>5, SMTT(20)
  <2>2. ~(SbIdBegin(pool, k - 1) <= b)
    BY <1>2, <1>5, <2>1
  <2>3. SbIdBegin(pool, k - 1) \in Int /\ b \in Int
    BY <1>1, <2>1, StateFacts, SMTT(20) DEF Superblocks, PoolOK
  <2> QED
    BY <2>2, <2>3, SMTT(20)
<1>8. \E x \in BlockStates(pool) :
         /\ SbIdBegin(pool, x) <= b
         /\ x = pool.m_sb_size_lg2 - pool.m_max_block_size_lg2 \/ b < SbIdBegin(pool, x - 1)
  BY <1>1, <1>6, <1>7
<1> QED
  BY <1>8 DEF Assigned

-----------------------------------------------------------------------------
(* The x-th block of size z lies within a superblock of size n. *)
Fits(x, z, n) ==
    /\ z \in Nat \ {0} /\ x * z \in Nat /\ x * z + z <= n
    /\ (x * z) \div z = x /\ (x * z) % z = 0

(* Each of the 2^h blocks of a superblock lies within it, and deallocate   *)
(* finds its bit from its address.                                         *)
LEMMA BlockFits ==
    ASSUME NEW s \in Nat, NEW h \in Nat, h <= s, NEW x \in Nat, x < 2^h
    PROVE  Fits(x, 2^(s - h), 2^s)
<1>0. PICK z : z = 2^(s - h)
  OBVIOUS
<1>1. s - h \in Nat /\ h + (s - h) = s
  BY SMTT(20)
<1>2. z \in Nat \ {0} /\ 2^h \in Nat
  BY <1>0, <1>1, PowType, SMTT(20)
<1>3. 2^s = 2^h * z
  BY <1>0, <1>1, PowPlus
<1>4. (x + 1) * z <= 2^h * z
  BY <1>2, SMTT(20)
<1>5. (x + 1) * z = x * z + z
  BY <1>2, SMTT(20)
<1>6. PICK q, r : q = (x * z) \div z /\ r = (x * z) % z
  OBVIOUS
<1>7. q \in Int /\ r \in 0..(z - 1) /\ x * z = z * q + r
  BY <1>2, <1>6, SMTT(20)
<1>8. z * (x - q) = r
  BY <1>2, <1>7, SMTT(20)
<1>9. x = q /\ r = 0
  <2>1. CASE x > q
    <3>1. z * (x - q) >= z
      BY <1>2, <1>7, <2>1, SMTT(20)
    <3> QED
      BY <1>2, <1>7, <1>8, <3>1, SMTT(20)
  <2>2. CASE x < q
    <3>1. z * (x - q) < 0
      BY <1>2, <1>7, <2>2, SMTT(20)
    <3> QED
      BY <1>2, <1>7, <1>8, <3>1, SMTT(20)
  <2> QED
    BY <1>2, <1>7, <1>8, <2>1, <2>2, SMTT(20)
<1>10. /\ z \in Nat \ {0} /\ x * z \in Nat /\ x * z + z <= 2^s
       /\ (x * z) \div z = x /\ (x * z) % z = 0
  BY <1>2, <1>3, <1>4, <1>5, <1>6, <1>9, SMTT(20)
<1>11. Fits(x, z, 2^s)
  BY <1>10 DEF Fits
<1> QED
  BY <1>0, <1>11

(* Two blocks of one size that have different bits share no byte. *)
LEMMA BlocksApart ==
    ASSUME NEW x \in Nat, NEW y \in Nat, x # y, NEW z \in Nat \ {0},
           NEW d \in (x * z)..(x * z + z - 1)
    PROVE  d \notin (y * z)..(y * z + z - 1)
<1>1. CASE x < y
  <2>1. (x + 1) * z <= y * z /\ (x + 1) * z = x * z + z
    BY <1>1, SMTT(20)
  <2> QED
    BY <2>1, SMTT(20)
<1>2. CASE y < x
  <2>1. (y + 1) * z <= x * z /\ (y + 1) * z = y * z + z
    BY <1>2, SMTT(20)
  <2> QED
    BY <2>1, SMTT(20)
<1> QED
  BY <1>1, <1>2, SMTT(20)

(* Fewer than 2^h bits leave one of 2^h free. *)
LEMMA FreeBit ==
    ASSUME NEW h \in Nat, NEW S, S \subseteq Nat, IsFiniteSet(S), Cardinality(S) < 2^h
    PROVE  \E x \in Nat : x < 2^h /\ x \notin S
<1> SUFFICES ASSUME \A x \in Nat : x < 2^h => x \in S PROVE FALSE
  OBVIOUS
<1>1. 2^h \in Nat /\ 2^h > 0
  BY PowType
<1>2. 0..(2^h - 1) \in SUBSET S
  BY <1>1, SMTT(20)
<1>3. Cardinality(0..(2^h - 1)) <= Cardinality(S)
  BY <1>2, FS_Subset
<1>4. Cardinality(0..(2^h - 1)) = 2^h
  <2>1. PICK m : m = 2^h - 1 /\ m \in Nat /\ m \in Int /\ 0 \in Int
    BY <1>1, SMTT(20)
  <2> QED
    BY <1>1, <2>1, FS_Interval, SMTT(20)
<1>5. Cardinality(S) \in Nat
  BY FS_CardinalityType
<1> QED
  BY <1>1, <1>3, <1>4, <1>5, SMTT(20)

(* Min is the least element. *)
LEMMA LeastIsMin ==
    ASSUME NEW S, S \subseteq Nat, S # {}
    PROVE  Min(S) \in S /\ \A x \in S : Min(S) <= x
BY Least DEF Min

(* A thread whose bit is taken goes on to another bit of the same          *)
(* superblock, if a bit is free at all: the first zero of the word, which  *)
(* lies in range also when the superblock has fewer blocks than a word has *)
(* bits, or a place in the next word.                                      *)
LEMMA NextBitInRange ==
    ASSUME NEW h \in Nat, NEW bit \in Nat, bit < 2^h, NEW taken, taken \subseteq Nat, IsFiniteSet(taken),
           Cardinality(taken) < 2^h
    PROVE  NextBit(taken, bit, h) \in Nat /\ NextBit(taken, bit, h) < 2^h
<1>1. PICK j \in Nat : BitsPerInt = 2^j
  BY BitsAssumption, SMTT(20)
<1>2. PICK B \in Nat \ {0} : B = BitsPerInt
  BY <1>1, PowType, SMTT(20)
<1>3. PICK N \in Nat \ {0} : N = 2^h
  BY PowType, SMTT(20)
<1>4. PICK word, r : word = bit \div B /\ r = bit % B
  OBVIOUS
<1>5. word \in Nat /\ r \in 0..(B - 1) /\ bit = B * word + r
  BY <1>2, <1>4, SMTT(20)
<1>6. PICK zero : zero = {x \in 0..(B - 1) : word * B + x \notin taken}
  OBVIOUS
<1>7. PICK count : count = N \div B
  OBVIOUS
<1>8. NextBit(taken, bit, h) = IF zero # {} THEN word * B + Min(zero)
                               ELSE (IF word + 1 < count THEN (word + 1) * B ELSE 0) + r
  BY <1>2, <1>3, <1>4, <1>6, <1>7 DEF NextBit
<1>9. zero # {} => Min(zero) \in zero /\ \A x \in zero : Min(zero) <= x
  <2>1. zero \subseteq Nat
    BY <1>2, <1>6, SMTT(20)
  <2> QED
    BY <2>1, LeastIsMin
<1>10. CASE j <= h
  <2>1. PICK c \in Nat \ {0} : N = B * c
    <3>1. h - j \in Nat /\ j + (h - j) = h
      BY <1>10, SMTT(20)
    <3>2. 2^h = 2^j * 2^(h - j)
      BY <3>1, PowPlus
    <3> QED
      BY <1>1, <1>2, <1>3, <3>1, <3>2, PowType, SMTT(20)
  <2>2. count = c
    <3>1. count \in Int /\ N = B * count + (N % B) /\ N % B \in 0..(B - 1)
      BY <1>2, <1>3, <1>7, SMTT(20)
    <3>2. B * (c - count) = N % B
      BY <1>2, <2>1, <3>1, SMTT(20)
    <3>3. ~(c > count)
      <4>1. c > count => B * (c - count) >= B
        BY <1>2, <2>1, <3>1, SMTT(20)
      <4> QED
        BY <1>2, <3>1, <3>2, <4>1, SMTT(20)
    <3>4. ~(c < count)
      <4>1. c < count => B * (c - count) < 0
        BY <1>2, <2>1, <3>1, SMTT(20)
      <4> QED
        BY <1>2, <3>1, <3>2, <4>1, SMTT(20)
    <3> QED
      BY <2>1, <3>1, <3>3, <3>4, SMTT(20)
  <2>3. word < c
    <3>1. B * word < B * c
      BY <1>2, <1>3, <1>5, <2>1, SMTT(20)
    <3> QED
      BY <1>2, <1>5, <2>1, <3>1, SMTT(20)
  <2>4. (word + 1) * B <= N /\ (word + 1) * B = word * B + B /\ B <= N
    BY <1>2, <1>3, <1>5, <2>1, <2>3, SMTT(20)
  <2>5. CASE zero # {}
    <3>1. Min(zero) \in 0..(B - 1)
      BY <1>6, <1>9, <2>5
    <3>2. word * B \in Nat
      BY <1>2, <1>5, SMTT(20)
    <3> QED
      BY <1>2, <1>3, <1>8, <2>4, <2>5, <3>1, <3>2, SMTT(20)
  <2>6. CASE zero = {} /\ word + 1 < count
    <3>1. (word + 2) * B <= N /\ (word + 2) * B = (word + 1) * B + B
      BY <1>2, <1>3, <1>5, <2>1, <2>2, <2>6, SMTT(20)
    <3>2. (word + 1) * B \in Nat
      BY <1>2, <1>5, SMTT(20)
    <3> QED
      BY <1>2, <1>3, <1>5, <1>8, <2>6, <3>1, <3>2, SMTT(20)
  <2>7. CASE zero = {} /\ ~(word + 1 < count)
    BY <1>2, <1>3, <1>5, <1>8, <2>4, <2>7, SMTT(20)
  <2> QED
    BY <2>5, <2>6, <2>7
<1>11. CASE h < j
  <2>1. N <= B
    BY <1>1, <1>2, <1>3, <1>11, PowMonotonic, SMTT(20)
  <2>2. word = 0
    <3>1. word > 0 => B * word >= B
      BY <1>2, <1>5, SMTT(20)
    <3> QED
      BY <1>2, <1>3, <1>5, <2>1, <3>1, SMTT(20)
  <2>3. PICK x \in Nat : x < N /\ x \notin taken
    BY <1>3, FreeBit
  <2>4. x \in zero
    BY <1>2, <1>3, <1>6, <2>1, <2>2, <2>3, SMTT(20)
  <2>5. Min(zero) \in Nat /\ Min(zero) < N
    BY <1>2, <1>3, <1>6, <1>9, <2>3, <2>4, SMTT(20)
  <2> QED
    BY <1>2, <1>3, <1>8, <2>2, <2>4, <2>5, SMTT(20)
<1> QED
  BY <1>10, <1>11, SMTT(20)

(* The search visits superblocks, and all of them. *)
LEMMA Candidates ==
    ASSUME PoolOK, NEW k \in BlockStates(pool)
    PROVE  /\ \A j \in 0..(pool.m_sb_count - 1) : Candidate(k, j) \in Superblocks
           /\ \A b \in Superblocks : \E j \in 0..(pool.m_sb_count - 1) : Candidate(k, j) = b
<1>1. PICK c \in Nat \ {0} : c = pool.m_sb_count
  BY DEF PoolOK
<1>2. PICK s \in 0..(c - 1) : s = SbIdBegin(pool, k)
  BY <1>1, StateFacts DEF Superblocks
<1>3. \A j \in Nat : Candidate(k, j) = (s + j) % c
  BY <1>1, <1>2 DEF Candidate
<1>4. ASSUME NEW j \in 0..(c - 1) PROVE (s + j) % c \in 0..(c - 1)
  BY <1>1, <1>2, SMTT(20)
<1>5. ASSUME NEW b \in 0..(c - 1) PROVE \E j \in 0..(c - 1) : (s + j) % c = b
  <2>1. CASE s <= b
    <3>1. b - s \in 0..(c - 1) /\ s + (b - s) = b /\ b % c = b
      BY <1>1, <1>2, <2>1, SMTT(20)
    <3> QED
      BY <3>1
  <2>2. CASE b < s
    <3>1. (b - s) + c \in 0..(c - 1) /\ s + ((b - s) + c) = b + c /\ (b + c) % c = b
      BY <1>1, <1>2, <2>2, SMTT(20)
    <3> QED
      BY <3>1
  <2> QED
    BY <1>2, <2>1, <2>2, SMTT(20)
<1> QED
  BY <1>1, <1>3, <1>4, <1>5, SMTT(20) DEF Superblocks

-----------------------------------------------------------------------------
(* The other threads keep their place and their locals in a step of t.     *)
SameOthers(t) ==
    \A u \in Threads \ {t} :
       /\ self'[u].pc = self[u].pc /\ self'[u].k = self[u].k /\ self'[u].sb = self[u].sb
       /\ self'[u].expect = self[u].expect /\ self'[u].bit = self[u].bit /\ self'[u].i = self[u].i
       /\ self'[u].empty = self[u].empty /\ self'[u].large = self[u].large /\ self'[u].larger = self[u].larger

(* None is no superblock. *)
LEMMA NoneType ==
    None \in Int /\ None \notin Nat
BY SMTT(20) DEF None

(* A thread between calls. *)
LEMMA IdleType ==
    Idle \in ThreadState /\ Idle.pc = "idle" /\ Idle.alone = FALSE /\ Idle.empty = None /\ Idle.large = None
BY SMTT(20) DEF Idle, ThreadState, Pcs, None

(* A step of a call changes the thread that takes it and no other. *)
LEMMA GotoOthers ==
    ASSUME TypeOK, NEW t \in Threads, NEW r \in ThreadState, Goto(t, r)
    PROVE  /\ SameOthers(t) /\ self'[t] = r /\ self' \in [Threads -> ThreadState]
           /\ \A u \in Threads \ {t} : self'[u] = self[u]
BY DEF TypeOK, Goto, SameOthers

(* A call changes the caller; the other threads only cease to be alone. *)
LEMMA CallOthers ==
    ASSUME TypeOK, NEW t \in Threads, NEW r \in ThreadState, Call(t, r)
    PROVE  /\ SameOthers(t) /\ self'[t] = r /\ self' \in [Threads -> ThreadState]
           /\ \A u \in Threads \ {t} : self'[u].alone = FALSE
           /\ Rests(t) /\ calls' \in Nat
<1>1. /\ \A u \in Threads : self[u] \in ThreadState
      /\ self' = [u \in Threads |-> IF u = t THEN r ELSE [self[u] EXCEPT !.alone = FALSE]]
  BY DEF TypeOK, Call
<1>2. \A u \in Threads : self[u] \in ThreadState => [self[u] EXCEPT !.alone = FALSE] \in ThreadState
  BY DEF ThreadState
<1>3. self' \in [Threads -> ThreadState] /\ self'[t] = r
  BY <1>1, <1>2
<1>4. ASSUME NEW u \in Threads \ {t} PROVE self'[u] = [self[u] EXCEPT !.alone = FALSE] /\ self[u] \in ThreadState
  BY <1>1
<1>5. SameOthers(t) /\ \A u \in Threads \ {t} : self'[u].alone = FALSE
  <2>1. ASSUME NEW u \in Threads \ {t}
        PROVE  /\ self'[u].alone = FALSE
               /\ self'[u].pc = self[u].pc /\ self'[u].k = self[u].k /\ self'[u].sb = self[u].sb
               /\ self'[u].expect = self[u].expect /\ self'[u].bit = self[u].bit /\ self'[u].i = self[u].i
               /\ self'[u].empty = self[u].empty /\ self'[u].large = self[u].large
               /\ self'[u].larger = self[u].larger
    <3>1. self'[u] = [self[u] EXCEPT !.alone = FALSE] /\ self[u] \in ThreadState
      BY <1>4
    <3> HIDE <1>1, <1>2, <1>3
    <3> QED
      BY <3>1 DEF ThreadState
  <2> QED
    BY <2>1 DEF SameOthers
<1>6. Rests(t) /\ calls' \in Nat
  BY SMTT(20) DEF Call, TypeOK
<1> QED
  BY <1>3, <1>5, <1>6

(* The users of a superblock after a step of t. *)
LEMMA UsersAfter ==
    ASSUME NEW t \in Threads, SameOthers(t), NEW b, NEW pcs
    PROVE  Users(b, pcs)' = IF self'[t].sb = b /\ self'[t].pc \in pcs THEN Users(b, pcs) \cup {t}
                            ELSE Users(b, pcs) \ {t}
BY DEF Users, SameOthers

(* The users of a superblock are finitely many. *)
LEMMA UsersFinite ==
    ASSUME NEW b, NEW pcs
    PROVE  /\ IsFiniteSet(Users(b, pcs)) /\ Cardinality(Users(b, pcs)) \in Nat
           /\ (Cardinality(Users(b, pcs)) = 0 <=> Users(b, pcs) = {})
<1>1. Users(b, pcs) \in SUBSET Threads /\ IsFiniteSet(Threads)
  BY PoolsAssumption DEF Users
<1>2. IsFiniteSet(Users(b, pcs))
  BY <1>1, FS_Subset
<1> QED
  BY <1>2, FS_CardinalityType, FS_EmptySet

(* The locals of the other threads stay in order. *)
LEMMA LocalsAfter ==
    ASSUME TypeOK, Locals, NEW t \in Threads, SameOthers(t), pool' = pool, LocalsOK(self[t])'
    PROVE  Locals'
<1>1. ASSUME NEW u \in Threads \ {t} PROVE LocalsOK(self[u])'
  <2>1. LocalsOK(self[u])
    BY DEF Locals
  <2> QED
    BY <2>1 DEF SameOthers, LocalsOK, Superblocks
<1> QED
  BY <1>1 DEF Locals

(* The bits of the next state, of blocks L and the clearing threads C. *)
LEMMA BitsFrom ==
    ASSUME NEW L, NEW C, live' = L, Clearing' = C,
           \A p \in L : BitOf(p) \in bits'[p.sb] /\ p.d = BitOf(p) * 2^p.size_lg2,
           \A u \in C : self'[u].bit \in bits'[self'[u].sb],
           \A p, q \in L : p.sb = q.sb /\ BitOf(p) = BitOf(q) => p = q,
           \A u, v \in C : self'[u].sb = self'[v].sb /\ self'[u].bit = self'[v].bit => u = v,
           \A p \in L, u \in C : p.sb = self'[u].sb => BitOf(p) # self'[u].bit,
           \A b \in Superblocks' : \A x \in bits'[b] :
              \/ \E p \in L : p.sb = b /\ BitOf(p) = x
              \/ \E u \in C : self'[u].sb = b /\ self'[u].bit = x
    PROVE  Bits'
<1>1. (\A p \in live : BitOf(p) \in bits[p.sb] /\ p.d = BitOf(p) * 2^p.size_lg2)'
  BY DEF BitOf
<1>2. (\A u \in Clearing : self[u].bit \in bits[self[u].sb])'
  OBVIOUS
<1>3. (\A p, q \in live : p.sb = q.sb /\ BitOf(p) = BitOf(q) => p = q)'
  BY DEF BitOf
<1>4. (\A u, v \in Clearing : self[u].sb = self[v].sb /\ self[u].bit = self[v].bit => u = v)'
  OBVIOUS
<1>5. (\A p \in live, u \in Clearing : p.sb = self[u].sb => BitOf(p) # self[u].bit)'
  BY DEF BitOf
<1>6. (\A b \in Superblocks : \A x \in bits[b] :
         \/ \E p \in live : p.sb = b /\ BitOf(p) = x
         \/ \E u \in Clearing : self[u].sb = b /\ self[u].bit = x)'
  BY DEF BitOf
<1> QED
  BY <1>1, <1>2, <1>3, <1>4, <1>5, <1>6 DEF Bits

(* Bits holds after a step that changes none of what it is about. *)
LEMMA BitsSame ==
    ASSUME Bits, UNCHANGED <<bits, pool, live>>, Clearing' = Clearing,
           \A u \in Clearing : self'[u].sb = self[u].sb /\ self'[u].bit = self[u].bit
    PROVE  Bits'
<1>1. \A u \in Clearing : self'[u].bit \in bits'[self'[u].sb]
  BY DEF Bits
<1>2. \A u, v \in Clearing : self'[u].sb = self'[v].sb /\ self'[u].bit = self'[v].bit => u = v
  BY SMTT(20) DEF Bits
<1>3. \A p \in live, u \in Clearing : p.sb = self'[u].sb => BitOf(p) # self'[u].bit
  BY SMTT(20) DEF Bits
<1>4. \A b \in Superblocks' : \A x \in bits'[b] :
         \/ \E p \in live : p.sb = b /\ BitOf(p) = x
         \/ \E u \in Clearing : self'[u].sb = b /\ self'[u].bit = x
  <2>1. Superblocks' = Superblocks
    BY DEF Superblocks
  <2> QED
    BY <2>1, SMTT(20) DEF Bits
<1> QED
  BY <1>1, <1>2, <1>3, <1>4, BitsFrom, SMTT(20) DEF Bits

(* A step that moves t neither to nor from a place where it counts. *)
Busy == {"back_out", "set", "discount", "release", "clear"}

(* Counts, Headers and Bits hold after a step that changes none of what    *)
(* they are about.                                                         *)
LEMMA Quiet ==
    ASSUME TypeOK, Counts, Headers, Bits, NEW t \in Threads, SameOthers(t),
           UNCHANGED <<state, bits, pool, live>>, self[t].pc \notin Busy, self'[t].pc \notin Busy
    PROVE  Counts' /\ Headers' /\ Bits'
<1>1. ASSUME NEW u \in Threads
      PROVE  /\ self'[u].pc \in Busy <=> self[u].pc \in Busy
             /\ self'[u].pc \in Busy => /\ self'[u].pc = self[u].pc /\ self'[u].sb = self[u].sb
                                        /\ self'[u].expect = self[u].expect /\ self'[u].bit = self[u].bit
  BY DEF SameOthers
<1>2. ASSUME NEW b PROVE Counting(b)' = Counting(b) /\ Claiming(b)' = Claiming(b)
  BY <1>1 DEF Counting, Claiming, Users, Busy
<1>3. Clearing' = Clearing /\ \A u \in Clearing : self'[u].sb = self[u].sb /\ self'[u].bit = self[u].bit
  BY <1>1 DEF Clearing, Busy
<1>4. Counts'
  BY <1>2 DEF Counts, Superblocks
<1>5. Headers'
  BY <1>1 DEF Headers, Busy
<1>6. Bits'
  BY <1>3, BitsSame
<1> QED
  BY <1>4, <1>5, <1>6

(* Alone holds after a step that answers nothing and, if it begins a       *)
(* search, begins it at its first candidate: a thread that takes a step of *)
(* a call has no other that is alone.                                      *)
LEMMA AloneAfter ==
    ASSUME TypeOK, Alone, NEW t \in Threads, NEW r \in ThreadState, Goto(t, r), ~Rests(t),
           r.alone => self[t].alone, r.pc # "null",
           r.pc = "search" => r.i = 0
    PROVE  Alone'
<1>1. /\ self'[t] = r /\ \A u \in Threads \ {t} : self'[u] = self[u]
  BY GotoOthers
<1>2. ASSUME NEW u \in Threads \ {t} PROVE ~self'[u].alone
  BY <1>1 DEF Alone
<1>3. ASSUME self'[t].alone PROVE \A u \in Threads \ {t} : Rests(u)'
  BY <1>1, <1>3 DEF Alone, Rests
<1>4. self'[t].pc = "search" => 0..(self'[t].i - 1) = {}
  BY <1>1, SMTT(20)
<1>5. self'[t].pc # "null"
  BY <1>1
<1> QED
  BY <1>2, <1>3, <1>4, <1>5 DEF Alone

(* Alone holds after a call begins, since no other thread is alone any     *)
(* more.                                                                   *)
LEMMA AloneCall ==
    ASSUME TypeOK, NEW t \in Threads, NEW r \in ThreadState, Call(t, r),
           r.alone => \A u \in Threads \ {t} : Rests(u),
           r.pc \notin {"search", "null"}
    PROVE  Alone'
<1>1. SameOthers(t) /\ self'[t] = r /\ \A u \in Threads \ {t} : self'[u].alone = FALSE
  BY CallOthers
<1>2. ASSUME self'[t].alone PROVE \A u \in Threads \ {t} : Rests(u)'
  BY <1>1, <1>2 DEF Rests, SameOthers
<1> QED
  BY <1>1, <1>2 DEF Alone

-----------------------------------------------------------------------------
(* The block_state of a request that allocate accepts is one of the pool. *)
LEMMA BlockSize ==
    ASSUME PoolOK, NEW n \in Nat, n <= 2^pool.m_max_block_size_lg2
    PROVE  pool.m_sb_size_lg2 - get_block_size_lg2(n) \in BlockStates(pool)
<1>1. PICK i : i = integral_power_of_two_that_contains(n)
  OBVIOUS
<1>2. i \in Nat /\ i <= pool.m_max_block_size_lg2
  BY <1>1, PowerThatContains DEF PoolOK
<1> QED
  BY <1>1, <1>2, SMTT(20) DEF PoolOK, get_block_size_lg2, BlockStates

(* A remainder is in range. *)
LEMMA ModType ==
    ASSUME NEW x \in Nat, NEW h \in Nat
    PROVE  x % 2^h \in Nat /\ x % 2^h < 2^h
<1>1. PICK z \in Nat \ {0} : z = 2^h
  BY PowType, SMTT(20)
<1>2. x % z \in Nat /\ x % z < z
  BY <1>1, SMTT(20)
<1> QED
  BY <1>1, <1>2

(* The beginning of allocate keeps the invariant. *)
LEMMA AllocateInv ==
    ASSUME IInv, NEW t \in Threads, Allocate(t)
    PROVE  IInv'
<1> USE DEF IInv
<1>0. PICK n \in pool.requests, tic \in 0..(2^pool.m_sb_size_lg2 - 1) :
         /\ n <= 2^pool.m_max_block_size_lg2
         /\ Call(t, IF n = 0 THEN Idle
                    ELSE LET k == pool.m_sb_size_lg2 - get_block_size_lg2(n) IN
                         [Idle EXCEPT !.pc = "hint", !.k = k, !.tic = tic % 2^k, !.expect = k,
                                      !.attempts = pool.attempt_limit,
                                      !.alone = \A u \in Threads \ {t} : Rests(u)])
         /\ UNCHANGED <<state, bits, pool, hint, live>>
  BY DEF Allocate
<1>1. PICK r :
         /\ n <= 2^pool.m_max_block_size_lg2
         /\ r = IF n = 0 THEN Idle
                ELSE LET k == pool.m_sb_size_lg2 - get_block_size_lg2(n) IN
                     [Idle EXCEPT !.pc = "hint", !.k = k, !.tic = tic % 2^k, !.expect = k,
                                  !.attempts = pool.attempt_limit,
                                  !.alone = \A u \in Threads \ {t} : Rests(u)]
         /\ Call(t, r)
         /\ UNCHANGED <<state, bits, pool, hint, live>>
  BY <1>0
<1>2. PoolOK /\ n \in Nat /\ tic \in Nat
  BY PowType, SMTT(20) DEF TypeOK, PoolOK
<1>3. PICK k \in BlockStates(pool) : k = pool.m_sb_size_lg2 - get_block_size_lg2(n)
  BY <1>1, <1>2, BlockSize
<1>4. k \in Nat /\ tic % 2^k \in Nat
  BY <1>2, <1>3, StateFacts, ModType
<1>5. PICK al \in BOOLEAN : al = \A u \in Threads \ {t} : Rests(u)
  OBVIOUS
<1>6. \/ r = Idle
      \/ r = [Idle EXCEPT !.pc = "hint", !.k = k, !.tic = tic % 2^k, !.expect = k,
                          !.attempts = pool.attempt_limit, !.alone = al]
  BY <1>1, <1>3, <1>5
<1>7. /\ r \in ThreadState /\ r.pc \in {"idle", "hint"} /\ (r.alone => al)
      /\ r.pc = "hint" => r.k = k /\ r.expect = k
  <2>1. pool.attempt_limit \in Int
    BY <1>2, SMTT(20) DEF PoolOK
  <2>2. CASE r = Idle
    BY <2>2, IdleType
  <2>3. CASE r = [Idle EXCEPT !.pc = "hint", !.k = k, !.tic = tic % 2^k, !.expect = k,
                              !.attempts = pool.attempt_limit, !.alone = al]
    <3>1. PICK m \in Nat, a \in Int : m = tic % 2^k /\ a = pool.attempt_limit
      BY <1>4, <2>1
    <3>2. r = [Idle EXCEPT !.pc = "hint", !.k = k, !.tic = m, !.expect = k, !.attempts = a, !.alone = al]
      BY <2>3, <3>1
    <3>3. r \in ThreadState
      <4>1. "hint" \in Pcs /\ k \in Int
        BY <1>4, SMTT(20) DEF Pcs
      <4> QED
        BY <3>1, <3>2, <4>1, IdleType DEF ThreadState
    <3>4. r.pc = "hint" /\ r.alone = al /\ r.k = k /\ r.expect = k
      BY <3>2, IdleType DEF ThreadState
    <3> QED
      BY <3>3, <3>4
  <2> QED
    BY <1>6, <2>2, <2>3
<1>8. SameOthers(t) /\ self'[t] = r /\ self' \in [Threads -> ThreadState] /\ Rests(t) /\ calls' \in Nat
  BY <1>1, <1>7, CallOthers
<1>9. TypeOK'
  BY <1>1, <1>8 DEF TypeOK, PoolOK, Superblocks, BlockStates
<1>10. LocalsOK(self[t])'
  BY <1>1, <1>7, <1>8 DEF LocalsOK
<1>11. Locals'
  BY <1>1, <1>8, <1>10, LocalsAfter
<1>12. Counts' /\ Headers' /\ Bits'
  <2>1. self[t].pc \notin Busy /\ self'[t].pc \notin Busy
    BY <1>7, <1>8 DEF Busy, Rests
  <2> QED
    BY <1>1, <1>8, <2>1, Quiet
<1>13. Alone'
  BY <1>1, <1>5, <1>7, AloneCall
<1> QED
  BY <1>9, <1>11, <1>12, <1>13

(* A step that is quiet keeps every part of the invariant but Alone. *)
LEMMA QuietInv ==
    ASSUME IInv, NEW t \in Threads, NEW r \in ThreadState, Goto(t, r),
           UNCHANGED <<state, bits, pool, live, calls>>, hint' \in [BlockStates(pool) -> Superblocks],
           self[t].pc \notin Busy \cup {"idle", "null"}, r.pc \notin Busy,
           LocalsOK(r)
    PROVE  TypeOK' /\ Locals' /\ Counts' /\ Headers' /\ Bits'
<1> USE DEF IInv
<1>1. SameOthers(t) /\ self'[t] = r /\ self' \in [Threads -> ThreadState]
  BY GotoOthers
<1>2. TypeOK'
  BY <1>1 DEF TypeOK, PoolOK, Superblocks, BlockStates
<1>3. LocalsOK(self[t])'
  BY <1>1 DEF LocalsOK, Superblocks
<1>4. Locals'
  BY <1>1, <1>3, LocalsAfter
<1>5. Counts' /\ Headers' /\ Bits'
  BY <1>1, Quiet
<1> QED
  BY <1>2, <1>4, <1>5

(* A thread that begins a search has its locals in order. *)
LEMMA SearchType ==
    ASSUME NEW me \in ThreadState, me.k \in BlockStates(pool), PoolOK, NEW r, r = Search(me)
    PROVE  r \in ThreadState /\ LocalsOK(r) /\ r.pc = "search" /\ r.i = 0 /\ r.alone = me.alone
<1>1. r \in ThreadState
  <2>1. -1 \in Int /\ 0 \in Nat /\ me.k \in Int
    BY SMTT(20) DEF ThreadState
  <2> QED
    BY <2>1 DEF Search, ThreadState, Pcs, None
<1>2. /\ r.pc = "search" /\ r.k = me.k /\ r.expect = me.k /\ r.i = 0 /\ r.alone = me.alone
      /\ r.empty = None /\ r.large = None
  BY DEF Search, ThreadState
<1>3. LocalsOK(r)
  BY <1>2, SMTT(20) DEF LocalsOK, PoolOK
<1> QED
  BY <1>1, <1>2, <1>3

(* So has a thread that tries a superblock. *)
LEMMA TryItType ==
    ASSUME NEW me \in ThreadState, PoolOK, NEW b \in Superblocks, NEW header \in BlockStates(pool),
           me.k \in BlockStates(pool), header <= me.k, NEW r, r = TryIt(me, b, header)
    PROVE  r \in ThreadState /\ LocalsOK(r) /\ r.pc = "test" /\ r.alone = me.alone
<1>1. b \in Int /\ header \in Int
  BY SMTT(20) DEF Superblocks, BlockStates, PoolOK
<1>2. r \in ThreadState
  <2>1. "test" \in Pcs
    BY DEF Pcs
  <2> QED
    BY <1>1, <2>1, NoneType DEF TryIt, ThreadState
<1>3. r.pc = "test" /\ r.k = me.k /\ r.sb = b /\ r.expect = header /\ r.alone = me.alone
  BY DEF TryIt, ThreadState
<1>4. LocalsOK(r)
  BY <1>3 DEF LocalsOK
<1> QED
  BY <1>2, <1>3, <1>4

(* Reading the hint keeps the invariant. *)
LEMMA ReadHintInv ==
    ASSUME IInv, NEW t \in Threads, ReadHint(t)
    PROVE  IInv'
<1> USE DEF IInv
<1>1. PICK me, h, r : me = self[t] /\ h = hint[me.k] /\ r = [me EXCEPT !.pc = "test", !.sb = h, !.old = h]
  OBVIOUS
<1>2. me \in ThreadState /\ me.pc = "hint" /\ LocalsOK(me) /\ PoolOK
  BY <1>1 DEF TypeOK, Locals, ReadHint, At
<1>3. me.k \in BlockStates(pool) /\ me.expect = me.k /\ h \in Superblocks /\ h \in Int
  BY <1>1, <1>2, SMTT(20) DEF LocalsOK, TypeOK, Superblocks, PoolOK
<1>4. r \in ThreadState /\ r.pc = "test" /\ r.alone = me.alone /\ LocalsOK(r)
  <2>1. me.k <= me.k
    BY <1>3, <1>2, StateFacts, SMTT(20)
  <2>2. /\ r \in ThreadState /\ r.pc = "test" /\ r.sb = h /\ r.old = h
        /\ r.k = me.k /\ r.expect = me.expect /\ r.alone = me.alone
    <3>1. r = [me EXCEPT !.pc = "test", !.sb = h, !.old = h] /\ me \in ThreadState /\ h \in Int
      BY <1>1, <1>2, <1>3
    <3> QED
      BY <3>1 DEF ThreadState, Pcs
  <2>3. LocalsOK(r)
    BY <1>3, <2>1, <2>2 DEF LocalsOK
  <2> QED
    BY <2>2, <2>3
<1>5. Goto(t, r) /\ UNCHANGED <<state, bits, pool, hint, live, calls>>
  BY <1>1 DEF ReadHint
<1>6. TypeOK' /\ Locals' /\ Counts' /\ Headers' /\ Bits'
  BY <1>1, <1>2, <1>4, <1>5, QuietInv DEF Busy, TypeOK
<1>7. Alone'
  BY <1>1, <1>2, <1>4, <1>5, AloneAfter DEF Rests
<1> QED
  BY <1>6, <1>7

(* Testing the superblock keeps the invariant. *)
LEMMA TestInv ==
    ASSUME IInv, NEW t \in Threads, Test(t)
    PROVE  IInv'
<1> USE DEF IInv
<1>1. PICK me, r : /\ me = self[t]
                   /\ r = IF state[me.sb].header = me.expect
                          THEN [me EXCEPT !.pc = "count", !.bit = me.tic % 2^me.expect] ELSE Search(me)
  OBVIOUS
<1>2. me \in ThreadState /\ me.pc = "test" /\ LocalsOK(me) /\ PoolOK
  BY <1>1 DEF TypeOK, Locals, Test, At
<1>3. me.k \in BlockStates(pool) /\ me.expect \in BlockStates(pool) /\ me.sb \in Superblocks
  BY <1>2 DEF LocalsOK
<1>4. me.tic % 2^me.expect \in Nat /\ me.tic % 2^me.expect < 2^me.expect
  BY <1>2, <1>3, StateFacts, ModType DEF ThreadState
<1>5. /\ r \in ThreadState /\ r.pc \in {"count", "search"} /\ r.alone = me.alone /\ LocalsOK(r)
      /\ r.pc = "search" => r.i = 0
  <2>1. CASE r = Search(me)
    BY <1>2, <1>3, <2>1, SearchType
  <2>2. CASE r = [me EXCEPT !.pc = "count", !.bit = me.tic % 2^me.expect]
    <3>1. PICK m \in Nat : m = me.tic % 2^me.expect /\ m < 2^me.expect
      BY <1>4
    <3>2. "count" \in Pcs
      BY DEF Pcs
    <3>3. r \in ThreadState
      BY <1>2, <2>2, <3>1, <3>2 DEF ThreadState
    <3>4. /\ r.pc = "count" /\ r.k = me.k /\ r.sb = me.sb /\ r.expect = me.expect
          /\ r.bit = m /\ r.alone = me.alone
      BY <1>2, <2>2, <3>1 DEF ThreadState
    <3>5. LocalsOK(r)
      BY <1>2, <1>3, <3>1, <3>4 DEF LocalsOK
    <3> QED
      BY <3>3, <3>4, <3>5
  <2> QED
    BY <1>1, <2>1, <2>2
<1>6. Goto(t, r) /\ UNCHANGED <<state, bits, pool, hint, live, calls>>
  BY <1>1 DEF Test
<1>7. TypeOK' /\ Locals' /\ Counts' /\ Headers' /\ Bits'
  BY <1>1, <1>2, <1>5, <1>6, QuietInv DEF Busy, TypeOK
<1>8. Alone'
  BY <1>1, <1>2, <1>5, <1>6, AloneAfter DEF Rests
<1> QED
  BY <1>7, <1>8

(* Reading the assignment of an empty superblock keeps the invariant. *)
LEMMA ReadEmptyInv ==
    ASSUME IInv, NEW t \in Threads, ReadEmpty(t)
    PROVE  IInv'
<1> USE DEF IInv
<1>1. PICK me, h, r : me = self[t] /\ h = state[me.sb].header /\ r = [me EXCEPT !.pc = "claim", !.larger = h]
  OBVIOUS
<1>2. me \in ThreadState /\ me.pc = "empty" /\ LocalsOK(me) /\ PoolOK
  BY <1>1 DEF TypeOK, Locals, ReadEmpty, At
<1>3. me.sb \in Superblocks /\ h \in Int
  BY <1>1, <1>2, StateFacts, SMTT(20) DEF LocalsOK, TypeOK
<1>4. r \in ThreadState /\ r.pc = "claim" /\ r.alone = me.alone /\ LocalsOK(r)
  BY <1>1, <1>2, <1>3 DEF ThreadState, Pcs, LocalsOK
<1>5. Goto(t, r) /\ UNCHANGED <<state, bits, pool, hint, live, calls>>
  BY <1>1 DEF ReadEmpty
<1>6. TypeOK' /\ Locals' /\ Counts' /\ Headers' /\ Bits'
  BY <1>1, <1>2, <1>4, <1>5, QuietInv DEF Busy, TypeOK
<1>7. Alone'
  BY <1>1, <1>2, <1>4, <1>5, AloneAfter DEF Rests
<1> QED
  BY <1>6, <1>7

(* Changing the hint keeps the invariant. *)
LEMMA UpdateHintInv ==
    ASSUME IInv, NEW t \in Threads, UpdateHint(t)
    PROVE  IInv'
<1> USE DEF IInv
<1>1. PICK me, r : me = self[t] /\ r = TryIt(me, me.sb, me.k)
  OBVIOUS
<1>2. me \in ThreadState /\ me.pc = "update_hint" /\ LocalsOK(me) /\ PoolOK
  BY <1>1 DEF TypeOK, Locals, UpdateHint, At
<1>3. me.sb \in Superblocks /\ me.k \in BlockStates(pool) /\ me.k <= me.k
  <2>1. me.sb \in Superblocks /\ me.k \in BlockStates(pool)
    BY <1>2 DEF LocalsOK
  <2> QED
    BY <1>2, <2>1, StateFacts, SMTT(20)
<1>4. r \in ThreadState /\ LocalsOK(r) /\ r.pc = "test" /\ r.alone = me.alone
  BY <1>1, <1>2, <1>3, TryItType, SMTT(20)
<1>5. Goto(t, r) /\ UNCHANGED <<state, bits, pool, live, calls>>
  BY <1>1 DEF UpdateHint
<1>6. hint' \in [BlockStates(pool) -> Superblocks]
  BY <1>1, <1>3 DEF UpdateHint, TypeOK
<1>7. TypeOK' /\ Locals' /\ Counts' /\ Headers' /\ Bits'
  BY <1>1, <1>2, <1>4, <1>5, <1>6, QuietInv DEF Busy
<1>8. Alone'
  BY <1>1, <1>2, <1>4, <1>5, AloneAfter DEF Rests
<1> QED
  BY <1>7, <1>8

-----------------------------------------------------------------------------
(* What a turn of the search learns: if the candidate does not serve the   *)
(* request, then it has no room for it or is remembered, and nothing that  *)
(* was remembered is forgotten.                                            *)
LEMMA QueryFacts ==
    ASSUME PoolOK, NEW me \in ThreadState, LocalsOK(me), me.pc = "search", NEW id \in Superblocks,
           NEW s \in [header : BlockStates(pool), used : Nat], ~Found(me, s),
           NEW next, next = Query(me, id, s)
    PROVE  /\ next \in ThreadState /\ next.pc = "search" /\ next.k = me.k /\ next.i = me.i
           /\ next.alone = me.alone /\ next.attempts = me.attempts
           /\ LocalsOK(next) /\ NoRoom(next, s)
           /\ \A s2 : NoRoom(me, s2) => NoRoom(next, s2)
<1>1. id \in Int /\ id # None /\ s.header \in Nat /\ s.used \in Nat /\ s.header \in BlockStates(pool)
  BY StateFacts, SMTT(20) DEF Superblocks, PoolOK, None
<1>2. me.k \in BlockStates(pool) /\ me.k \in Nat /\ 2^me.k \in Nat /\ 2^me.k > 0
  BY StateFacts DEF LocalsOK
<1>3. CASE s.header = me.k
  <2>1. next = me /\ s.used >= 2^me.k
    BY <1>1, <1>2, <1>3, SMTT(20) DEF Query, Found
  <2> QED
    BY <1>1, <1>2, <1>3, <2>1, SMTT(20) DEF NoRoom
<1>4. CASE s.header # me.k /\ s.used = 0
  <2>1. PICK e : e = (IF me.empty = None THEN id ELSE me.empty)
    OBVIOUS
  <2>2. next = [me EXCEPT !.empty = e]
    BY <1>4, <2>1 DEF Query, ThreadState
  <2>3. e \in Int /\ e \in Superblocks /\ e # None
    BY <1>1, <2>1 DEF LocalsOK, ThreadState
  <2>4. next \in ThreadState
    BY <2>2, <2>3 DEF ThreadState
  <2>5. /\ next.pc = "search" /\ next.k = me.k /\ next.i = me.i /\ next.alone = me.alone
        /\ next.empty = e /\ next.large = me.large /\ next.larger = me.larger /\ next.expect = me.expect
        /\ next.attempts = me.attempts
    BY <2>2 DEF ThreadState
  <2>6. LocalsOK(next)
    BY <2>3, <2>5 DEF LocalsOK
  <2>7. \A s2 : NoRoom(next, s2)
    BY <2>3, <2>5 DEF NoRoom
  <2> QED
    BY <2>4, <2>5, <2>6, <2>7
<1>5. CASE /\ s.header # me.k /\ s.used # 0
           /\ me.empty = None /\ me.large = None /\ s.header < me.k /\ s.used < 2^s.header
  <2>1. next = [me EXCEPT !.large = id, !.larger = s.header]
    BY <1>5 DEF Query
  <2>2. next \in ThreadState
    <3>1. PICK h \in Int : h = s.header
      BY <1>1, SMTT(20)
    <3>2. next = [me EXCEPT !.large = id, !.larger = h] /\ id \in Int
      BY <1>1, <2>1, <3>1
    <3> QED
      BY <3>2 DEF ThreadState
  <2>3. /\ next.pc = "search" /\ next.k = me.k /\ next.i = me.i /\ next.alone = me.alone
        /\ next.empty = me.empty /\ next.large = id /\ next.larger = s.header /\ next.expect = me.expect
        /\ next.attempts = me.attempts
    BY <2>1 DEF ThreadState
  <2>4. LocalsOK(next)
    BY <1>1, <1>5, <2>3 DEF LocalsOK
  <2>5. NoRoom(next, s)
    BY <1>1, <1>5, <2>3, SMTT(20) DEF NoRoom
  <2>6. \A s2 : NoRoom(me, s2) => NoRoom(next, s2)
    BY <1>1, <2>3 DEF NoRoom
  <2> QED
    BY <2>2, <2>3, <2>4, <2>5, <2>6
<1>6. CASE /\ s.header # me.k /\ s.used # 0
           /\ ~(me.empty = None /\ me.large = None /\ s.header < me.k /\ s.used < 2^s.header)
  <2>1. next = me
    BY <1>6 DEF Query
  <2>2. 2^s.header \in Nat
    BY <1>1, StateFacts
  <2>3. NoRoom(me, s)
    BY <1>1, <1>2, <1>6, <2>2, SMTT(20) DEF NoRoom
  <2> QED
    BY <2>1, <2>3
<1> QED
  BY <1>3, <1>4, <1>5, <1>6

(* A turn of the search keeps the invariant; after the last one, each      *)
(* superblock has been a candidate.                                        *)
LEMMA QueryStateInv ==
    ASSUME IInv, NEW t \in Threads, QueryState(t)
    PROVE  IInv'
<1> USE DEF IInv
<1>1. PICK me, id, s, next : /\ me = self[t] /\ id = Candidate(me.k, me.i) /\ s = state[id]
                             /\ next = Query(me, id, s)
  OBVIOUS
<1>2. me \in ThreadState /\ me.pc = "search" /\ LocalsOK(me) /\ PoolOK
  BY <1>1 DEF TypeOK, Locals, QueryState, At
<1>3. /\ me.k \in BlockStates(pool) /\ me.i \in Nat /\ me.i < pool.m_sb_count /\ me.expect = me.k
      /\ pool.m_sb_count \in Nat
  BY <1>2 DEF LocalsOK, ThreadState, PoolOK
<1>4. me.k \in Nat /\ me.k <= me.k
  BY <1>2, <1>3, StateFacts, SMTT(20)
<1>5. id \in Superblocks /\ id \in Int
  <2>1. me.i \in 0..(pool.m_sb_count - 1)
    BY <1>3, SMTT(20)
  <2>2. id \in Superblocks
    BY <1>1, <1>2, <1>3, <2>1, Candidates
  <2> QED
    BY <2>2, SMTT(20) DEF Superblocks
<1>6. s \in [header : BlockStates(pool), used : Nat]
  BY <1>1, <1>5 DEF TypeOK
<1>7. PICK r : r = IF Found(me, s)
                   THEN IF s.used + 1 < 2^me.k
                        THEN [me EXCEPT !.pc = "update_hint", !.sb = id, !.i = 0, !.empty = None,
                                        !.large = None, !.larger = None]
                        ELSE TryIt(me, id, me.k)
                   ELSE IF me.i + 1 < pool.m_sb_count THEN [next EXCEPT !.i = next.i + 1] ELSE Chosen(next)
  OBVIOUS
<1>8. Goto(t, r) /\ UNCHANGED <<state, bits, pool, hint, live, calls>>
  BY <1>1, <1>7 DEF QueryState, Candidate
<1>9. hint' \in [BlockStates(pool) -> Superblocks]
  BY <1>8 DEF TypeOK
<1>10. self[t].pc \notin Busy \cup {"idle", "null"} /\ ~Rests(t)
  BY <1>1, <1>2 DEF Busy, Rests
<1>11. ASSUME NEW q, q = r, q \in ThreadState, q.pc \in {"update_hint", "test", "empty", "hint"},
              LocalsOK(q), q.alone = me.alone
       PROVE  IInv'
  <2>1. q.pc \notin Busy /\ q.pc # "null" /\ q.pc # "search"
    BY <1>11 DEF Busy
  <2>2. TypeOK' /\ Locals' /\ Counts' /\ Headers' /\ Bits'
    BY <1>8, <1>9, <1>10, <1>11, <2>1, QuietInv
  <2>3. Alone'
    BY <1>1, <1>8, <1>10, <1>11, <2>1, AloneAfter
  <2> QED
    BY <2>2, <2>3
<1>12. CASE Found(me, s)
  <2>1. CASE r = TryIt(me, id, me.k)
    BY <1>2, <1>3, <1>4, <1>5, <1>11, <2>1, TryItType
  <2>2. CASE r = [me EXCEPT !.pc = "update_hint", !.sb = id, !.i = 0, !.empty = None,
                            !.large = None, !.larger = None]
    <3>1. "update_hint" \in Pcs
      BY DEF Pcs
    <3>2. r \in ThreadState
      BY <1>2, <1>5, <2>2, <3>1, NoneType DEF ThreadState
    <3>3. r.pc = "update_hint" /\ r.k = me.k /\ r.sb = id /\ r.alone = me.alone
      BY <1>2, <2>2 DEF ThreadState
    <3>4. LocalsOK(r)
      BY <1>3, <1>5, <3>3 DEF LocalsOK
    <3> QED
      BY <1>11, <3>2, <3>3, <3>4
  <2> QED
    BY <1>7, <1>12, <2>1, <2>2
<1>13. CASE ~Found(me, s)
  <2>1. /\ next \in ThreadState /\ next.pc = "search" /\ next.k = me.k /\ next.i = me.i
        /\ next.alone = me.alone /\ next.attempts = me.attempts
        /\ LocalsOK(next) /\ NoRoom(next, s)
        /\ \A s2 : NoRoom(me, s2) => NoRoom(next, s2)
    BY <1>1, <1>2, <1>5, <1>6, <1>13, QueryFacts, SMTT(20)
  <2>2. next.k \in BlockStates(pool) /\ next.expect = next.k /\ next.k \in Nat
    BY <1>3, <1>4, <2>1 DEF LocalsOK
  <2>3. ASSUME self[t].alone, NEW j \in 0..me.i PROVE NoRoom(next, state[Candidate(me.k, j)])
    <3>1. CASE j = me.i
      BY <1>1, <2>1, <3>1
    <3>2. CASE j # me.i
      <4>1. j \in 0..(me.i - 1)
        BY <1>3, <3>2, SMTT(20)
      <4>2. NoRoom(me, state[Candidate(me.k, j)])
        BY <1>1, <1>2, <2>3, <4>1 DEF Alone
      <4> QED
        BY <2>1, <4>2
    <3> QED
      BY <3>1, <3>2
  <2>4. CASE me.i + 1 < pool.m_sb_count
    <3>1. r = [next EXCEPT !.i = next.i + 1]
      BY <1>7, <1>13, <2>4
    <3>2. /\ r \in ThreadState /\ r.pc = "search" /\ r.k = me.k /\ r.i = me.i + 1 /\ r.alone = me.alone
          /\ r.empty = next.empty /\ r.large = next.large /\ r.larger = next.larger /\ r.expect = next.expect
      BY <2>1, <3>1, SMTT(20) DEF ThreadState
    <3>3. LocalsOK(r)
      BY <2>1, <2>2, <2>4, <3>2 DEF LocalsOK
    <3>4. r.pc \notin Busy
      BY <3>2 DEF Busy
    <3>5. TypeOK' /\ Locals' /\ Counts' /\ Headers' /\ Bits'
      BY <1>8, <1>9, <1>10, <3>2, <3>3, <3>4, QuietInv
    <3>6. /\ self'[t] = r /\ \A u \in Threads \ {t} : self'[u] = self[u]
      BY <1>8, <3>2, GotoOthers
    <3>7. Alone'
      <4>1. ASSUME NEW u \in Threads \ {t} PROVE ~self'[u].alone
        BY <1>10, <3>6 DEF Alone
      <4>2. ASSUME self'[t].alone PROVE \A u \in Threads \ {t} : Rests(u)'
        BY <1>1, <3>2, <3>6, <4>2 DEF Alone, Rests
      <4>3. ASSUME self'[t].alone, NEW j \in 0..me.i PROVE NoRoom(r, state[Candidate(me.k, j)])
        <5>1. NoRoom(next, state[Candidate(me.k, j)])
          BY <1>1, <2>3, <3>2, <3>6, <4>3
        <5> QED
          BY <2>1, <3>2, <5>1 DEF NoRoom
      <4>4. self'[t].alone => (\A j \in 0..(self[t].i - 1) : NoRoom(self[t], state[Candidate(self[t].k, j)]))'
        <5>1. (me.i + 1) - 1 = me.i
          BY <1>3, SMTT(20)
        <5> QED
          BY <1>8, <3>2, <3>6, <4>3, <5>1, SMTT(20) DEF Candidate, SbIdBegin, NoRoom
      <4>5. self'[t].pc # "null"
        BY <3>2, <3>6
      <4> QED
        BY <4>1, <4>2, <4>4, <4>5 DEF Alone
    <3> QED
      BY <3>5, <3>7
  <2>5. CASE ~(me.i + 1 < pool.m_sb_count)
    <3>1. r = Chosen(next) /\ me.i = pool.m_sb_count - 1
      BY <1>3, <1>7, <1>13, <2>5, SMTT(20)
    <3>2. CASE next.empty # None
      <4>1. r = [next EXCEPT !.pc = "empty", !.sb = next.empty, !.i = 0, !.empty = None,
                             !.large = None, !.larger = None]
        BY <3>1, <3>2 DEF Chosen
      <4>2. "empty" \in Pcs /\ next.empty \in Superblocks /\ next.empty \in Int
        BY <2>1, <3>2 DEF Pcs, LocalsOK, ThreadState
      <4>3. r \in ThreadState
        BY <2>1, <4>1, <4>2, NoneType DEF ThreadState
      <4>4. r.pc = "empty" /\ r.k = me.k /\ r.sb = next.empty /\ r.alone = me.alone
        BY <2>1, <4>1 DEF ThreadState
      <4>5. LocalsOK(r)
        BY <1>3, <4>2, <4>4 DEF LocalsOK
      <4> QED
        BY <1>11, <4>3, <4>4, <4>5
    <3>3. CASE next.empty = None /\ next.large # None
      <4>1. r = TryIt(next, next.large, next.larger)
        BY <3>1, <3>3 DEF Chosen
      <4>2. next.large \in Superblocks /\ next.larger \in BlockStates(pool) /\ next.larger < next.k
        BY <2>1, <3>3 DEF LocalsOK
      <4>3. next.larger <= next.k
        BY <1>2, <2>2, <4>2, StateFacts, SMTT(20)
      <4> QED
        BY <1>2, <1>11, <2>1, <2>2, <4>1, <4>2, <4>3, TryItType, SMTT(20)
    <3>4. CASE next.empty = None /\ next.large = None /\ next.attempts > 1
      <4>1. r = [next EXCEPT !.pc = "hint", !.attempts = next.attempts - 1, !.i = 0]
        BY <3>1, <3>4 DEF Chosen
      <4>2. "hint" \in Pcs /\ next.attempts - 1 \in Int
        BY <2>1, SMTT(20) DEF Pcs, ThreadState
      <4>3. r \in ThreadState
        BY <2>1, <4>1, <4>2 DEF ThreadState
      <4>4. r.pc = "hint" /\ r.k = me.k /\ r.expect = me.k /\ r.alone = me.alone
        BY <2>1, <2>2, <4>1 DEF ThreadState
      <4>5. LocalsOK(r)
        BY <1>3, <4>4 DEF LocalsOK
      <4> QED
        BY <1>11, <4>3, <4>4, <4>5
    <3>5. CASE next.empty = None /\ next.large = None /\ ~(next.attempts > 1)
      <4>1. r = [Idle EXCEPT !.pc = "null", !.k = next.k, !.alone = next.alone]
        BY <3>1, <3>5 DEF Chosen
      <4>2. "null" \in Pcs /\ next.k \in Int /\ next.alone \in BOOLEAN
        BY <2>1 DEF Pcs, ThreadState
      <4>3. r \in ThreadState
        BY <4>1, <4>2, IdleType DEF ThreadState
      <4>4. r.pc = "null" /\ r.k = me.k /\ r.alone = me.alone /\ r.empty = None /\ r.large = None
        BY <2>1, <4>1, IdleType DEF ThreadState
      <4>5. LocalsOK(r) /\ r.pc \notin Busy
        BY <1>3, <4>4 DEF LocalsOK, Busy
      <4>6. TypeOK' /\ Locals' /\ Counts' /\ Headers' /\ Bits'
        BY <1>8, <1>9, <1>10, <4>3, <4>5, QuietInv
      <4>7. /\ self'[t] = r /\ \A u \in Threads \ {t} : self'[u] = self[u]
        BY <1>8, <4>3, GotoOthers
      <4>8. Alone'
        <5>1. ASSUME NEW u \in Threads \ {t} PROVE ~self'[u].alone
          BY <1>10, <4>7 DEF Alone
        <5>2. ASSUME self'[t].alone PROVE \A u \in Threads \ {t} : Rests(u)'
          BY <1>1, <4>4, <4>7, <5>2 DEF Alone, Rests
        <5>3. ASSUME self'[t].alone, NEW b \in Superblocks PROVE NoRoom(r, state[b])
          <6>1. PICK j \in 0..(pool.m_sb_count - 1) : Candidate(me.k, j) = b
            BY <1>2, <1>3, Candidates
          <6>2. j \in 0..me.i
            BY <3>1
          <6>3. NoRoom(next, state[b])
            BY <1>1, <2>3, <4>4, <4>7, <5>3, <6>1, <6>2
          <6> QED
            BY <2>1, <3>5, <4>4, <6>3 DEF NoRoom
        <5>4. self'[t].alone => (\A b \in Superblocks : NoRoom(self[t], state[b]))'
          BY <1>8, <4>7, <5>3 DEF Superblocks, NoRoom
        <5>5. self'[t].pc # "search"
          BY <4>4, <4>7
        <5> QED
          BY <5>1, <5>2, <5>4, <5>5 DEF Alone
      <4> QED
        BY <4>6, <4>8
    <3> QED
      BY <3>2, <3>3, <3>4, <3>5
  <2> QED
    BY <2>4, <2>5
<1> QED
  BY <1>12, <1>13

-----------------------------------------------------------------------------
(* A set with one more element. *)
LEMMA OneMore ==
    ASSUME NEW S, IsFiniteSet(S), NEW x, x \notin S
    PROVE  /\ IsFiniteSet(S \cup {x}) /\ Cardinality(S) \in Nat
           /\ Cardinality(S \cup {x}) = Cardinality(S) + 1
BY FS_AddElement, FS_CardinalityType

(* A set with one element less. *)
LEMMA OneLess ==
    ASSUME NEW S, IsFiniteSet(S), NEW x \in S
    PROVE  /\ IsFiniteSet(S \ {x}) /\ Cardinality(S) \in Nat /\ Cardinality(S) > 0
           /\ Cardinality(S \ {x}) = Cardinality(S) - 1
<1>1. IsFiniteSet(S \ {x}) /\ Cardinality(S \ {x}) = Cardinality(S) - 1
  BY FS_RemoveElement
<1>2. Cardinality(S) \in Nat /\ Cardinality(S \ {x}) \in Nat
  BY <1>1, FS_CardinalityType
<1> QED
  BY <1>1, <1>2, SMTT(20)

CountingPcs == {"back_out", "set", "discount"}
ClaimingPcs == {"set", "discount"}

(* Who counts at a superblock after a step of t. *)
LEMMA CountingAfter ==
    ASSUME NEW t \in Threads, SameOthers(t), NEW b
    PROVE  /\ Counting(b)' = IF self'[t].sb = b /\ self'[t].pc \in CountingPcs THEN Counting(b) \cup {t}
                             ELSE Counting(b) \ {t}
           /\ Claiming(b)' = IF self'[t].sb = b /\ self'[t].pc \in ClaimingPcs THEN Claiming(b) \cup {t}
                             ELSE Claiming(b) \ {t}
           /\ t \in Counting(b) <=> self[t].sb = b /\ self[t].pc \in CountingPcs
           /\ t \in Claiming(b) <=> self[t].sb = b /\ self[t].pc \in ClaimingPcs
<1>1. Counting(b) = Users(b, CountingPcs) /\ Claiming(b) = Users(b, ClaimingPcs)
  BY DEF Counting, Claiming, CountingPcs, ClaimingPcs
<1>2. Counting(b)' = Users(b, CountingPcs)' /\ Claiming(b)' = Users(b, ClaimingPcs)'
  BY DEF Counting, Claiming, CountingPcs, ClaimingPcs
<1>3. \A P : t \in Users(b, P) <=> self[t].sb = b /\ self[t].pc \in P
  BY DEF Users
<1> QED
  BY <1>1, <1>2, <1>3, UsersAfter, SMTT(20)

(* Those that count are finitely many, and those that claim a bit are      *)
(* among them.                                                             *)
LEMMA CountingFinite ==
    ASSUME NEW b
    PROVE  /\ IsFiniteSet(Counting(b)) /\ Cardinality(Counting(b)) \in Nat
           /\ IsFiniteSet(Claiming(b)) /\ Cardinality(Claiming(b)) \in Nat
           /\ (Cardinality(Counting(b)) = 0 <=> Counting(b) = {})
           /\ Cardinality(Claiming(b)) <= Cardinality(Counting(b))
           /\ Claiming(b) \subseteq Counting(b)
<1>1. /\ IsFiniteSet(Counting(b)) /\ Cardinality(Counting(b)) \in Nat
      /\ IsFiniteSet(Claiming(b)) /\ Cardinality(Claiming(b)) \in Nat
      /\ (Cardinality(Counting(b)) = 0 <=> Counting(b) = {})
  BY UsersFinite DEF Counting, Claiming
<1>2. Claiming(b) \in SUBSET Counting(b)
  BY DEF Counting, Claiming, Users
<1> QED
  BY <1>1, <1>2, FS_Subset

(* Counts holds after a step of t at superblock c if it holds of c. *)
LEMMA CountsAfter ==
    ASSUME TypeOK, Counts, NEW t \in Threads, SameOthers(t), NEW c \in Superblocks, pool' = pool,
           \A b \in Superblocks \ {c} : state'[b] = state[b] /\ bits'[b] = bits[b],
           self[t].sb = c \/ self[t].pc \notin CountingPcs,
           self'[t].sb = c \/ self'[t].pc \notin CountingPcs,
           IsFiniteSet(bits'[c]), \A x \in bits'[c] : x < 2^(state'[c].header),
           state'[c].used = Cardinality(bits'[c]) + Cardinality(Counting(c)'),
           Cardinality(bits'[c]) + Cardinality(Claiming(c)') <= 2^(state'[c].header)
    PROVE  Counts'
<1>1. ASSUME NEW b \in Superblocks \ {c} PROVE Counting(b)' = Counting(b) /\ Claiming(b)' = Claiming(b)
  <2>1. ClaimingPcs \subseteq CountingPcs
    BY DEF CountingPcs, ClaimingPcs
  <2>2. ~(self[t].sb = b /\ self[t].pc \in CountingPcs) /\ ~(self'[t].sb = b /\ self'[t].pc \in CountingPcs)
    BY SMTT(20)
  <2>3. t \notin Counting(b) /\ t \notin Claiming(b)
    BY <2>1, <2>2, CountingAfter
  <2>4. Counting(b)' = Counting(b) \ {t} /\ Claiming(b)' = Claiming(b) \ {t}
    BY <2>1, <2>2, CountingAfter
  <2> QED
    BY <2>3, <2>4
<1>2. ASSUME NEW b \in Superblocks \ {c}
      PROVE  /\ IsFiniteSet(bits'[b])
             /\ \A x \in bits'[b] : x < 2^(state'[b].header)
             /\ state'[b].used = Cardinality(bits'[b]) + Cardinality(Counting(b)')
             /\ Cardinality(bits'[b]) + Cardinality(Claiming(b)') <= 2^(state'[b].header)
  BY <1>1 DEF Counts
<1>3. Superblocks' = Superblocks
  BY DEF Superblocks
<1> QED
  BY <1>2, <1>3 DEF Counts

(* A superblock whose count is zero has no bit set and no user: this is    *)
(* why it may be assigned to another size.                                 *)
LEMMA EmptySuperblock ==
    ASSUME TypeOK, Counts, Headers, Bits, Locals, NEW c \in Superblocks, state[c].used = 0
    PROVE  /\ bits[c] = {} /\ Counting(c) = {} /\ Claiming(c) = {}
           /\ \A p \in live : p.sb # c
           /\ \A t \in Threads : self[t].pc \in {"set", "release", "clear"} => self[t].sb # c
<1>1. /\ IsFiniteSet(bits[c]) /\ Cardinality(bits[c]) \in Nat
      /\ Cardinality(bits[c]) + Cardinality(Counting(c)) = 0
  BY FS_CardinalityType DEF Counts
<1>2. Cardinality(bits[c]) = 0 /\ Cardinality(Counting(c)) = 0
  BY <1>1, CountingFinite, SMTT(20)
<1>3. bits[c] = {} /\ Counting(c) = {} /\ Claiming(c) = {}
  BY <1>1, <1>2, FS_EmptySet, CountingFinite
<1>4. \A p \in live : p.sb # c
  BY <1>3 DEF Bits
<1>5. ASSUME NEW t \in Threads, self[t].pc \in {"set", "release", "clear"} PROVE self[t].sb # c
  BY <1>3, <1>5 DEF Bits, Clearing, Counting, Users
<1> QED
  BY <1>3, <1>4, <1>5

(* Assigning an empty superblock to another size keeps the invariant. *)
LEMMA ClaimEmptyInv ==
    ASSUME IInv, NEW t \in Threads, ClaimEmpty(t)
    PROVE  IInv'
<1> USE DEF IInv
<1>1. PICK me : me = self[t]
  OBVIOUS
<1>2. me \in ThreadState /\ me.pc = "claim" /\ LocalsOK(me) /\ PoolOK
  BY <1>1 DEF TypeOK, Locals, ClaimEmpty, At
<1>3. PICK c \in Superblocks : c = me.sb
  BY <1>2 DEF LocalsOK
<1>4. /\ me.k \in BlockStates(pool) /\ me.k \in Nat /\ me.k <= me.k /\ 2^me.k \in Nat
  BY <1>2, StateFacts, SMTT(20) DEF LocalsOK
<1>5. ~Rests(t) /\ self[t].pc \notin Busy \cup {"idle", "null"}
  BY <1>1, <1>2 DEF Rests, Busy
<1>6. CASE state[c] # [header |-> me.larger, used |-> 0]
  <2>1. PICK r : r = TryIt(me, c, me.k)
    OBVIOUS
  <2>2. Goto(t, r) /\ UNCHANGED <<state, bits, pool, hint, live, calls>>
    BY <1>1, <1>3, <1>6, <2>1 DEF ClaimEmpty
  <2>3. r \in ThreadState /\ LocalsOK(r) /\ r.pc = "test" /\ r.alone = me.alone
    BY <1>2, <1>3, <1>4, <2>1, TryItType, SMTT(20)
  <2>4. TypeOK' /\ Locals' /\ Counts' /\ Headers' /\ Bits'
    BY <1>5, <2>2, <2>3, QuietInv DEF Busy, TypeOK
  <2>5. Alone'
    BY <1>1, <1>5, <2>2, <2>3, AloneAfter
  <2> QED
    BY <2>4, <2>5
<1>7. CASE state[c] = [header |-> me.larger, used |-> 0]
  <2>1. PICK r : r = [me EXCEPT !.pc = "update_hint", !.larger = None]
    OBVIOUS
  <2>2. Goto(t, r) /\ state' = [state EXCEPT ![c].header = me.k] /\ UNCHANGED <<bits, pool, hint, live, calls>>
    BY <1>1, <1>3, <1>7, <2>1 DEF ClaimEmpty
  <2>3. r \in ThreadState /\ r.pc = "update_hint" /\ r.k = me.k /\ r.sb = c /\ r.alone = me.alone
    <3>1. "update_hint" \in Pcs
      BY DEF Pcs
    <3> QED
      BY <1>2, <1>3, <2>1, <3>1, NoneType DEF ThreadState
  <2>4. LocalsOK(r)
    BY <1>4, <2>3 DEF LocalsOK
  <2>5. SameOthers(t) /\ self'[t] = r /\ self' \in [Threads -> ThreadState]
    BY <2>2, <2>3, GotoOthers
  <2>6. /\ state' \in [Superblocks -> [header : BlockStates(pool), used : Nat]]
        /\ state'[c].header = me.k /\ state'[c].used = 0
        /\ \A b \in Superblocks \ {c} : state'[b] = state[b]
    BY <1>4, <1>7, <2>2, SMTT(20) DEF TypeOK
  <2>7. TypeOK'
    BY <2>2, <2>5, <2>6 DEF TypeOK, PoolOK, Superblocks, BlockStates
  <2>8. Locals'
    <3>1. LocalsOK(self[t])'
      BY <2>2, <2>4, <2>5 DEF LocalsOK, Superblocks
    <3> QED
      BY <2>2, <2>5, <3>1, LocalsAfter
  <2>9. /\ bits[c] = {} /\ Counting(c) = {} /\ Claiming(c) = {}
        /\ \A p \in live : p.sb # c
        /\ \A u \in Threads : self[u].pc \in {"set", "release", "clear"} => self[u].sb # c
    BY <1>7, EmptySuperblock, SMTT(20)
  <2>10. Counts'
    <3>1. self[t].pc \notin CountingPcs /\ self'[t].pc \notin CountingPcs /\ self'[t].pc \notin ClaimingPcs
      BY <1>1, <1>2, <2>3, <2>5 DEF CountingPcs, ClaimingPcs
    <3>2. Counting(c)' = {} /\ Claiming(c)' = {}
      BY <2>5, <2>9, <3>1, CountingAfter
    <3>3. IsFiniteSet({}) /\ Cardinality({}) = 0
      BY FS_EmptySet
    <3>4. bits'[c] = {}
      BY <2>2, <2>9
    <3>5. Cardinality(Counting(c)') = 0 /\ Cardinality(Claiming(c)') = 0 /\ Cardinality(bits'[c]) = 0
      BY <3>2, <3>3, <3>4
    <3>6. /\ IsFiniteSet(bits'[c]) /\ \A x \in bits'[c] : x < 2^(state'[c].header)
          /\ state'[c].used = Cardinality(bits'[c]) + Cardinality(Counting(c)')
          /\ Cardinality(bits'[c]) + Cardinality(Claiming(c)') <= 2^(state'[c].header)
      BY <1>4, <2>6, <3>3, <3>4, <3>5, SMTT(20)
    <3>7. pool' = pool /\ \A b \in Superblocks \ {c} : state'[b] = state[b] /\ bits'[b] = bits[b]
      BY <2>2, <2>6
    <3> QED
      BY <2>5, <3>1, <3>6, <3>7, CountsAfter
  <2>11. Headers'
    <3>1. \A p \in live : state'[p.sb] = state[p.sb]
      BY <2>6, <2>9 DEF TypeOK
    <3>2. (\A p \in live : p.size_lg2 = pool.m_sb_size_lg2 - state[p.sb].header /\ p.for <= p.size_lg2)'
      BY <2>2, <3>1 DEF Headers
    <3>3. ASSUME NEW u \in Threads, self'[u].pc \in {"set", "release", "clear"}
          PROVE  /\ self'[u].pc = self[u].pc /\ self'[u].sb = self[u].sb /\ self'[u].expect = self[u].expect
                 /\ self'[u].bit = self[u].bit /\ state'[self[u].sb] = state[self[u].sb]
      <4>1. u # t
        BY <2>3, <2>5, <3>3
      <4>2. self'[u].pc = self[u].pc /\ self'[u].sb = self[u].sb /\ self'[u].expect = self[u].expect
            /\ self'[u].bit = self[u].bit
        BY <2>5, <4>1 DEF SameOthers
      <4>3. self[u].sb \in Superblocks /\ self[u].sb # c
        BY <2>9, <3>3, <4>2 DEF Locals, LocalsOK
      <4> QED
        BY <2>6, <4>2, <4>3
    <3> QED
      BY <3>2, <3>3, SMTT(20) DEF Headers
  <2>12. Bits'
    <3>1. Clearing' = Clearing /\ \A u \in Clearing : self'[u].sb = self[u].sb /\ self'[u].bit = self[u].bit
      BY <1>5, <2>3, <2>5 DEF Clearing, Busy, SameOthers
    <3> QED
      BY <2>2, <3>1, BitsSame
  <2>13. Alone'
    BY <1>1, <1>5, <2>2, <2>3, AloneAfter
  <2> QED
    BY <2>7, <2>8, <2>10, <2>11, <2>12, <2>13
<1> QED
  BY <1>6, <1>7

-----------------------------------------------------------------------------
(* A change of a count changes no header. *)
LEMMA StateAfter ==
    ASSUME TypeOK, NEW c \in Superblocks, NEW n \in Nat, state' = [state EXCEPT ![c].used = n]
    PROVE  /\ state' \in [Superblocks -> [header : BlockStates(pool), used : Nat]]
           /\ state'[c].used = n
           /\ \A b \in Superblocks : state'[b].header = state[b].header
           /\ \A b \in Superblocks \ {c} : state'[b] = state[b]
BY DEF TypeOK

(* Headers holds after a step that changes no header. *)
LEMMA HeadersAfter ==
    ASSUME TypeOK, Locals, Headers, NEW t \in Threads, SameOthers(t), pool' = pool, live' \subseteq live,
           \A b \in Superblocks : state'[b].header = state[b].header,
           self'[t].pc \in {"set", "release", "clear"} =>
              self'[t].sb \in Superblocks /\ self'[t].expect = state[self'[t].sb].header
    PROVE  Headers'
<1>1. ASSUME NEW p \in live'
      PROVE  p.size_lg2 = pool.m_sb_size_lg2 - state'[p.sb].header /\ p.for <= p.size_lg2
  <2>1. p \in live /\ p.sb \in Superblocks
    BY DEF TypeOK
  <2> QED
    BY <2>1 DEF Headers
<1>2. ASSUME NEW u \in Threads, self'[u].pc \in {"set", "release", "clear"}
      PROVE  self'[u].expect = state'[self'[u].sb].header
  <2>1. CASE u = t
    BY <1>2, <2>1
  <2>2. CASE u # t
    <3>1. self'[u].pc = self[u].pc /\ self'[u].sb = self[u].sb /\ self'[u].expect = self[u].expect
      BY <2>2 DEF SameOthers
    <3>2. self[u].sb \in Superblocks
      BY <1>2, <3>1 DEF Locals, LocalsOK
    <3> QED
      BY <1>2, <3>1, <3>2 DEF Headers
  <2> QED
    BY <2>1, <2>2
<1> QED
  BY <1>1, <1>2 DEF Headers

(* The threads that are about to clear a bit stay the same. *)
LEMMA ClearingSame ==
    ASSUME NEW t \in Threads, SameOthers(t), self[t].pc \notin {"release", "clear"},
           self'[t].pc \notin {"release", "clear"}
    PROVE  Clearing' = Clearing /\ \A u \in Clearing : self'[u].sb = self[u].sb /\ self'[u].bit = self[u].bit
BY DEF Clearing, SameOthers

(* The count of acquire_bounded_lg2 keeps the invariant: a thread goes on  *)
(* to set a bit only if one is left for it.                                *)
LEMMA CountInv ==
    ASSUME IInv, NEW t \in Threads, At(t, "count"), Acquire(t)
    PROVE  IInv'
<1> USE DEF IInv
<1>1. PICK me, c : me = self[t] /\ c = me.sb
  OBVIOUS
<1>2. me \in ThreadState /\ me.pc = "count" /\ LocalsOK(me) /\ PoolOK
  BY <1>1 DEF TypeOK, Locals, At
<1>3. /\ me.k \in BlockStates(pool) /\ me.expect \in BlockStates(pool) /\ me.expect <= me.k
      /\ c \in Superblocks /\ me.bit < 2^me.expect /\ 2^me.expect \in Nat
  BY <1>1, <1>2, StateFacts DEF LocalsOK
<1>4. PICK n \in Nat : n = state[c].used + 1
  BY <1>3, SMTT(20) DEF TypeOK
<1>5. PICK r : r = IF me.expect # state[c].header \/ 2^me.expect <= state[c].used
                   THEN [me EXCEPT !.pc = "back_out"] ELSE [me EXCEPT !.pc = "set"]
  OBVIOUS
<1>6. Goto(t, r) /\ state' = [state EXCEPT ![c].used = n] /\ UNCHANGED <<bits, pool, hint, live, calls>>
  BY <1>1, <1>2, <1>4, <1>5 DEF Acquire, AcquireCount, At
<1>7. /\ r \in ThreadState /\ r.pc \in {"back_out", "set"} /\ r.k = me.k /\ r.sb = c
      /\ r.expect = me.expect /\ r.bit = me.bit /\ r.alone = me.alone
  <2>1. {"back_out", "set"} \subseteq Pcs
    BY DEF Pcs
  <2> QED
    BY <1>1, <1>2, <1>5, <2>1 DEF ThreadState
<1>8. r.pc = "set" => me.expect = state[c].header /\ ~(2^me.expect <= state[c].used)
  BY <1>2, <1>5 DEF ThreadState
<1>9. LocalsOK(r)
  BY <1>3, <1>7 DEF LocalsOK
<1>10. SameOthers(t) /\ self'[t] = r /\ self' \in [Threads -> ThreadState]
  BY <1>6, <1>7, GotoOthers
<1>11. /\ state' \in [Superblocks -> [header : BlockStates(pool), used : Nat]] /\ state'[c].used = n
       /\ \A b \in Superblocks : state'[b].header = state[b].header
       /\ \A b \in Superblocks \ {c} : state'[b] = state[b]
  BY <1>3, <1>6, StateAfter
<1>12. TypeOK'
  BY <1>6, <1>10, <1>11 DEF TypeOK, PoolOK, Superblocks, BlockStates
<1>13. Locals'
  <2>1. LocalsOK(self[t])'
    BY <1>6, <1>9, <1>10 DEF LocalsOK, Superblocks
  <2> QED
    BY <1>6, <1>10, <2>1, LocalsAfter
<1>14. Headers'
  BY <1>3, <1>6, <1>7, <1>8, <1>10, <1>11, HeadersAfter
<1>15. Bits'
  BY <1>1, <1>2, <1>6, <1>7, <1>10, ClearingSame, BitsSame
<1>16. Counts'
  <2>1. /\ IsFiniteSet(bits[c]) /\ \A x \in bits[c] : x < 2^state[c].header
        /\ state[c].used = Cardinality(bits[c]) + Cardinality(Counting(c))
        /\ Cardinality(bits[c]) + Cardinality(Claiming(c)) <= 2^state[c].header
        /\ Cardinality(bits[c]) \in Nat
    BY <1>3, FS_CardinalityType DEF Counts
  <2>2. t \notin Counting(c) /\ t \notin Claiming(c) /\ Counting(c)' = Counting(c) \cup {t}
    BY <1>1, <1>2, <1>7, <1>10, CountingAfter DEF CountingPcs, ClaimingPcs
  <2>3. r.pc = "set" => Claiming(c)' = Claiming(c) \cup {t}
    BY <1>7, <1>10, CountingAfter DEF ClaimingPcs
  <2>4. r.pc # "set" => Claiming(c)' = Claiming(c)
    <3>1. r.pc # "set" => Claiming(c)' = Claiming(c) \ {t}
      BY <1>7, <1>10, CountingAfter DEF ClaimingPcs
    <3> QED
      BY <2>2, <3>1
  <2>5. Cardinality(Counting(c)') = Cardinality(Counting(c)) + 1
    BY <2>2, CountingFinite, OneMore
  <2>6. Cardinality(Claiming(c) \cup {t}) = Cardinality(Claiming(c)) + 1
    BY <2>2, CountingFinite, OneMore
  <2>7. state'[c].used = Cardinality(bits'[c]) + Cardinality(Counting(c)')
    BY <1>4, <1>6, <1>11, <2>1, <2>5, CountingFinite, SMTT(20)
  <2>8. Cardinality(bits[c]) + Cardinality(Claiming(c)') <= 2^state[c].header
    <3>1. CASE r.pc = "set"
      <4>1. PICK nb, nc, nl \in Nat : /\ nb = Cardinality(bits[c]) /\ nc = Cardinality(Counting(c))
                                      /\ nl = Cardinality(Claiming(c)) /\ nl <= nc
        BY <2>1, CountingFinite
      <4>2. state[c].used = nb + nc /\ ~(2^state[c].header <= nb + nc) /\ 2^state[c].header \in Nat
        BY <1>3, <1>8, <2>1, <3>1, <4>1
      <4>3. Cardinality(Claiming(c)') = nl + 1
        BY <2>3, <2>6, <3>1, <4>1
      <4>4. nb + (nl + 1) <= 2^state[c].header
        BY <4>1, <4>2, SMTT(20)
      <4> QED
        BY <4>1, <4>3, <4>4
    <3>2. CASE r.pc # "set"
      BY <2>1, <2>4, <3>2
    <3> QED
      BY <3>1, <3>2
  <2>9. /\ IsFiniteSet(bits'[c]) /\ \A x \in bits'[c] : x < 2^(state'[c].header)
        /\ Cardinality(bits'[c]) + Cardinality(Claiming(c)') <= 2^(state'[c].header)
    BY <1>3, <1>6, <1>11, <2>1, <2>8
  <2>10. pool' = pool /\ \A b \in Superblocks \ {c} : state'[b] = state[b] /\ bits'[b] = bits[b]
    BY <1>6, <1>11
  <2> QED
    BY <1>1, <1>3, <1>7, <1>10, <2>7, <2>9, <2>10, CountsAfter
<1>17. Alone'
  BY <1>1, <1>2, <1>6, <1>7, AloneAfter DEF Rests
<1> QED
  BY <1>12, <1>13, <1>14, <1>15, <1>16, <1>17

(* A count is taken back: after a failed attempt, or at the end of a release. *)
LEMMA DiscountInv ==
    ASSUME IInv, NEW t \in Threads, self[t].pc \in {"back_out", "discount"},
           NEW r \in ThreadState, Discount(t, self[t].sb, r), UNCHANGED <<pool, hint, live, calls>>,
           r.pc \in {"search", "idle"}, r.pc = "search" => r.i = 0, LocalsOK(r), r.alone => self[t].alone
    PROVE  IInv'
<1> USE DEF IInv
<1>1. PICK c \in Superblocks : c = self[t].sb
  BY DEF Locals, LocalsOK
<1>2. /\ IsFiniteSet(bits[c]) /\ \A x \in bits[c] : x < 2^state[c].header
      /\ state[c].used = Cardinality(bits[c]) + Cardinality(Counting(c))
      /\ Cardinality(bits[c]) + Cardinality(Claiming(c)) <= 2^state[c].header
      /\ Cardinality(bits[c]) \in Nat /\ 2^state[c].header \in Nat
  <2>1. state[c].header \in BlockStates(pool) /\ PoolOK
    BY DEF TypeOK
  <2> QED
    BY <2>1, StateFacts, FS_CardinalityType DEF Counts
<1>3. t \in Counting(c)
  BY <1>1 DEF Counting, Users
<1>4. /\ Cardinality(Counting(c)) \in Nat /\ Cardinality(Counting(c)) > 0
      /\ Cardinality(Counting(c) \ {t}) = Cardinality(Counting(c)) - 1
  BY <1>3, CountingFinite, OneLess
<1>5. PICK n \in Nat : n = state[c].used - 1
  BY <1>2, <1>4, SMTT(20)
<1>6. Goto(t, r) /\ state' = [state EXCEPT ![c].used = n] /\ UNCHANGED bits
  BY <1>1, <1>5 DEF Discount
<1>7. SameOthers(t) /\ self'[t] = r /\ self' \in [Threads -> ThreadState]
  BY <1>6, GotoOthers
<1>8. /\ state' \in [Superblocks -> [header : BlockStates(pool), used : Nat]] /\ state'[c].used = n
      /\ \A b \in Superblocks : state'[b].header = state[b].header
      /\ \A b \in Superblocks \ {c} : state'[b] = state[b]
  BY <1>6, StateAfter
<1>9. TypeOK'
  BY <1>6, <1>7, <1>8 DEF TypeOK, PoolOK, Superblocks, BlockStates
<1>10. Locals'
  <2>1. LocalsOK(self[t])'
    BY <1>7 DEF LocalsOK, Superblocks
  <2> QED
    BY <1>7, <2>1, LocalsAfter
<1>11. Headers'
  BY <1>7, <1>8, HeadersAfter
<1>12. Bits'
  BY <1>6, <1>7, ClearingSame, BitsSame
<1>13. Counts'
  <2>1. Counting(c)' = Counting(c) \ {t} /\ Claiming(c)' = Claiming(c) \ {t}
    BY <1>7, CountingAfter DEF CountingPcs, ClaimingPcs
  <2>2. Cardinality(Claiming(c)') <= Cardinality(Claiming(c)) /\ Cardinality(Claiming(c)') \in Nat
    <3>1. Claiming(c) \ {t} \in SUBSET Claiming(c) /\ IsFiniteSet(Claiming(c))
      BY CountingFinite
    <3> QED
      BY <2>1, <3>1, FS_Subset, FS_CardinalityType
  <2>3. state'[c].used = Cardinality(bits'[c]) + Cardinality(Counting(c)')
    BY <1>2, <1>4, <1>5, <1>6, <1>8, <2>1, SMTT(20)
  <2>4. Cardinality(bits[c]) + Cardinality(Claiming(c)') <= 2^state[c].header
    BY <1>2, <2>2, CountingFinite, SMTT(20)
  <2>5. /\ IsFiniteSet(bits'[c]) /\ \A x \in bits'[c] : x < 2^(state'[c].header)
        /\ Cardinality(bits'[c]) + Cardinality(Claiming(c)') <= 2^(state'[c].header)
    BY <1>2, <1>6, <1>8, <2>4
  <2>6. \A b \in Superblocks \ {c} : state'[b] = state[b] /\ bits'[b] = bits[b]
    BY <1>6, <1>8
  <2>7. self'[t].pc \notin CountingPcs
    BY <1>7 DEF CountingPcs
  <2> QED
    BY <1>1, <1>7, <2>3, <2>5, <2>6, <2>7, CountsAfter
<1>14. Alone'
  BY <1>6, AloneAfter DEF Rests
<1> QED
  BY <1>9, <1>10, <1>11, <1>12, <1>13, <1>14

(* Taking back a failed count keeps the invariant. *)
LEMMA BackOutInv ==
    ASSUME IInv, NEW t \in Threads, At(t, "back_out"), Acquire(t)
    PROVE  IInv'
<1> USE DEF IInv
<1>1. PICK me, r : me = self[t] /\ r = Search(me)
  OBVIOUS
<1>2. me \in ThreadState /\ me.pc = "back_out" /\ LocalsOK(me) /\ PoolOK
  BY <1>1 DEF TypeOK, Locals, At
<1>3. me.k \in BlockStates(pool)
  BY <1>2 DEF LocalsOK
<1>4. r \in ThreadState /\ LocalsOK(r) /\ r.pc = "search" /\ r.i = 0 /\ r.alone = me.alone
  BY <1>1, <1>2, <1>3, SearchType
<1>5. Discount(t, self[t].sb, r) /\ UNCHANGED <<pool, hint, live, calls>>
  BY <1>1, <1>2 DEF Acquire, At
<1> QED
  BY <1>1, <1>2, <1>4, <1>5, DiscountInv

-----------------------------------------------------------------------------
(* A thread whose bit was taken tries another: the invariant holds. *)
LEMMA RetryInv ==
    ASSUME IInv, NEW t \in Threads, At(t, "set"), Acquire(t), self[t].bit \in bits[self[t].sb]
    PROVE  IInv'
<1> USE DEF IInv
<1>1. PICK me, c : me = self[t] /\ c = me.sb
  OBVIOUS
<1>2. me \in ThreadState /\ me.pc = "set" /\ LocalsOK(me) /\ PoolOK
  BY <1>1 DEF TypeOK, Locals, At
<1>3. /\ me.k \in BlockStates(pool) /\ me.expect \in BlockStates(pool) /\ me.expect <= me.k
      /\ c \in Superblocks /\ me.bit < 2^me.expect /\ me.bit \in Nat /\ me.expect \in Nat
      /\ 2^me.expect \in Nat /\ me.expect = state[c].header
  BY <1>1, <1>2, StateFacts DEF LocalsOK, ThreadState, Headers
<1>4. PICK n, r : n = NextBit(bits[c], me.bit, me.expect) /\ r = [me EXCEPT !.bit = n]
  OBVIOUS
<1>5. /\ Goto(t, r) /\ bits' = [bits EXCEPT ![c] = bits[c] \cup {me.bit}]
      /\ UNCHANGED <<state, pool, hint, live, calls>>
  BY <1>1, <1>2, <1>4 DEF Acquire, AcquireBit, At
<1>6. bits' = bits
  <2>1. bits[c] \cup {me.bit} = bits[c]
    BY <1>1
  <2> QED
    BY <1>3, <1>5, <2>1 DEF TypeOK
<1>7. n \in Nat /\ n < 2^me.expect
  <2>1. /\ IsFiniteSet(bits[c]) /\ bits[c] \subseteq Nat /\ Cardinality(bits[c]) \in Nat
        /\ Cardinality(bits[c]) + Cardinality(Claiming(c)) <= 2^me.expect
    BY <1>3, FS_CardinalityType DEF Counts, TypeOK
  <2>2. t \in Claiming(c)
    BY <1>1, <1>2 DEF Claiming, Users
  <2>3. Cardinality(Claiming(c)) \in Nat /\ Cardinality(Claiming(c)) > 0
    BY <2>2, CountingFinite, OneLess
  <2>4. Cardinality(bits[c]) < 2^me.expect
    BY <1>3, <2>1, <2>3, SMTT(20)
  <2> QED
    BY <1>3, <1>4, <2>1, <2>4, NextBitInRange
<1>8. /\ r \in ThreadState /\ r.pc = "set" /\ r.k = me.k /\ r.sb = c
      /\ r.expect = me.expect /\ r.bit = n /\ r.alone = me.alone
  BY <1>1, <1>2, <1>4, <1>7 DEF ThreadState
<1>9. LocalsOK(r)
  BY <1>3, <1>7, <1>8 DEF LocalsOK
<1>10. SameOthers(t) /\ self'[t] = r /\ self' \in [Threads -> ThreadState]
  BY <1>5, <1>8, GotoOthers
<1>11. TypeOK'
  BY <1>5, <1>6, <1>10 DEF TypeOK, PoolOK, Superblocks, BlockStates
<1>12. Locals'
  <2>1. LocalsOK(self[t])'
    BY <1>5, <1>9, <1>10 DEF LocalsOK, Superblocks
  <2> QED
    BY <1>5, <1>10, <2>1, LocalsAfter
<1>13. Headers'
  BY <1>3, <1>5, <1>8, <1>10, HeadersAfter
<1>14. Bits'
  BY <1>1, <1>2, <1>5, <1>6, <1>8, <1>10, ClearingSame, BitsSame
<1>15. Counts'
  <2>1. ASSUME NEW b PROVE Counting(b)' = Counting(b) /\ Claiming(b)' = Claiming(b)
    <3>1. \A u \in Threads : self'[u].sb = self[u].sb /\ self'[u].pc = self[u].pc
      BY <1>1, <1>2, <1>8, <1>10 DEF SameOthers
    <3> QED
      BY <3>1 DEF Counting, Claiming, Users
  <2> QED
    BY <1>5, <1>6, <2>1 DEF Counts, Superblocks
<1>16. Alone'
  BY <1>1, <1>2, <1>5, <1>8, AloneAfter DEF Rests
<1> QED
  BY <1>11, <1>12, <1>13, <1>14, <1>15, <1>16

(* A thread that sets a bit owns the block: the invariant holds. *)
LEMMA SetInv ==
    ASSUME IInv, NEW t \in Threads, At(t, "set"), Acquire(t), self[t].bit \notin bits[self[t].sb]
    PROVE  IInv'
<1> USE DEF IInv
<1>1. PICK me, c : me = self[t] /\ c = me.sb
  OBVIOUS
<1>2. me \in ThreadState /\ me.pc = "set" /\ LocalsOK(me) /\ PoolOK
  BY <1>1 DEF TypeOK, Locals, At
<1>3. /\ me.k \in BlockStates(pool) /\ me.expect \in BlockStates(pool) /\ me.expect <= me.k
      /\ c \in Superblocks /\ me.bit < 2^me.expect /\ me.bit \in Nat /\ me.expect = state[c].header
  BY <1>1, <1>2 DEF LocalsOK, ThreadState, Headers
<1>4. PICK s \in Nat, e \in Nat, k \in Nat :
         /\ s = pool.m_sb_size_lg2 /\ e = me.expect /\ k = me.k /\ e <= s /\ k <= s /\ e <= k
         /\ s - e \in Nat /\ s - k \in Nat /\ s - k <= s - e
  <2>1. pool.m_sb_size_lg2 \in Nat
    BY <1>2 DEF PoolOK
  <2>2. /\ me.expect \in Nat /\ me.k \in Nat /\ me.expect <= pool.m_sb_size_lg2 /\ me.k <= pool.m_sb_size_lg2
        /\ pool.m_sb_size_lg2 - me.expect \in Nat /\ pool.m_sb_size_lg2 - me.k \in Nat
    BY <1>2, <1>3, StateFacts
  <2>3. pool.m_sb_size_lg2 - me.k <= pool.m_sb_size_lg2 - me.expect
    BY <1>3, <2>1, <2>2, SMTT(20)
  <2> QED
    BY <1>3, <2>1, <2>2, <2>3
<1>5. PICK z, x \in Nat : z = 2^(s - e) /\ x = me.bit /\ x < 2^e
  BY <1>3, <1>4, PowType
<1>6. z \in Nat \ {0} /\ x * z \in Nat /\ x * z + z <= 2^s /\ (x * z) \div z = x
  <2>1. Fits(x, 2^(s - e), 2^s)
    BY <1>4, <1>5, BlockFits
  <2>2. Fits(x, z, 2^s)
    BY <1>5, <2>1
  <2> QED
    BY <2>2 DEF Fits
<1>7. PICK p : p = [sb |-> c, d |-> x * z, size_lg2 |-> s - e, for |-> s - k]
  OBVIOUS
<1>8. /\ Goto(t, Idle) /\ bits' = [bits EXCEPT ![c] = bits[c] \cup {x}] /\ live' = live \cup {p}
      /\ UNCHANGED <<state, pool, hint, calls>>
  BY <1>1, <1>2, <1>4, <1>5, <1>7 DEF Acquire, AcquireBit, At
<1>9. SameOthers(t) /\ self'[t] = Idle /\ self' \in [Threads -> ThreadState] /\ Idle.pc = "idle"
  BY <1>8, GotoOthers, IdleType
<1>10. p \in [sb : Superblocks, d : Nat, size_lg2 : Nat, for : Nat] /\ p.sb = c /\ p.d = x * z
       /\ p.size_lg2 = s - e /\ p.for = s - k
  BY <1>3, <1>4, <1>6, <1>7
<1>11. bits' \in [Superblocks -> SUBSET Nat] /\ bits'[c] = bits[c] \cup {x}
       /\ \A b \in Superblocks \ {c} : bits'[b] = bits[b]
  BY <1>3, <1>5, <1>8 DEF TypeOK
<1>12. TypeOK'
  BY <1>8, <1>9, <1>10, <1>11 DEF TypeOK, PoolOK, Superblocks, BlockStates
<1>13. Locals'
  <2>1. LocalsOK(self[t])'
    BY <1>9 DEF LocalsOK
  <2> QED
    BY <1>8, <1>9, <2>1, LocalsAfter
<1>14. Headers'
  <2>1. ASSUME NEW q \in live'
        PROVE  q.size_lg2 = pool.m_sb_size_lg2 - state[q.sb].header /\ q.for <= q.size_lg2
    <3>1. CASE q = p
      BY <1>3, <1>4, <1>10, <3>1
    <3>2. CASE q \in live
      BY <3>2 DEF Headers
    <3> QED
      BY <1>8, <2>1, <3>1, <3>2
  <2>2. ASSUME NEW u \in Threads, self'[u].pc \in {"set", "release", "clear"}
        PROVE  self'[u].expect = state[self'[u].sb].header
    <3>1. u # t
      BY <1>9, <2>2
    <3> QED
      BY <1>9, <2>2, <3>1 DEF Headers, SameOthers
  <2> QED
    BY <1>8, <2>1, <2>2 DEF Headers
<1>15. Counts'
  <2>1. /\ IsFiniteSet(bits[c]) /\ \A y \in bits[c] : y < 2^state[c].header
        /\ state[c].used = Cardinality(bits[c]) + Cardinality(Counting(c))
        /\ Cardinality(bits[c]) + Cardinality(Claiming(c)) <= 2^state[c].header
    BY <1>3 DEF Counts
  <2>2. t \in Counting(c) /\ t \in Claiming(c)
    BY <1>1, <1>2 DEF Counting, Claiming, Users
  <2>3. Counting(c)' = Counting(c) \ {t} /\ Claiming(c)' = Claiming(c) \ {t}
    BY <1>9, CountingAfter DEF CountingPcs, ClaimingPcs
  <2>4. /\ Cardinality(Counting(c)) \in Nat /\ Cardinality(Counting(c)') = Cardinality(Counting(c)) - 1
        /\ Cardinality(Claiming(c)) \in Nat /\ Cardinality(Claiming(c)') = Cardinality(Claiming(c)) - 1
    BY <2>2, <2>3, CountingFinite, OneLess
  <2>5. /\ IsFiniteSet(bits'[c]) /\ Cardinality(bits[c]) \in Nat
        /\ Cardinality(bits'[c]) = Cardinality(bits[c]) + 1
    BY <1>1, <1>5, <1>11, <2>1, OneMore, SMTT(20)
  <2>6. \A y \in bits'[c] : y < 2^(state'[c].header)
    BY <1>3, <1>5, <1>8, <1>11, <2>1
  <2>7. state'[c].used = Cardinality(bits'[c]) + Cardinality(Counting(c)')
    BY <1>8, <2>1, <2>4, <2>5, SMTT(20)
  <2>8. Cardinality(bits'[c]) + Cardinality(Claiming(c)') = Cardinality(bits[c]) + Cardinality(Claiming(c))
    BY <2>4, <2>5, SMTT(20)
  <2>9. Cardinality(bits'[c]) + Cardinality(Claiming(c)') <= 2^(state'[c].header)
    BY <1>8, <2>1, <2>8
  <2>10. pool' = pool /\ \A b \in Superblocks \ {c} : state'[b] = state[b] /\ bits'[b] = bits[b]
    BY <1>8, <1>11
  <2>11. self'[t].pc \notin CountingPcs
    BY <1>9 DEF CountingPcs
  <2> QED
    BY <1>1, <1>3, <1>9, <2>5, <2>6, <2>7, <2>9, <2>10, <2>11, CountsAfter
<1>16. Bits'
  <2>1. Clearing' = Clearing /\ \A u \in Clearing : self'[u].sb = self[u].sb /\ self'[u].bit = self[u].bit
    BY <1>1, <1>2, <1>9, ClearingSame
  <2>2. BitOf(p) = x /\ p.d = x * 2^p.size_lg2
    BY <1>5, <1>6, <1>10 DEF BitOf
  <2>3. \A q \in live : q.sb \in Superblocks /\ BitOf(q) \in bits[q.sb] /\ (q.sb = c => BitOf(q) # x)
    BY <1>1, <1>5, SMTT(20) DEF Bits, TypeOK
  <2>4. \A u \in Clearing : /\ self[u].sb \in Superblocks /\ self[u].bit \in bits[self[u].sb]
                            /\ (self[u].sb = c => self[u].bit # x)
    BY <1>1, <1>5 DEF Bits, Locals, LocalsOK, Clearing
  <2>5. \A b \in Superblocks : bits[b] \subseteq bits'[b]
    BY <1>11
  <2>6. ASSUME NEW q \in live \cup {p} PROVE BitOf(q) \in bits'[q.sb] /\ q.d = BitOf(q) * 2^q.size_lg2
    <3>1. CASE q = p
      BY <1>10, <1>11, <2>2, <3>1
    <3>2. CASE q \in live
      BY <2>3, <2>5, <3>2 DEF Bits
    <3> QED
      BY <3>1, <3>2
  <2>7. \A u \in Clearing : self'[u].bit \in bits'[self'[u].sb]
    BY <2>1, <2>4, <2>5
  <2>8. \A q1, q2 \in live \cup {p} : q1.sb = q2.sb /\ BitOf(q1) = BitOf(q2) => q1 = q2
    BY <1>10, <2>2, <2>3 DEF Bits
  <2>9. \A q \in live \cup {p}, u \in Clearing : q.sb = self'[u].sb => BitOf(q) # self'[u].bit
    BY <1>10, <2>1, <2>2, <2>4, SMTT(20) DEF Bits
  <2>10. \A u, v \in Clearing : self'[u].sb = self'[v].sb /\ self'[u].bit = self'[v].bit => u = v
    BY <2>1, SMTT(20) DEF Bits
  <2>11. ASSUME NEW b \in Superblocks, NEW y \in bits'[b]
         PROVE  \/ \E q \in live \cup {p} : q.sb = b /\ BitOf(q) = y
                \/ \E u \in Clearing : self'[u].sb = b /\ self'[u].bit = y
    <3>1. CASE y \in bits[b]
      BY <2>1, <3>1, SMTT(20) DEF Bits
    <3>2. CASE b = c /\ y = x
      BY <1>10, <2>2, <3>2
    <3> QED
      BY <1>11, <2>11, <3>1, <3>2
  <2>12. Superblocks' = Superblocks
    BY <1>8 DEF Superblocks
  <2> QED
    BY <1>8, <2>1, <2>6, <2>7, <2>8, <2>9, <2>10, <2>11, <2>12, BitsFrom, SMTT(20)
<1>17. Alone'
  BY <1>1, <1>2, <1>8, IdleType, AloneAfter DEF Rests
<1> QED
  BY <1>12, <1>13, <1>14, <1>15, <1>16, <1>17

(* acquire_bounded_lg2 keeps the invariant. *)
LEMMA AcquireInv ==
    ASSUME IInv, NEW t \in Threads, Acquire(t)
    PROVE  IInv'
<1>1. At(t, "count") \/ At(t, "back_out") \/ At(t, "set")
  BY DEF Acquire
<1> QED
  BY <1>1, CountInv, BackOutInv, RetryInv, SetInv

-----------------------------------------------------------------------------
(* A block that a caller holds: its superblock, its size and its bit. *)
LEMMA LiveFacts ==
    ASSUME TypeOK, Counts, Headers, Bits, NEW p \in live
    PROVE  \E s, h, x \in Nat : /\ s = pool.m_sb_size_lg2 /\ h = state[p.sb].header /\ h <= s
                                /\ p.size_lg2 = s - h /\ s - h \in Nat
                                /\ x = BitOf(p) /\ x < 2^h /\ x \in bits[p.sb]
                                /\ p.d = x * 2^(s - h) /\ p.sb \in Superblocks
<1>1. /\ p.sb \in Superblocks /\ state[p.sb].header \in BlockStates(pool) /\ PoolOK
      /\ bits[p.sb] \subseteq Nat
  BY DEF TypeOK
<1>2. PICK s \in Nat : s = pool.m_sb_size_lg2
  BY <1>1 DEF PoolOK
<1>3. PICK h \in Nat : h = state[p.sb].header /\ h <= s /\ s - h \in Nat
  BY <1>1, <1>2, StateFacts
<1>4. BitOf(p) \in bits[p.sb] /\ p.d = BitOf(p) * 2^p.size_lg2 /\ p.size_lg2 = s - h
  BY <1>2, <1>3 DEF Bits, Headers
<1>5. BitOf(p) \in Nat /\ BitOf(p) < 2^h
  BY <1>1, <1>3, <1>4 DEF Counts
<1> QED
  BY <1>1, <1>2, <1>3, <1>4, <1>5

(* The beginning of deallocate keeps the invariant: the address of a block *)
(* that a caller holds is never taken for an erroneous pointer.            *)
LEMMA DeallocateInv ==
    ASSUME IInv, NEW t \in Threads, Deallocate(t)
    PROVE  IInv'
<1> USE DEF IInv
<1>1. PICK p \in live : LET k == state[p.sb].header
                            size == 2^(pool.m_sb_size_lg2 - k)
                        IN /\ Call(t, IF (p.d % size) # 0 THEN [Idle EXCEPT !.pc = "abort"]
                                      ELSE [Idle EXCEPT !.pc = "release", !.sb = p.sb, !.expect = k,
                                                        !.bit = p.d \div size])
                           /\ live' = live \ {p}
                           /\ UNCHANGED <<state, bits, pool, hint>>
  BY DEF Deallocate
<1>2. PICK s, h, x \in Nat : /\ s = pool.m_sb_size_lg2 /\ h = state[p.sb].header /\ h <= s
                             /\ p.size_lg2 = s - h /\ s - h \in Nat
                             /\ x = BitOf(p) /\ x < 2^h /\ x \in bits[p.sb]
                             /\ p.d = x * 2^(s - h) /\ p.sb \in Superblocks
  BY LiveFacts
<1>3. PICK z : z = 2^(s - h)
  OBVIOUS
<1>4. (x * z) \div z = x /\ (x * z) % z = 0
  <2>1. Fits(x, 2^(s - h), 2^s)
    BY <1>2, BlockFits
  <2>2. Fits(x, z, 2^s)
    BY <1>3, <2>1
  <2> QED
    BY <2>2 DEF Fits
<1>5. p.d % z = 0 /\ p.d \div z = x
  BY <1>2, <1>3, <1>4
<1>6. PICK r : r = [Idle EXCEPT !.pc = "release", !.sb = p.sb, !.expect = h, !.bit = x]
  OBVIOUS
<1>7. Call(t, r) /\ live' = live \ {p} /\ UNCHANGED <<state, bits, pool, hint>>
  BY <1>1, <1>2, <1>3, <1>5, <1>6
<1>8. /\ r \in ThreadState /\ r.pc = "release" /\ r.sb = p.sb /\ r.expect = h /\ r.bit = x
      /\ r.alone = FALSE
  <2>1. "release" \in Pcs /\ p.sb \in Int /\ h \in Int
    BY <1>2, SMTT(20) DEF Pcs, Superblocks
  <2> QED
    BY <1>6, <2>1, IdleType DEF ThreadState
<1>9. SameOthers(t) /\ self'[t] = r /\ self' \in [Threads -> ThreadState] /\ Rests(t) /\ calls' \in Nat
  BY <1>7, <1>8, CallOthers
<1>10. TypeOK'
  BY <1>7, <1>9 DEF TypeOK, PoolOK, Superblocks, BlockStates
<1>11. Locals'
  <2>1. LocalsOK(self[t])'
    BY <1>2, <1>7, <1>8, <1>9 DEF LocalsOK, Superblocks
  <2> QED
    BY <1>7, <1>9, <2>1, LocalsAfter
<1>12. Headers'
  BY <1>2, <1>7, <1>8, <1>9, HeadersAfter
<1>13. Counts'
  <2>1. ASSUME NEW b PROVE Counting(b)' = Counting(b) /\ Claiming(b)' = Claiming(b)
    <3>1. self[t].pc \notin CountingPcs /\ self[t].pc \notin ClaimingPcs
      BY <1>9 DEF CountingPcs, ClaimingPcs, Rests
    <3>2. self'[t].pc \notin CountingPcs /\ self'[t].pc \notin ClaimingPcs
      BY <1>8, <1>9 DEF CountingPcs, ClaimingPcs
    <3>3. t \notin Counting(b) /\ t \notin Claiming(b)
      BY <1>9, <3>1, CountingAfter
    <3>4. Counting(b)' = Counting(b) \ {t} /\ Claiming(b)' = Claiming(b) \ {t}
      BY <1>9, <3>2, CountingAfter
    <3> QED
      BY <3>3, <3>4
  <2> QED
    BY <1>7, <2>1 DEF Counts, Superblocks
<1>14. Bits'
  <2>1. Clearing' = Clearing \cup {t} /\ t \notin Clearing
    BY <1>8, <1>9 DEF Clearing, SameOthers, Rests
  <2>2. \A u \in Clearing : self'[u].sb = self[u].sb /\ self'[u].bit = self[u].bit
    BY <1>9, <2>1 DEF Clearing, SameOthers
  <2>3. self'[t].sb = p.sb /\ self'[t].bit = x
    BY <1>8, <1>9
  <2>4. \A q \in live \ {p} : BitOf(q) \in bits'[q.sb] /\ q.d = BitOf(q) * 2^q.size_lg2
    BY <1>7 DEF Bits
  <2>5. \A u \in Clearing \cup {t} : self'[u].bit \in bits'[self'[u].sb]
    BY <1>2, <1>7, <2>2, <2>3, SMTT(20) DEF Bits
  <2>6. \A q1, q2 \in live \ {p} : q1.sb = q2.sb /\ BitOf(q1) = BitOf(q2) => q1 = q2
    BY DEF Bits
  <2>7. \A u, v \in Clearing \cup {t} : self'[u].sb = self'[v].sb /\ self'[u].bit = self'[v].bit => u = v
    BY <1>2, <2>2, <2>3, SMTT(20) DEF Bits
  <2>8. \A q \in live \ {p}, u \in Clearing \cup {t} : q.sb = self'[u].sb => BitOf(q) # self'[u].bit
    BY <1>2, <2>2, <2>3, SMTT(20) DEF Bits
  <2>9. ASSUME NEW b \in Superblocks, NEW y \in bits[b]
        PROVE  \/ \E q \in live \ {p} : q.sb = b /\ BitOf(q) = y
               \/ \E u \in Clearing \cup {t} : self'[u].sb = b /\ self'[u].bit = y
    <3>1. CASE b = p.sb /\ y = x
      BY <2>3, <3>1
    <3>2. CASE \E q \in live : q.sb = b /\ BitOf(q) = y
      BY <1>2, <2>3, <3>2
    <3>3. CASE \E u \in Clearing : self[u].sb = b /\ self[u].bit = y
      BY <2>2, <3>3
    <3> QED
      BY <3>2, <3>3 DEF Bits
  <2>10. \A b \in Superblocks' : \A y \in bits'[b] :
            \/ \E q \in live \ {p} : q.sb = b /\ BitOf(q) = y
            \/ \E u \in Clearing \cup {t} : self'[u].sb = b /\ self'[u].bit = y
    <3>1. Superblocks' = Superblocks /\ bits' = bits
      BY <1>7 DEF Superblocks
    <3> QED
      BY <2>9, <3>1
  <2>11. live' = live \ {p}
    BY <1>7
  <2>12. PICK L, C : L = live \ {p} /\ C = Clearing \cup {t}
    OBVIOUS
  <2>13. live' = L /\ Clearing' = C
    BY <2>1, <2>11, <2>12
  <2>14. /\ \A q \in L : BitOf(q) \in bits'[q.sb] /\ q.d = BitOf(q) * 2^q.size_lg2
         /\ \A q1, q2 \in L : q1.sb = q2.sb /\ BitOf(q1) = BitOf(q2) => q1 = q2
    BY <2>4, <2>6, <2>12
  <2>15. /\ \A u \in C : self'[u].bit \in bits'[self'[u].sb]
         /\ \A u, v \in C : self'[u].sb = self'[v].sb /\ self'[u].bit = self'[v].bit => u = v
    BY <2>5, <2>7, <2>12
  <2>16. \A q \in L, u \in C : q.sb = self'[u].sb => BitOf(q) # self'[u].bit
    BY <2>8, <2>12
  <2>17. \A b \in Superblocks' : \A y \in bits'[b] :
            \/ \E q \in L : q.sb = b /\ BitOf(q) = y
            \/ \E u \in C : self'[u].sb = b /\ self'[u].bit = y
    BY <2>10, <2>12, SMTT(20)
  <2> QED
    BY <2>13, <2>14, <2>15, <2>16, <2>17, BitsFrom, SMTT(20)
<1>15. Alone'
  BY <1>7, <1>8, AloneCall
<1> QED
  BY <1>10, <1>11, <1>12, <1>13, <1>14, <1>15

(* The check of the header in release succeeds and keeps the invariant. *)
LEMMA CheckInv ==
    ASSUME IInv, NEW t \in Threads, At(t, "release"), Release(t)
    PROVE  IInv'
<1> USE DEF IInv
<1>1. PICK me, r : me = self[t] /\ r = [me EXCEPT !.pc = "clear"]
  OBVIOUS
<1>2. me \in ThreadState /\ me.pc = "release" /\ LocalsOK(me) /\ PoolOK
  BY <1>1 DEF TypeOK, Locals, At
<1>3. me.sb \in Superblocks /\ me.expect = state[me.sb].header
  BY <1>1, <1>2 DEF LocalsOK, Headers
<1>4. Goto(t, r) /\ UNCHANGED <<state, bits, pool, hint, live, calls>>
  BY <1>1, <1>2, <1>3 DEF Release, ReleaseCheck, At
<1>5. /\ r \in ThreadState /\ r.pc = "clear" /\ r.sb = me.sb
      /\ r.expect = me.expect /\ r.bit = me.bit /\ r.alone = me.alone
  <2>1. "clear" \in Pcs
    BY DEF Pcs
  <2> QED
    BY <1>1, <1>2, <2>1 DEF ThreadState
<1>6. SameOthers(t) /\ self'[t] = r /\ self' \in [Threads -> ThreadState]
  BY <1>4, <1>5, GotoOthers
<1>7. TypeOK'
  BY <1>4, <1>6 DEF TypeOK, PoolOK, Superblocks, BlockStates
<1>8. Locals'
  <2>1. LocalsOK(self[t])'
    BY <1>3, <1>4, <1>5, <1>6 DEF LocalsOK, Superblocks
  <2> QED
    BY <1>4, <1>6, <2>1, LocalsAfter
<1>9. Headers'
  BY <1>3, <1>4, <1>5, <1>6, HeadersAfter
<1>10. Counts'
  <2>1. ASSUME NEW b PROVE Counting(b)' = Counting(b) /\ Claiming(b)' = Claiming(b)
    <3>1. self[t].pc \notin CountingPcs /\ self[t].pc \notin ClaimingPcs
      BY <1>1, <1>2 DEF CountingPcs, ClaimingPcs
    <3>2. self'[t].pc \notin CountingPcs /\ self'[t].pc \notin ClaimingPcs
      BY <1>5, <1>6 DEF CountingPcs, ClaimingPcs
    <3>3. t \notin Counting(b) /\ t \notin Claiming(b)
      BY <1>6, <3>1, CountingAfter
    <3>4. Counting(b)' = Counting(b) \ {t} /\ Claiming(b)' = Claiming(b) \ {t}
      BY <1>6, <3>2, CountingAfter
    <3> QED
      BY <3>3, <3>4
  <2> QED
    BY <1>4, <2>1 DEF Counts, Superblocks
<1>11. Bits'
  <2>1. Clearing' = Clearing /\ \A u \in Clearing : self'[u].sb = self[u].sb /\ self'[u].bit = self[u].bit
    <3>1. \A u \in Threads : /\ self'[u].sb = self[u].sb /\ self'[u].bit = self[u].bit
                             /\ self'[u].pc \in {"release", "clear"} <=> self[u].pc \in {"release", "clear"}
      BY <1>1, <1>2, <1>5, <1>6 DEF SameOthers
    <3> QED
      BY <3>1 DEF Clearing
  <2> QED
    BY <1>4, <2>1, BitsSame
<1>12. Alone'
  BY <1>1, <1>2, <1>4, <1>5, AloneAfter DEF Rests
<1> QED
  BY <1>7, <1>8, <1>9, <1>10, <1>11, <1>12

(* Clearing the bit keeps the invariant; it was set. *)
LEMMA ClearInv ==
    ASSUME IInv, NEW t \in Threads, At(t, "clear"), Release(t)
    PROVE  IInv'
<1> USE DEF IInv
<1>1. PICK me, c, x, r : me = self[t] /\ c = me.sb /\ x = me.bit /\ r = [me EXCEPT !.pc = "discount"]
  OBVIOUS
<1>2. me \in ThreadState /\ me.pc = "clear" /\ LocalsOK(me) /\ PoolOK
  BY <1>1 DEF TypeOK, Locals, At
<1>3. c \in Superblocks /\ t \in Clearing /\ x \in bits[c]
  BY <1>1, <1>2 DEF LocalsOK, Bits, Clearing
<1>4. /\ Goto(t, r) /\ bits' = [bits EXCEPT ![c] = bits[c] \ {x}]
      /\ UNCHANGED <<state, pool, hint, live, calls>>
  BY <1>1, <1>2, <1>3 DEF Release, ReleaseBit, At
<1>5. /\ r \in ThreadState /\ r.pc = "discount" /\ r.sb = c /\ r.alone = me.alone
  <2>1. "discount" \in Pcs
    BY DEF Pcs
  <2> QED
    BY <1>1, <1>2, <2>1 DEF ThreadState
<1>6. SameOthers(t) /\ self'[t] = r /\ self' \in [Threads -> ThreadState]
  BY <1>4, <1>5, GotoOthers
<1>7. bits' \in [Superblocks -> SUBSET Nat] /\ bits'[c] = bits[c] \ {x}
      /\ \A b \in Superblocks \ {c} : bits'[b] = bits[b]
  BY <1>3, <1>4 DEF TypeOK
<1>8. TypeOK'
  BY <1>4, <1>6, <1>7 DEF TypeOK, PoolOK, Superblocks, BlockStates
<1>9. Locals'
  <2>1. LocalsOK(self[t])'
    BY <1>3, <1>4, <1>5, <1>6 DEF LocalsOK, Superblocks
  <2> QED
    BY <1>4, <1>6, <2>1, LocalsAfter
<1>10. Headers'
  BY <1>4, <1>5, <1>6, HeadersAfter
<1>11. Counts'
  <2>1. /\ IsFiniteSet(bits[c]) /\ \A y \in bits[c] : y < 2^state[c].header
        /\ state[c].used = Cardinality(bits[c]) + Cardinality(Counting(c))
        /\ Cardinality(bits[c]) + Cardinality(Claiming(c)) <= 2^state[c].header
    BY <1>3 DEF Counts
  <2>2. t \notin Counting(c) /\ t \notin Claiming(c)
    BY <1>1, <1>2 DEF Counting, Claiming, Users
  <2>3. Counting(c)' = Counting(c) \cup {t} /\ Claiming(c)' = Claiming(c) \cup {t}
    BY <1>5, <1>6, CountingAfter DEF CountingPcs, ClaimingPcs
  <2>4. /\ Cardinality(Counting(c)) \in Nat /\ Cardinality(Counting(c)') = Cardinality(Counting(c)) + 1
        /\ Cardinality(Claiming(c)) \in Nat /\ Cardinality(Claiming(c)') = Cardinality(Claiming(c)) + 1
    BY <2>2, <2>3, CountingFinite, OneMore
  <2>5. /\ IsFiniteSet(bits'[c]) /\ Cardinality(bits[c]) \in Nat
        /\ Cardinality(bits'[c]) = Cardinality(bits[c]) - 1
    BY <1>3, <1>7, <2>1, OneLess, SMTT(20)
  <2>6. \A y \in bits'[c] : y < 2^(state'[c].header)
    BY <1>4, <1>7, <2>1
  <2>7. state'[c].used = Cardinality(bits'[c]) + Cardinality(Counting(c)')
    BY <1>4, <2>1, <2>4, <2>5, SMTT(20)
  <2>8. Cardinality(bits'[c]) + Cardinality(Claiming(c)') = Cardinality(bits[c]) + Cardinality(Claiming(c))
    BY <2>4, <2>5, SMTT(20)
  <2>9. Cardinality(bits'[c]) + Cardinality(Claiming(c)') <= 2^(state'[c].header)
    BY <1>4, <2>1, <2>8
  <2>10. pool' = pool /\ \A b \in Superblocks \ {c} : state'[b] = state[b] /\ bits'[b] = bits[b]
    BY <1>4, <1>7
  <2>11. self[t].sb = c /\ self'[t].sb = c
    BY <1>1, <1>5, <1>6
  <2> QED
    BY <1>3, <1>6, <2>5, <2>6, <2>7, <2>9, <2>10, <2>11, CountsAfter
<1>12. Bits'
  <2>1. Clearing' = Clearing \ {t}
    BY <1>5, <1>6 DEF Clearing, SameOthers
  <2>2. \A u \in Clearing \ {t} : self'[u].sb = self[u].sb /\ self'[u].bit = self[u].bit
    BY <1>6 DEF Clearing, SameOthers
  <2>3. \A b \in Superblocks : \A y \in bits[b] : ~(b = c /\ y = x) => y \in bits'[b]
    BY <1>7
  <2>4. ASSUME NEW q \in live PROVE BitOf(q) \in bits'[q.sb] /\ q.d = BitOf(q) * 2^q.size_lg2
    <3>1. q.sb \in Superblocks /\ BitOf(q) \in bits[q.sb] /\ ~(q.sb = c /\ BitOf(q) = x)
      BY <1>1, <1>3 DEF Bits, TypeOK
    <3> QED
      BY <2>3, <3>1 DEF Bits
  <2>5. ASSUME NEW u \in Clearing \ {t} PROVE self'[u].bit \in bits'[self'[u].sb]
    <3>1. /\ self[u].sb \in Superblocks /\ self[u].bit \in bits[self[u].sb]
          /\ ~(self[u].sb = c /\ self[u].bit = x)
      BY <1>1, <1>3 DEF Bits, Locals, LocalsOK, Clearing
    <3> QED
      BY <2>2, <2>3, <3>1
  <2>6. \A q1, q2 \in live : q1.sb = q2.sb /\ BitOf(q1) = BitOf(q2) => q1 = q2
    BY DEF Bits
  <2>7. \A u, v \in Clearing \ {t} : self'[u].sb = self'[v].sb /\ self'[u].bit = self'[v].bit => u = v
    BY <2>2, SMTT(20) DEF Bits
  <2>8. \A q \in live, u \in Clearing \ {t} : q.sb = self'[u].sb => BitOf(q) # self'[u].bit
    BY <2>2, SMTT(20) DEF Bits
  <2>9. ASSUME NEW b \in Superblocks, NEW y \in bits'[b]
        PROVE  \/ \E q \in live : q.sb = b /\ BitOf(q) = y
               \/ \E u \in Clearing \ {t} : self'[u].sb = b /\ self'[u].bit = y
    <3>1. y \in bits[b] /\ ~(b = c /\ y = x)
      BY <1>7
    <3>2. CASE \E u \in Clearing : self[u].sb = b /\ self[u].bit = y
      <4>1. PICK u \in Clearing : self[u].sb = b /\ self[u].bit = y
        BY <3>2
      <4>2. u # t
        BY <1>1, <3>1, <4>1
      <4> QED
        BY <2>2, <4>1, <4>2
    <3> QED
      BY <3>1, <3>2 DEF Bits
  <2>10. Superblocks' = Superblocks
    BY <1>4 DEF Superblocks
  <2>11. \A b \in Superblocks' : \A y \in bits'[b] :
            \/ \E q \in live : q.sb = b /\ BitOf(q) = y
            \/ \E u \in Clearing \ {t} : self'[u].sb = b /\ self'[u].bit = y
    BY <2>9, <2>10
  <2> QED
    BY <1>4, <2>1, <2>4, <2>5, <2>6, <2>7, <2>8, <2>11, BitsFrom, SMTT(20)
<1>13. Alone'
  BY <1>1, <1>2, <1>4, <1>5, AloneAfter DEF Rests
<1> QED
  BY <1>8, <1>9, <1>10, <1>11, <1>12, <1>13

(* release keeps the invariant. *)
LEMMA ReleaseInv ==
    ASSUME IInv, NEW t \in Threads, Release(t)
    PROVE  IInv'
<1>1. CASE At(t, "discount")
  <2>1. Discount(t, self[t].sb, Idle) /\ UNCHANGED <<pool, hint, live, calls>>
    BY <1>1 DEF Release, At
  <2>2. LocalsOK(Idle)
    BY IdleType DEF LocalsOK
  <2> QED
    BY <1>1, <2>1, <2>2, IdleType, DiscountInv DEF At
<1> QED
  BY <1>1, CheckInv, ClearInv DEF Release

-----------------------------------------------------------------------------
(* A larger size is contained by a power that is no smaller. *)
LEMMA PowerMonotonic ==
    ASSUME NEW a \in Nat, NEW b \in Nat, a <= b
    PROVE  /\ integral_power_of_two_that_contains(a) \in Nat /\ integral_power_of_two_that_contains(b) \in Nat
           /\ integral_power_of_two_that_contains(a) <= integral_power_of_two_that_contains(b)
<1>1. PICK i, j : i = integral_power_of_two_that_contains(a) /\ j = integral_power_of_two_that_contains(b)
  OBVIOUS
<1>2. i \in Nat /\ \A n \in Nat : a <= 2^n => i <= n
  BY <1>1, PowerThatContains
<1>3. j \in Nat /\ b <= 2^j
  BY <1>1, PowerThatContains
<1>4. a <= 2^j
  BY <1>3, PowType, SMTT(20)
<1> QED
  BY <1>1, <1>2, <1>3, <1>4

(* The members that the constructor derives from sizes that pass its       *)
(* verification.                                                           *)
LEMMA MembersOK ==
    ASSUME NEW c \in Pools, memory_pool_bounds_verification(c), pool = Members(c)
    PROVE  PoolOK
<1>1. PICK lo, hi, sb, tot \in Nat \ {0} :
         /\ lo = c.min_block_alloc_size /\ hi = c.max_block_alloc_size
         /\ sb = c.min_superblock_size /\ tot = c.min_total_alloc_size
  BY PoolsAssumption
<1>2. lo <= hi /\ hi <= sb /\ sb <= tot
  BY <1>1 DEF memory_pool_bounds_verification
<1>3. PICK llo, lhi, lsb \in Nat :
         /\ llo = integral_power_of_two_that_contains(lo) /\ lhi = integral_power_of_two_that_contains(hi)
         /\ lsb = integral_power_of_two_that_contains(sb) /\ llo <= lhi /\ lhi <= lsb
  BY <1>2, PowerMonotonic
<1>4. PICK size \in Nat \ {0} : size = 2^lsb
  BY PowType, SMTT(20)
<1>5. PICK q : q = (tot + size - 1) \div size
  OBVIOUS
<1>6. q \in Nat \ {0}
  BY <1>5, SMTT(20)
<1>7. pool = [m_min_block_size_lg2 |-> llo, m_max_block_size_lg2 |-> lhi, m_sb_size_lg2 |-> lsb,
              m_sb_count |-> q, callers |-> c.callers, requests |-> c.requests,
              attempt_limit |-> c.attempt_limit]
  BY <1>1, <1>3, <1>4, <1>5 DEF Members
<1>8. c.callers \subseteq Threads /\ c.requests \subseteq Nat /\ c.attempt_limit \in Nat \ {0}
  BY PoolsAssumption
<1> QED
  BY <1>3, <1>6, <1>7, <1>8, SMTT(20) DEF PoolOK

(* The constructor establishes the invariant. *)
LEMMA InitInv ==
    ASSUME Init
    PROVE  IInv
<1>1. PICK c \in Pools :
         /\ memory_pool_bounds_verification(c) /\ pool = Members(c)
         /\ state = [b \in Superblocks |-> [header |-> Assigned(pool, b), used |-> 0]]
         /\ bits = [b \in Superblocks |-> {}]
         /\ hint = [k \in BlockStates(pool) |-> SbIdBegin(pool, k)]
         /\ self = [t \in Threads |-> Idle]
         /\ live = {} /\ calls = c.calls
  BY DEF Init
<1>2. PoolOK
  BY <1>1, MembersOK
<1>3. TypeOK
  <2>1. state \in [Superblocks -> [header : BlockStates(pool), used : Nat]]
    BY <1>1, <1>2, AssignedIsState
  <2>2. hint \in [BlockStates(pool) -> Superblocks]
    BY <1>1, <1>2, StateFacts
  <2>3. self \in [Threads -> ThreadState]
    BY <1>1, IdleType
  <2>4. calls \in Nat
    BY <1>1, PoolsAssumption
  <2> QED
    BY <1>1, <1>2, <2>1, <2>2, <2>3, <2>4 DEF TypeOK
<1>4. \A t \in Threads : self[t] = Idle
  BY <1>1
<1>5. Locals
  BY <1>4, IdleType DEF Locals, LocalsOK
<1>6. Counts
  <2>1. ASSUME NEW b \in Superblocks
        PROVE  bits[b] = {} /\ Counting(b) = {} /\ Claiming(b) = {} /\ state[b].used = 0
               /\ 2^state[b].header \in Nat
    <3>1. state[b].header \in BlockStates(pool)
      BY <1>3 DEF TypeOK
    <3> QED
      BY <1>1, <1>2, <1>4, <3>1, IdleType, StateFacts DEF Counting, Claiming, Users
  <2>2. IsFiniteSet({}) /\ Cardinality({}) = 0
    BY FS_EmptySet
  <2>3. ASSUME NEW b \in Superblocks
        PROVE  /\ IsFiniteSet(bits[b]) /\ \A x \in bits[b] : x < 2^state[b].header
               /\ Cardinality(bits[b]) = 0 /\ Cardinality(Counting(b)) = 0 /\ Cardinality(Claiming(b)) = 0
    BY <2>1, <2>2
  <2> QED
    BY <2>1, <2>3, SMTT(20) DEF Counts
<1>7. Headers
  BY <1>1, <1>4, IdleType DEF Headers
<1>8. Bits
  <2>1. Clearing = {}
    BY <1>4, IdleType DEF Clearing
  <2> QED
    BY <1>1, <2>1 DEF Bits
<1>9. Alone
  BY <1>4, IdleType DEF Alone
<1> QED
  BY <1>3, <1>5, <1>6, <1>7, <1>8, <1>9 DEF IInv

(* A step that changes nothing keeps the invariant. *)
LEMMA StutterInv ==
    ASSUME IInv, UNCHANGED vars
    PROVE  IInv'
<1>1. UNCHANGED <<state, bits, self, pool, hint, live, calls>>
  BY DEF vars
<1>2. TypeOK'
  BY <1>1 DEF IInv, TypeOK, PoolOK, Superblocks, BlockStates
<1>3. Locals'
  BY <1>1 DEF IInv, Locals, LocalsOK, Superblocks
<1>4. Clearing' = Clearing /\ \A b : Counting(b)' = Counting(b) /\ Claiming(b)' = Claiming(b)
  BY <1>1 DEF Clearing, Counting, Claiming, Users
<1>5. Counts'
  BY <1>1, <1>4 DEF IInv, Counts, Superblocks
<1>6. Headers'
  BY <1>1 DEF IInv, Headers
<1>7. Bits'
  BY <1>1, <1>4, BitsSame DEF IInv
<1>8. Alone'
  BY <1>1 DEF IInv, Alone, Rests, NoRoom, Candidate, SbIdBegin, Superblocks
<1> QED
  BY <1>2, <1>3, <1>5, <1>6, <1>7, <1>8 DEF IInv

(* Every step keeps the invariant. *)
LEMMA NextInv ==
    ASSUME IInv, [Next]_vars
    PROVE  IInv'
<1>1. CASE UNCHANGED vars
  BY <1>1, StutterInv
<1>2. CASE Next
  <2>1. PICK t \in Threads : Allocate(t) \/ Deallocate(t) \/ Step(t)
    BY <1>2 DEF Next
  <2>2. CASE Step(t)
    BY <2>2, ReadHintInv, TestInv, AcquireInv, QueryStateInv, ReadEmptyInv, ClaimEmptyInv, UpdateHintInv,
       ReleaseInv DEF Step
  <2> QED
    BY <2>1, <2>2, AllocateInv, DeallocateInv
<1> QED
  BY <1>1, <1>2

(* IInv is an invariant of the pool. *)
THEOREM PoolInvariant == Spec => []IInv
<1>1. Init => IInv
  BY InitInv
<1>2. IInv /\ [Next]_vars => IInv'
  BY NextInv
<1> QED
  BY <1>1, <1>2, PTL DEF Spec

-----------------------------------------------------------------------------
(* The invariant implies that blocks do not overlap: in one superblock     *)
(* they have one size and different bits.                                  *)
LEMMA DisjointBlocks ==
    ASSUME IInv
    PROVE  BlocksAreDisjoint
<1> USE DEF IInv
<1>1. ASSUME NEW p \in live PROVE p.for <= p.size_lg2 /\ p.d + 2^p.size_lg2 <= 2^pool.m_sb_size_lg2
  <2>1. PICK s, h, x \in Nat : /\ s = pool.m_sb_size_lg2 /\ h = state[p.sb].header /\ h <= s
                               /\ p.size_lg2 = s - h /\ s - h \in Nat
                               /\ x = BitOf(p) /\ x < 2^h /\ x \in bits[p.sb]
                               /\ p.d = x * 2^(s - h) /\ p.sb \in Superblocks
    BY LiveFacts
  <2>2. Fits(x, 2^(s - h), 2^s)
    BY <2>1, BlockFits
  <2>3. x * 2^(s - h) + 2^(s - h) <= 2^s
    BY <2>2 DEF Fits
  <2>4. p.for <= p.size_lg2
    BY DEF Headers
  <2>5. p.d + 2^p.size_lg2 = x * 2^(s - h) + 2^(s - h)
    BY <2>1
  <2> QED
    BY <2>1, <2>3, <2>4, <2>5
<1>2. ASSUME NEW p \in live, NEW q \in live, p # q, NEW y \in Bytes(p), y \in Bytes(q) PROVE FALSE
  <2>1. PICK d, e : /\ d \in p.d..(p.d + 2^p.size_lg2 - 1) /\ y = <<p.sb, d>>
                    /\ e \in q.d..(q.d + 2^q.size_lg2 - 1) /\ y = <<q.sb, e>>
    BY <1>2 DEF Bytes
  <2>2. p.sb = q.sb /\ d = e
    BY <2>1, SMTT(20)
  <2>3. PICK s, h, x \in Nat : /\ s = pool.m_sb_size_lg2 /\ h = state[p.sb].header /\ h <= s
                               /\ p.size_lg2 = s - h /\ s - h \in Nat
                               /\ x = BitOf(p) /\ x < 2^h /\ x \in bits[p.sb]
                               /\ p.d = x * 2^(s - h) /\ p.sb \in Superblocks
    BY LiveFacts
  <2>4. PICK w \in Nat : w = BitOf(q) /\ q.size_lg2 = s - h /\ q.d = w * 2^(s - h)
    BY <2>2, <2>3, LiveFacts
  <2>5. PICK z \in Nat \ {0} : z = 2^(s - h)
    BY <2>3, PowType, SMTT(20)
  <2>6. x # w
    BY <1>2, <2>2, <2>3, <2>4 DEF Bits
  <2>7. d \in (x * z)..(x * z + z - 1) /\ d \in (w * z)..(w * z + z - 1)
    BY <2>1, <2>2, <2>3, <2>4, <2>5
  <2> QED
    BY <2>6, <2>7, BlocksApart
<1>3. \A p, q \in live : p # q => Bytes(p) \cap Bytes(q) = {}
  BY <1>2
<1> QED
  BY <1>1, <1>3 DEF BlocksAreDisjoint

(* The invariant implies that the count covers the blocks that callers     *)
(* hold, and is their number when no call is in progress: each block has a *)
(* bit of its own, and each bit that is set then has a block.              *)
LEMMA ExactUsage ==
    ASSUME IInv
    PROVE  UsageIsExact
<1> USE DEF IInv
<1> SUFFICES ASSUME NEW b \in Superblocks, NEW held, held = {p \in live : p.sb = b}
             PROVE  /\ Cardinality(held) <= state[b].used
                    /\ \A p \in held : state[b].header = pool.m_sb_size_lg2 - p.size_lg2
                    /\ (\A t \in Threads : Rests(t)) =>
                          /\ state[b].used = Cardinality(held)
                          /\ bits[b] = {p.d \div 2^p.size_lg2 : p \in held}
  BY DEF UsageIsExact
<1>1. PICK f : f = [p \in held |-> BitOf(p)]
  OBVIOUS
<1>2. \A p \in held : f[p] = BitOf(p) /\ p \in live /\ p.sb = b /\ BitOf(p) \in bits[b]
  BY <1>1 DEF Bits
<1>3. f \in Injection(held, bits[b])
  <2>1. f \in [held -> bits[b]]
    BY <1>1, <1>2
  <2>2. \A p, q \in held : f[p] = f[q] => p = q
    BY <1>2, SMTT(20) DEF Bits
  <2> QED
    BY <2>1, <2>2 DEF Injection, IsInjective
<1>4. /\ IsFiniteSet(bits[b]) /\ state[b].used = Cardinality(bits[b]) + Cardinality(Counting(b))
      /\ Cardinality(bits[b]) \in Nat /\ Cardinality(Counting(b)) \in Nat
  BY FS_CardinalityType, CountingFinite DEF Counts
<1>5. /\ IsFiniteSet(held) /\ Cardinality(held) <= Cardinality(bits[b])
      /\ f \in Surjection(held, bits[b]) => Cardinality(held) = Cardinality(bits[b])
  BY <1>3, <1>4, FS_Injection
<1>6. Cardinality(held) <= state[b].used
  <2>1. Cardinality(held) \in Nat
    BY <1>5, FS_CardinalityType
  <2> QED
    BY <1>4, <1>5, <2>1, SMTT(20)
<1>7. ASSUME NEW p \in held PROVE state[b].header = pool.m_sb_size_lg2 - p.size_lg2
  <2>1. PICK s, h \in Nat : s = pool.m_sb_size_lg2 /\ h = state[b].header /\ p.size_lg2 = s - h
    BY <1>2, LiveFacts, SMTT(20)
  <2> QED
    BY <2>1, SMTT(20)
<1>8. ASSUME \A t \in Threads : Rests(t)
      PROVE  state[b].used = Cardinality(held) /\ bits[b] = {p.d \div 2^p.size_lg2 : p \in held}
  <2>1. Counting(b) = {} /\ Clearing = {}
    BY <1>8 DEF Rests, Counting, Users, Clearing
  <2>2. \A x \in bits[b] : \E p \in held : f[p] = x
    BY <1>2, <2>1, SMTT(20) DEF Bits
  <2>3. f \in Surjection(held, bits[b])
    BY <1>3, <2>2 DEF Injection, Surjection
  <2>4. Cardinality(held) = Cardinality(bits[b]) /\ Cardinality(Counting(b)) = 0
    BY <1>5, <2>1, <2>3, FS_EmptySet
  <2>5. bits[b] = {BitOf(p) : p \in held}
    BY <1>2, <2>2, SMTT(20)
  <2> QED
    BY <1>4, <2>4, <2>5, SMTT(20) DEF BitOf
<1> QED
  BY <1>6, <1>7, <1>8

(* The invariant implies that a thread that was alone gets nullptr only if *)
(* nothing fits.                                                           *)
LEMMA FullWhenNull ==
    ASSUME IInv
    PROVE  NullMeansFull
<1> USE DEF IInv
<1> SUFFICES ASSUME NEW t \in Threads, At(t, "null"), self[t].alone, NEW b \in Superblocks
             PROVE  /\ state[b].used > 0
                    /\ state[b].header <= self[t].k => state[b].used = 2^state[b].header
  BY DEF NullMeansFull
<1>1. self[t].pc = "null" /\ self[t].empty = None /\ self[t].large = None
  BY DEF At, Locals, LocalsOK
<1>2. NoRoom(self[t], state[b])
  BY <1>1 DEF Alone
<1>3. \A u \in Threads : self[u].pc \in {"idle", "null"}
  BY <1>1 DEF Alone, Rests
<1>4. Counting(b) = {} /\ Claiming(b) = {}
  BY <1>3 DEF Counting, Claiming, Users
<1>5. Cardinality({}) = 0
  BY FS_EmptySet
<1>6. /\ state[b].used = Cardinality(bits[b]) + 0 /\ Cardinality(bits[b]) + 0 <= 2^state[b].header
      /\ Cardinality(bits[b]) \in Nat
  BY <1>4, <1>5, FS_CardinalityType DEF Counts
<1>7. 2^state[b].header \in Nat
  <2>1. PoolOK /\ state[b].header \in BlockStates(pool)
    BY DEF TypeOK
  <2> QED
    BY <2>1, StateFacts
<1> QED
  BY <1>1, <1>2, <1>6, <1>7, SMTT(20) DEF NoRoom

(* For every pool, every number of threads and every workload: the blocks  *)
(* that allocate hands out lie in their superblock, are as large as asked  *)
(* for and never overlap.                                                  *)
THEOREM BlocksNeverOverlap == Spec => []BlocksAreDisjoint
BY PoolInvariant, DisjointBlocks, PTL

(* The state of each superblock counts no fewer than the blocks that       *)
(* callers hold in it, and exactly these between calls.                    *)
THEOREM UsageIsCounted == Spec => []UsageIsExact
BY PoolInvariant, ExactUsage, PTL

(* allocate answers nullptr to a thread that has the pool to itself only   *)
(* if no superblock is empty and each that is assigned to blocks of the    *)
(* size or a larger one is full.                                           *)
THEOREM NullOnlyWhenFull == Spec => []NullMeansFull
BY PoolInvariant, FullWhenNull, PTL

(* No deallocate of a block that allocate handed out aborts with "given    *)
(* erroneous pointer", and none finds the bit of its block cleared or the  *)
(* superblock assigned anew.                                               *)
THEOREM NoCallAborts == Spec => [](\A t \in Threads : ~At(t, "abort"))
<1>1. IInv => \A t \in Threads : ~At(t, "abort")
  BY DEF IInv, TypeOK, ThreadState, Pcs, At
<1> QED
  BY <1>1, PoolInvariant, PTL
=============================================================================
