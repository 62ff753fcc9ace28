----------------------------- MODULE MemoryPool -----------------------------
(***************************************************************************)
(* Kokkos::MemoryPool: threads allocate and deallocate blocks of memory    *)
(* without a lock.  Memory is divided into superblocks; a superblock is    *)
(* assigned to one block size at a time, and a concurrent bitset says      *)
(* which of its blocks are in use and how many.  The header of the bitset  *)
(* is the assignment: block_count_lg2.  An empty superblock may be         *)
(* assigned to another size.                                               *)
(*                                                                         *)
(* One action per access to the shared state.                              *)
(***************************************************************************)
EXTENDS ConcurrentBitset

CONSTANTS Threads,
          Pools      \* arguments of the constructor, and a workload: the threads
                     \* that make calls, how many, the sizes and the attempt_limit

(* The sizes are given, none is left to its default; the limits are        *)
(* positive.                                                               *)
ASSUME PoolsAssumption ==
    /\ IsFiniteSet(Threads)
    /\ \A c \in Pools :
          /\ {c.min_total_alloc_size, c.min_block_alloc_size, c.max_block_alloc_size,
              c.min_superblock_size, c.attempt_limit} \subseteq Nat \ {0}
          /\ c.callers \subseteq Threads /\ c.requests \subseteq Nat /\ c.calls \in Nat

VARIABLES pool,      \* the members that the constructor computes
          hint,      \* hint_sb_id_ptr[0] of each block size
          live,      \* history: the blocks that callers hold
          calls      \* bound: how many calls are still to be made

vars == <<state, bits, self, pool, hint, live, calls>>

None == -1

-----------------------------------------------------------------------------
integral_power_of_two_that_contains(n) == CHOOSE i \in 0..n : n <= 2^i /\ \A j \in 0..(i - 1) : 2^j < n

(* The constructor with all four sizes given: the bounds it demands of     *)
(* them, and the members it derives.                                       *)
memory_pool_bounds_verification(c) ==
    /\ c.min_superblock_size <= c.min_total_alloc_size
    /\ c.max_block_alloc_size <= c.min_superblock_size
    /\ c.min_block_alloc_size <= c.max_block_alloc_size

Members(c) ==
    LET lg2(n) == integral_power_of_two_that_contains(n)
        size == 2^lg2(c.min_superblock_size)
    IN [m_min_block_size_lg2 |-> lg2(c.min_block_alloc_size),
        m_max_block_size_lg2 |-> lg2(c.max_block_alloc_size),
        m_sb_size_lg2 |-> lg2(c.min_superblock_size),
        m_sb_count |-> (c.min_total_alloc_size + size - 1) \div size,
        callers |-> c.callers, requests |-> c.requests, attempt_limit |-> c.attempt_limit]

Superblocks == 0..(pool.m_sb_count - 1)

(* Block sizes are named by their block_count_lg2, the block_state. *)
BlockStates(p) == (p.m_sb_size_lg2 - p.m_max_block_size_lg2)..(p.m_sb_size_lg2 - p.m_min_block_size_lg2)

(* hint_sb_id_ptr[1]: each size begins with its share of the superblocks. *)
SbIdBegin(p, k) ==
    LET number_block_sizes == 1 + p.m_max_block_size_lg2 - p.m_min_block_size_lg2
        i == p.m_sb_size_lg2 - k - p.m_min_block_size_lg2
    IN (i * p.m_sb_count) \div number_block_sizes

Assigned(p, b) == CHOOSE k \in BlockStates(p) :
                     /\ SbIdBegin(p, k) <= b
                     /\ k = p.m_sb_size_lg2 - p.m_max_block_size_lg2 \/ b < SbIdBegin(p, k - 1)

(* A thread: its position; the block_state wanted, the pseudo-random first *)
(* guess and the attempts left; the superblock it tries (sb_id), the state *)
(* it expects (sb_state) and the hint it read (hint_sb_id); the search: how*)
(* far it is, sb_id_empty, sb_id_large and sb_state_large; and the bit it  *)
(* acquires or releases.  `alone` is history: no other thread has begun a  *)
(* call since this one began its last.                                     *)
Idle == [pc |-> "idle", k |-> None, tic |-> 0, attempts |-> 0,
         sb |-> None, expect |-> None, old |-> None,
         i |-> 0, empty |-> None, large |-> None, larger |-> None, bit |-> 0, alone |-> FALSE]

Init ==
    \E c \in Pools :
       /\ memory_pool_bounds_verification(c)
       /\ pool = Members(c)
       /\ state = [b \in Superblocks |-> [header |-> Assigned(pool, b), used |-> 0]]
       /\ bits = [b \in Superblocks |-> {}]
       /\ hint = [k \in BlockStates(pool) |-> SbIdBegin(pool, k)]
       /\ self = [t \in Threads |-> Idle]
       /\ live = {} /\ calls = c.calls

-----------------------------------------------------------------------------
At(t, pc) == self[t].pc = pc
Rests(t) == self[t].pc \in {"idle", "null"}
Call(t, r) ==
    /\ t \in pool.callers /\ Rests(t) /\ calls > 0
    /\ calls' = calls - 1
    /\ self' = [u \in Threads |-> IF u = t THEN r ELSE [self[u] EXCEPT !.alone = FALSE]]

get_block_size_lg2(n) ==
    LET i == integral_power_of_two_that_contains(n) IN
    IF i < pool.m_min_block_size_lg2 THEN pool.m_min_block_size_lg2 ELSE i

(* allocate, up to the loop. *)
Allocate(t) ==
    \E n \in pool.requests, tic \in 0..(2^pool.m_sb_size_lg2 - 1) :
       /\ n <= 2^pool.m_max_block_size_lg2
       /\ Call(t, IF n = 0 THEN Idle
                  ELSE LET k == pool.m_sb_size_lg2 - get_block_size_lg2(n) IN
                       [Idle EXCEPT !.pc = "hint", !.k = k, !.tic = tic % 2^k, !.expect = k,
                                    !.attempts = pool.attempt_limit,
                                    !.alone = \A u \in Threads \ {t} : Rests(u)])
       /\ UNCHANGED <<state, bits, pool, hint, live>>

(* The beginning of a turn: without a superblock, try the hint. *)
ReadHint(t) ==
    LET me == self[t] IN
    /\ At(t, "hint")
    /\ Goto(t, [me EXCEPT !.pc = "test", !.sb = hint[me.k], !.old = hint[me.k]])
    /\ UNCHANGED <<state, bits, pool, hint, live, calls>>

(* "Arrive here if failed to acquire a block." *)
Search(me) == [me EXCEPT !.pc = "search", !.sb = None, !.expect = me.k, !.i = 0, !.bit = 0,
                         !.empty = None, !.large = None, !.larger = None]

(* The next turn with a superblock: no hint was read in it. *)
TryIt(me, b, header) ==
    [me EXCEPT !.pc = "test", !.sb = b, !.expect = header, !.old = None,
               !.i = 0, !.empty = None, !.large = None, !.larger = None]

Test(t) ==
    LET me == self[t] IN
    /\ At(t, "test")
    /\ Goto(t, IF state[me.sb].header = me.expect
               THEN [me EXCEPT !.pc = "count", !.bit = me.tic % 2^me.expect] ELSE Search(me))
    /\ UNCHANGED <<state, bits, pool, hint, live, calls>>

(* Mutant: a count that failed is not taken back. *)
AcquireNoBackOut(t) ==
    LET me == self[t] IN
    /\ \/ /\ At(t, "count")
          /\ AcquireCount(t, me.sb, me.expect, Search(me), [me EXCEPT !.pc = "set"])
          /\ UNCHANGED live
       \/ /\ At(t, "set")
          /\ AcquireBit(t, me.sb, me.bit, [me EXCEPT !.bit = NextBit(bits[me.sb], me.bit, me.expect)], Idle)
          /\ live' = IF me.bit \in bits[me.sb] THEN live
                     ELSE live \cup {[sb |-> me.sb, d |-> me.bit * 2^(pool.m_sb_size_lg2 - me.expect),
                                      size_lg2 |-> pool.m_sb_size_lg2 - me.expect,
                                      for |-> pool.m_sb_size_lg2 - me.k]}
    /\ UNCHANGED <<pool, hint, calls>>

(* acquire_bounded_lg2. *)
Acquire(t) ==
    LET me == self[t] IN
    /\ \/ /\ At(t, "count")
          /\ AcquireCount(t, me.sb, me.expect, [me EXCEPT !.pc = "back_out"], [me EXCEPT !.pc = "set"])
          /\ UNCHANGED live
       \/ /\ At(t, "back_out")
          /\ Discount(t, me.sb, Search(me))
          /\ UNCHANGED live
       \/ /\ At(t, "set")
          /\ AcquireBit(t, me.sb, me.bit, [me EXCEPT !.bit = NextBit(bits[me.sb], me.bit, me.expect)], Idle)
          /\ live' = IF me.bit \in bits[me.sb] THEN live
                     ELSE live \cup {[sb |-> me.sb, d |-> me.bit * 2^(pool.m_sb_size_lg2 - me.expect),
                                      size_lg2 |-> pool.m_sb_size_lg2 - me.expect,
                                      for |-> pool.m_sb_size_lg2 - me.k]}
    /\ UNCHANGED <<pool, hint, calls>>

(* One turn of the search: the state of the candidate, and what it is good *)
(* for; after the last candidate the best one is taken.                    *)
Found(me, s) == s.header = me.k /\ s.used < 2^me.k

(* Mutant: the test for a larger block is the wrong way round. *)
QuerySmaller(me, id, s) ==
    IF s.header = me.k THEN me
    ELSE IF s.used = 0 THEN [me EXCEPT !.empty = IF @ = None THEN id ELSE @]
    ELSE IF me.empty = None /\ me.large = None /\ s.header > me.k /\ s.used < 2^s.header
         THEN [me EXCEPT !.large = id, !.larger = s.header]
    ELSE me

Query(me, id, s) ==
    IF s.header = me.k THEN me
    ELSE IF s.used = 0 THEN [me EXCEPT !.empty = IF @ = None THEN id ELSE @]
    ELSE IF me.empty = None /\ me.large = None /\ s.header < me.k /\ s.used < 2^s.header
         THEN [me EXCEPT !.large = id, !.larger = s.header]
    ELSE me

(* Mutant: the attempts are not counted. *)
ChosenUncounted(me) ==
    IF me.empty # None THEN [me EXCEPT !.pc = "empty", !.sb = me.empty, !.i = 0, !.empty = None,
                                       !.large = None, !.larger = None]
    ELSE IF me.large # None THEN TryIt(me, me.large, me.larger)
    ELSE [me EXCEPT !.pc = "hint", !.i = 0]

Chosen(me) ==
    IF me.empty # None THEN [me EXCEPT !.pc = "empty", !.sb = me.empty, !.i = 0, !.empty = None,
                                       !.large = None, !.larger = None]
    ELSE IF me.large # None THEN TryIt(me, me.large, me.larger)
    ELSE IF me.attempts > 1 THEN [me EXCEPT !.pc = "hint", !.attempts = @ - 1, !.i = 0]
    ELSE [Idle EXCEPT !.pc = "null", !.k = me.k, !.alone = me.alone]

QueryState(t) ==
    LET me == self[t]
        id == (SbIdBegin(pool, me.k) + me.i) % pool.m_sb_count
        next == Query(me, id, state[id])
    IN /\ At(t, "search")
       /\ Goto(t, IF Found(me, state[id])
                  THEN IF state[id].used + 1 < 2^me.k
                       THEN [me EXCEPT !.pc = "update_hint", !.sb = id, !.i = 0, !.empty = None,
                                       !.large = None, !.larger = None]
                       ELSE TryIt(me, id, me.k)
                  ELSE IF me.i + 1 < pool.m_sb_count THEN [next EXCEPT !.i = @ + 1] ELSE Chosen(next))
       /\ UNCHANGED <<state, bits, pool, hint, live, calls>>

(* An empty superblock: read its assignment, and change it to this size if *)
(* it is still empty; "if the claim fails assume that another thread       *)
(* claimed it for this block size and try to use it anyway".               *)
ReadEmpty(t) ==
    /\ At(t, "empty")
    /\ Goto(t, [self[t] EXCEPT !.pc = "claim", !.larger = state[self[t].sb].header])
    /\ UNCHANGED <<state, bits, pool, hint, live, calls>>

(* Mutant: the superblock is assigned whether or not it is still empty. *)
ClaimAnyway(t) ==
    LET me == self[t] IN
    /\ At(t, "claim")
    /\ state' = [state EXCEPT ![me.sb].header = me.k]
    /\ Goto(t, [me EXCEPT !.pc = "update_hint", !.larger = None])
    /\ UNCHANGED <<bits, pool, hint, live, calls>>

ClaimEmpty(t) ==
    LET me == self[t] IN
    /\ At(t, "claim")
    /\ IF state[me.sb] = [header |-> me.larger, used |-> 0]
       THEN /\ state' = [state EXCEPT ![me.sb].header = me.k]
            /\ Goto(t, [me EXCEPT !.pc = "update_hint", !.larger = None])
       ELSE /\ Goto(t, TryIt(me, me.sb, me.k))
            /\ UNCHANGED state
    /\ UNCHANGED <<bits, pool, hint, live, calls>>

(* The hint changes unless it has changed since this turn read it. *)
UpdateHint(t) ==
    LET me == self[t] IN
    /\ At(t, "update_hint")
    /\ hint' = [hint EXCEPT ![me.k] = IF @ = me.old THEN me.sb ELSE @]
    /\ Goto(t, TryIt(me, me.sb, me.k))
    /\ UNCHANGED <<state, bits, pool, live, calls>>

-----------------------------------------------------------------------------
(* deallocate, up to release: the block's size is the one that the         *)
(* superblock is assigned to.                                              *)
Deallocate(t) ==
    \E p \in live :
       LET k == state[p.sb].header
           size == 2^(pool.m_sb_size_lg2 - k)
       IN /\ Call(t, IF (p.d % size) # 0 THEN [Idle EXCEPT !.pc = "abort"]
                     ELSE [Idle EXCEPT !.pc = "release", !.sb = p.sb, !.expect = k, !.bit = p.d \div size])
          /\ live' = live \ {p}
          /\ UNCHANGED <<state, bits, pool, hint>>

Release(t) ==
    LET me == self[t]
        abort == [Idle EXCEPT !.pc = "abort"]
    IN /\ \/ /\ At(t, "release")
             /\ ReleaseCheck(t, me.sb, me.expect, abort, [me EXCEPT !.pc = "clear"])
          \/ /\ At(t, "clear")
             /\ ReleaseBit(t, me.sb, me.bit, abort, [me EXCEPT !.pc = "discount"])
          \/ At(t, "discount") /\ Discount(t, me.sb, Idle)
       /\ UNCHANGED <<pool, hint, live, calls>>

-----------------------------------------------------------------------------
Step(t) ==
    \/ ReadHint(t) \/ Test(t) \/ Acquire(t) \/ QueryState(t) \/ ReadEmpty(t) \/ ClaimEmpty(t)
    \/ UpdateHint(t) \/ Release(t)

Next == \E t \in Threads : Allocate(t) \/ Deallocate(t) \/ Step(t)

Spec == Init /\ [][Next]_vars

(* A thread inside a call is scheduled again and again. *)
FairSpec == Spec /\ \A t \in Threads : WF_vars(Step(t))

-----------------------------------------------------------------------------
Bytes(p) == {<<p.sb, d>> : d \in p.d..(p.d + 2^p.size_lg2 - 1)}

(* The blocks that callers hold lie within their superblock, are at least  *)
(* as large as asked for, and never overlap.                               *)
BlocksAreDisjoint ==
    /\ \A p \in live : p.for <= p.size_lg2 /\ p.d + 2^p.size_lg2 <= 2^pool.m_sb_size_lg2
    /\ \A p, q \in live : p # q => Bytes(p) \cap Bytes(q) = {}

(* Between calls the state of each superblock counts exactly the blocks    *)
(* that callers hold in it (what get_usage_statistics adds up, for the     *)
(* superblocks of several blocks); and always it counts no fewer, with the *)
(* size that they were allocated with.                                     *)
UsageIsExact ==
    \A b \in Superblocks :
       LET held == {p \in live : p.sb = b} IN
       /\ Cardinality(held) <= state[b].used
       /\ \A p \in held : state[b].header = pool.m_sb_size_lg2 - p.size_lg2
       /\ (\A t \in Threads : Rests(t)) =>
             /\ state[b].used = Cardinality(held)
             /\ bits[b] = {p.d \div 2^p.size_lg2 : p \in held}

(* allocate answers nullptr to a thread that has had the pool to itself    *)
(* only if no superblock could serve the request.                          *)
NullMeansFull ==
    \A t \in Threads : At(t, "null") /\ self[t].alone =>
       \A b \in Superblocks :
          /\ state[b].used > 0
          /\ state[b].header <= self[t].k => state[b].used = 2^state[b].header

(* Every call returns, and none aborts with "given erroneous pointer",     *)
(* when the threads ask for blocks of one size and make finitely many      *)
(* calls.  (Two threads that ask for different sizes can take the last     *)
(* empty superblock from each other for ever.)                             *)
CallsReturn ==
    Cardinality({get_block_size_lg2(n) : n \in pool.requests}) = 1 => \A t \in Threads : []<>(Rests(t))
=============================================================================
