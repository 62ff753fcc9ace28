---------------------------- MODULE UnorderedMap ---------------------------
(***************************************************************************)
(* Kokkos::UnorderedMap: a hash table of fixed capacity whose entries hang *)
(* in one singly linked list per hash value.  Threads of a kernel insert,  *)
(* look up and erase; the host, between kernels, changes phase, clears and *)
(* rehashes.  insert() claims an index in a bitset, fills the entry and    *)
(* appends it at the end of its list with a compare-and-exchange.          *)
(*                                                                         *)
(* Every atomic or volatile access to a shared word is one step.  The key  *)
(* and the value of an entry are written by the thread that has claimed    *)
(* its index, before anyone else can reach it, together with the claim.    *)
(* Those of an entry that is neither claimed nor in a list are never read  *)
(* again: NoKey stands for whatever they are.                              *)
(***************************************************************************)
EXTENDS Bitset, RangePolicy

CONSTANTS Keys,                   \* the keys
          Threads,                \* the threads of a kernel, and the values they insert
          Hashes,                 \* the hash functions considered
          Primes,                 \* the sizes of a hash table
          Round,                  \* the granularity of a capacity, 128 in the code
          Hints,                  \* the capacities asked of the constructor
          Requests,               \* the capacities asked of rehash
          bounded_find_attempts,  \* 32 in the code
          NoKey,
          MaxCalls,               \* bound on the calls of insert, erase and exists
          MaxHost                 \* bound on the operations of the host

Invalid == 0 - 1

VARIABLES map,      \* the members of the map
          hash,     \* the hasher
          th,       \* the locals of the call each thread is in
          src,      \* the map that rehash copies, << >> otherwise
          todo,     \* the indices of it still to be copied
          failed,   \* an insertion has failed since the map was built
          answer,   \* what the last step answered to a call, if anything
          made      \* how many calls and host operations there were

vars == <<map, hash, th, src, todo, failed, answer, made>>

calculate_capacity(hint) == IF hint = 0 THEN Round ELSE CeilDiv((7 * hint) \div 6, Round) * Round

find_hash_size(capacity) == Min({p \in Primes : p >= capacity})

(* The constructor. *)
New(capacity, bounded) ==
    LET indices == 0..(capacity - 1) IN
    [capacity |-> capacity, bounded |-> bounded, available |-> {},
     lists |-> [l \in 0..(find_hash_size(capacity) - 1) |-> Invalid],
     next |-> [i \in indices |-> Invalid],
     keys |-> [i \in indices |-> NoKey], values |-> [i \in indices |-> NoKey],
     modified |-> FALSE, erasable |-> FALSE, failed_insert |-> FALSE, size |-> 0]

Idle == [pc |-> "idle", op |-> "none", k |-> NoKey, v |-> NoKey, prev |-> Invalid,
         curr |-> Invalid, new |-> Invalid, hint |-> 0, tries |-> 0, last |-> FALSE]

Init ==
    /\ \E hint \in Hints : map = New(calculate_capacity(hint), TRUE)
    /\ hash \in Hashes
    /\ th = [t \in Threads |-> Idle]
    /\ src = << >> /\ todo = {}
    /\ failed = FALSE
    /\ answer = << >>
    /\ made = [calls |-> 0, host |-> 0]

hash_list(k) == hash[k] % (Max(DOMAIN map.lists) + 1)
max_hint == map.capacity \div BlockSize

max_attempts ==
    IF map.bounded /\ bounded_find_attempts < max_hint THEN bounded_find_attempts ELSE max_hint

valid_at(i) == i \in map.available

(* The word curr_ptr points to: the head of the list, or the link of the   *)
(* last entry passed.                                                      *)
Pointed(r) == IF r.prev = Invalid THEN map.lists[hash_list(r.k)] ELSE map.next[r.prev]

Step(t, from) == th[t].pc = from /\ UNCHANGED <<hash, src, todo, made>>

(* A call returns; the copies made by rehash answer nobody. *)
Return(t, a) ==
    /\ th' = [th EXCEPT ![t] = Idle]
    /\ answer' = IF src = << >> THEN <<t, th[t].op, th[t].k, a>> ELSE << >>

Goto(t, r) == th' = [th EXCEPT ![t] = r] /\ answer' = << >>

-----------------------------------------------------------------------------
(* The beginning of a call, up to its loop. *)

Call(t) ==
    /\ src = << >> /\ th[t] = Idle
    /\ made.calls < MaxCalls /\ made' = [made EXCEPT !.calls = @ + 1]
    /\ UNCHANGED <<hash, src, todo, failed>>

Modify == map' = [map EXCEPT !.modified = TRUE]

Enter(t, op, k, v) ==
    Goto(t, [Idle EXCEPT !.pc = "search", !.op = op, !.k = k, !.v = v,
               !.hint = (hash_list(k) * map.capacity) \div (Max(DOMAIN map.lists) + 1)])

Refuse(t, op, k, a) == answer' = <<t, op, k, a>> /\ UNCHANGED <<map, th>>

Insert(t, k) ==
    /\ Call(t)
    /\ \/ map.erasable /\ Refuse(t, "insert", k, "failed")
       \/ ~map.erasable /\ Modify /\ Enter(t, "insert", k, t)

Erase(t, k) ==
    /\ Call(t)
    /\ \/ ~map.erasable /\ Refuse(t, "erase", k, FALSE)
       \/ map.erasable /\ Modify /\ Enter(t, "erase", k, t)

Exists(t, k) ==
    /\ Call(t)
    /\ Enter(t, "exists", k, t)
    /\ UNCHANGED map

-----------------------------------------------------------------------------
(* The loops of insert and find. *)

(* An entry with another key: go on along the list.  The hint matters to   *)
(* an insertion that has no index yet.                                     *)
Walk(t) ==
    LET r == th[t]  c == Pointed(r) IN
    /\ Step(t, "search")
    /\ c # Invalid /\ map.keys[c] # r.k
    /\ Goto(t, [r EXCEPT !.prev = c, !.hint = IF r.op = "insert" /\ r.new = Invalid THEN c ELSE 0])
    /\ UNCHANGED <<map, failed>>

(* Mutant: the index claimed for an entry that turns out to exist is kept. *)
FindKeyKeeps(t) ==
    LET r == th[t]  c == Pointed(r) IN
    /\ Step(t, "search")
    /\ c # Invalid /\ map.keys[c] = r.k
    /\ IF r.op = "insert" THEN Return(t, "existing") ELSE Goto(t, [r EXCEPT !.pc = "test", !.curr = c])
    /\ UNCHANGED <<map, failed>>

(* The key is there.  insert() answers so, once it has released an index   *)
(* it had claimed.                                                         *)
FindKey(t) ==
    LET r == th[t]  c == Pointed(r) IN
    /\ Step(t, "search")
    /\ c # Invalid /\ map.keys[c] = r.k
    /\ CASE r.op # "insert"   -> Goto(t, [r EXCEPT !.pc = "test", !.curr = c])
         [] r.new = Invalid   -> Return(t, "existing")
         [] OTHER             -> Goto(t, [r EXCEPT !.pc = "free"])
    /\ UNCHANGED <<map, failed>>

Free(t) ==
    /\ Step(t, "free")
    /\ map' = [map EXCEPT !.available = @ \ {th[t].new}, !.keys[th[t].new] = NoKey,
                          !.values[th[t].new] = NoKey]
    /\ Return(t, "existing")
    /\ UNCHANGED failed

(* The end of the list: the key is not there. *)
FindEnd(t) ==
    LET r == th[t] IN
    /\ Step(t, "search")
    /\ Pointed(r) = Invalid
    /\ CASE r.op # "insert"   -> Return(t, FALSE)
         [] r.new = Invalid   -> Goto(t, [r EXCEPT !.pc = "find"])
         [] OTHER             -> Goto(t, [r EXCEPT !.pc = "check"])
    /\ UNCHANGED <<map, failed>>

(* Mutant: a block without room is not counted. *)
FindIndexUncounted(t) ==
    LET r == th[t]
        f == find_any_unset_near(map.available, max_hint, r.hint, hash_list(r.k))
    IN /\ Step(t, "find")
       /\ Goto(t, [r EXCEPT !.hint = f[2], !.pc = "set"])
       /\ UNCHANGED <<map, failed>>

(* find_any_unset_near, and the count of the blocks that had no room. *)
FindIndex(t) ==
    LET r == th[t]
        f == find_any_unset_near(map.available, max_hint, r.hint, hash_list(r.k))
        n == IF f[1] THEN r.tries ELSE r.tries + 1
    IN /\ Step(t, "find")
       /\ Goto(t, [r EXCEPT !.hint = f[2], !.tries = n,
                            !.pc = IF ~f[1] /\ n >= max_attempts THEN "fail" ELSE "set"])
       /\ UNCHANGED <<map, failed>>

Fail(t) ==
    /\ Step(t, "fail")
    /\ map' = [map EXCEPT !.failed_insert = TRUE]
    /\ failed' = TRUE
    /\ Return(t, "failed")

(* m_available_indexes.set(index_hint): the entry is the thread's to fill. *)
Claim(t) ==
    LET r == th[t] IN
    /\ Step(t, "set")
    /\ \/ valid_at(r.hint) /\ Goto(t, [r EXCEPT !.pc = "search"]) /\ UNCHANGED map
       \/ /\ ~valid_at(r.hint)
          /\ map' = [map EXCEPT !.available = @ \cup {r.hint}, !.keys[r.hint] = r.k,
                                !.values[r.hint] = r.v]
          /\ Goto(t, [r EXCEPT !.new = r.hint, !.hint = 0, !.tries = 0, !.pc = "append"])
    /\ UNCHANGED failed

(* With an index claimed, a failed insertion of any thread makes the next  *)
(* attempt to append the last.                                             *)
Check(t) ==
    /\ Step(t, "check")
    /\ Goto(t, [th[t] EXCEPT !.last = map.failed_insert, !.pc = "append"])
    /\ UNCHANGED <<map, failed>>

Link(r) == IF r.prev = Invalid THEN [map EXCEPT !.lists[hash_list(r.k)] = r.new]
                               ELSE [map EXCEPT !.next[r.prev] = r.new]

(* Mutant: a plain store appends the entry. *)
AppendBlindly(t) ==
    LET r == th[t] IN
    Step(t, "append") /\ map' = Link(r) /\ Return(t, "success") /\ UNCHANGED failed

(* atomic_compare_exchange(curr_ptr, invalid_index, new_index) *)
AppendEntry(t) ==
    LET r == th[t] IN
    /\ Step(t, "append")
    /\ \/ Pointed(r) = Invalid /\ map' = Link(r) /\ Return(t, "success")
       \/ /\ Pointed(r) # Invalid
          /\ IF r.last THEN Return(t, "failed") ELSE Goto(t, [r EXCEPT !.pc = "search"])
          /\ UNCHANGED map
    /\ UNCHANGED failed

-----------------------------------------------------------------------------
(* The rest of exists() and erase(). *)

Test(t) ==
    LET r == th[t] IN
    /\ Step(t, "test")
    /\ IF r.op = "erase" /\ valid_at(r.curr) THEN Goto(t, [r EXCEPT !.pc = "reset"])
                                             ELSE Return(t, valid_at(r.curr))
    /\ UNCHANGED <<map, failed>>

Reset(t) ==
    /\ Step(t, "reset")
    /\ map' = [map EXCEPT !.available = @ \ {th[t].curr}]
    /\ Return(t, TRUE)
    /\ UNCHANGED failed

-----------------------------------------------------------------------------
(* The host, with no kernel running. *)

Quiet == src = << >> /\ \A t \in Threads : th[t] = Idle

Host ==
    /\ Quiet
    /\ made.host < MaxHost /\ made' = [made EXCEPT !.host = @ + 1]
    /\ answer' = << >>
    /\ UNCHANGED <<hash, th>>

(* The number of indices claimed, cached until the map is modified. *)
SizeNow == IF map.modified THEN Cardinality(map.available) ELSE map.size

Size ==
    /\ Host
    /\ map' = [map EXCEPT !.size = SizeNow, !.modified = FALSE]
    /\ UNCHANGED <<src, todo, failed>>

BeginErase == Host /\ ~map.erasable /\ map' = [map EXCEPT !.erasable = TRUE] /\ UNCHANGED <<src, todo, failed>>

(* UnorderedMapErase: the entries whose index was reset leave their lists. *)
EndErase ==
    LET Rest[n \in 0..map.capacity, i \in -1..(map.capacity - 1)] ==
            IF n = 0 \/ i = Invalid \/ valid_at(i) THEN i ELSE Rest[n - 1, map.next[i]]
        Valid(i) == Rest[map.capacity, i]
    IN /\ Host
       /\ map.erasable
       /\ map' = [map EXCEPT
                    !.erasable = FALSE,
                    !.lists = [l \in DOMAIN @ |-> Valid(@[l])],
                    !.next  = [i \in DOMAIN @ |-> IF valid_at(i) THEN Valid(@[i]) ELSE Invalid],
                    !.keys   = [i \in DOMAIN @ |-> IF valid_at(i) THEN @[i] ELSE NoKey],
                    !.values = [i \in DOMAIN @ |-> IF valid_at(i) THEN @[i] ELSE NoKey]]
       /\ UNCHANGED <<src, todo, failed>>

ResetFailedInsertFlag ==
    Host /\ map' = [map EXCEPT !.failed_insert = FALSE] /\ UNCHANGED <<src, todo, failed>>

(* clear() leaves m_size as it is. *)
Clear ==
    /\ Host
    /\ map' = [New(map.capacity, TRUE) EXCEPT !.size = map.size]
    /\ failed' = FALSE
    /\ UNCHANGED <<src, todo>>

(* rehash: a kernel inserts the entries in a new map. *)
Rehash(request, bounded) ==
    /\ Host
    /\ src' = [from |-> [map EXCEPT !.size = 0, !.modified = FALSE], bounded |-> bounded]
    /\ todo' = IF SizeNow = 0 THEN {} ELSE map.available
    /\ map' = New(calculate_capacity(Max2(request, SizeNow)), FALSE)
    /\ UNCHANGED failed

CopyEntry(t, i) ==
    /\ th[t] = Idle
    /\ todo' = todo \ {i}
    /\ Modify
    /\ Enter(t, "insert", src.from.keys[i], src.from.values[i])
    /\ UNCHANGED <<hash, src, failed, made>>

RehashReturns ==
    /\ src # << >> /\ todo = {} /\ \A t \in Threads : th[t] = Idle
    /\ map' = [map EXCEPT !.bounded = src.bounded]
    /\ src' = << >>
    /\ failed' = map.failed_insert
    /\ answer' = << >>
    /\ UNCHANGED <<hash, th, todo, made>>

-----------------------------------------------------------------------------
CallStep(t) ==
    \/ Walk(t) \/ FindKey(t) \/ Free(t) \/ FindEnd(t) \/ FindIndex(t) \/ Fail(t)
    \/ Claim(t) \/ Check(t) \/ AppendEntry(t) \/ Test(t) \/ Reset(t)

Begin(t) ==
    \/ \E k \in Keys : Insert(t, k) \/ Erase(t, k) \/ Exists(t, k)
    \/ \E i \in todo : CopyEntry(t, i)

HostStep ==
    \/ Size \/ BeginErase \/ EndErase \/ ResetFailedInsertFlag \/ Clear
    \/ \E n \in Requests, b \in BOOLEAN : Rehash(n, b)
    \/ RehashReturns

Next == (\E t \in Threads : Begin(t) \/ CallStep(t)) \/ HostStep

(* A thread inside a call, and a kernel that copies, go on. *)
Spec ==
    /\ Init /\ [][Next]_vars
    /\ \A t \in Threads : WF_vars(CallStep(t)) /\ WF_vars(\E i \in todo : CopyEntry(t, i))
    /\ WF_vars(RehashReturns)

-----------------------------------------------------------------------------
(* The indices that the lists of a map reach. *)
Linked(m) ==
    LET From[n \in 0..m.capacity, i \in -1..(m.capacity - 1)] ==
            IF n = 0 \/ i = Invalid THEN {} ELSE {i} \cup From[n - 1, m.next[i]]
    IN UNION {From[m.capacity, m.lists[l]] : l \in DOMAIN m.lists}

Table(m) ==
    LET entries == Linked(m) \cap m.available
    IN [k \in {m.keys[i] : i \in entries} |-> m.values[CHOOSE i \in entries : m.keys[i] = k]]

(* The map that the host has: rehash assigns the new one when it is done. *)
Current == IF src = << >> THEN map ELSE src.from

(* A deleted key stays linked until end_erase(). *)
Unavailable(m) == {m.keys[i] : i \in Linked(m) \ m.available}

Abstract == INSTANCE LookupTable WITH table <- Table(Current), erasable <- Current.erasable,
                                      erased <- Unavailable(Current)

(* Insertions, lookups and deletions by concurrent threads take effect one *)
(* at a time: no key is ever entered twice, however many threads append to *)
(* one list, each answer is right at some moment of its call, and rehash   *)
(* keeps every entry unless an insertion, or the copy of an entry, failed. *)
ImplementsTable == Abstract!Spec

(* With no kernel running, the indices that size() counts and rehash       *)
(* copies are those of the entries a lookup finds, unless an insertion has *)
(* failed: an index claimed and not used was given back.                   *)
IndicesAreExact == Quiet /\ ~failed /\ ~map.erasable => map.available = Linked(map)

(* insert() gives up on a full map and every call returns, whatever the    *)
(* other threads insert, and so does rehash.                               *)
CallsReturn ==
    /\ \A t \in Threads : (th[t] # Idle) ~> (th[t] = Idle)
    /\ (src # << >>) ~> (src = << >>)
=============================================================================
