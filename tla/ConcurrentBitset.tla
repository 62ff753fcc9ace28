-------------------------- MODULE ConcurrentBitset --------------------------
(***************************************************************************)
(* Bitsets that threads claim and release bits of without a lock           *)
(* (struct concurrent_bitset).  The first word of a buffer is a header and *)
(* a count of the bits in use; the bits follow, BitsPerInt to a word.  The *)
(* header is the base 2 logarithm of the number of bits.                   *)
(*                                                                         *)
(* One action per atomic access; `self` holds what the threads do next.    *)
(***************************************************************************)
EXTENDS Integers, FiniteSetsExt

CONSTANT BitsPerInt

(* bits_per_int: a word has a power of two of bits. *)
ASSUME BitsAssumption == BitsPerInt \in Nat /\ \E j \in 0..BitsPerInt : BitsPerInt = 2^j

VARIABLES state,   \* of each buffer: [header, used]
          bits,    \* of each buffer: the bits that are set
          self     \* of each thread

Goto(t, r) == self' = [self EXCEPT ![t] = r]

(* Where a thread tries next when bit was taken and the word was prev: the *)
(* first zero bit of the word, or the same place in the next word.         *)
NextBit(taken, bit, header) ==
    LET word == bit \div BitsPerInt
        zero == {j \in 0..(BitsPerInt - 1) : word * BitsPerInt + j \notin taken}
        word_count == 2^header \div BitsPerInt
    IN IF zero # {} THEN word * BitsPerInt + Min(zero)
       ELSE (IF word + 1 < word_count THEN (word + 1) * BitsPerInt ELSE 0) + (bit % BitsPerInt)

(* acquire_bounded_lg2: count first; a count under another header, or of a *)
(* full set, has to be taken back.                                         *)
AcquireCount(t, b, header, refused, counted) ==
    /\ state' = [state EXCEPT ![b].used = @ + 1]
    /\ Goto(t, IF header # state[b].header \/ 2^header <= state[b].used THEN refused ELSE counted)
    /\ UNCHANGED bits

(* The second fetch_add, and the one at the end of a release. *)
Discount(t, b, next) ==
    /\ state' = [state EXCEPT ![b].used = @ - 1]
    /\ Goto(t, next)
    /\ UNCHANGED bits

(* A turn of the loop that looks for the bit that the count promised. *)
AcquireBit(t, b, bit, retry, acquired) ==
    /\ bits' = [bits EXCEPT ![b] = @ \cup {bit}]
    /\ Goto(t, IF bit \in bits[b] THEN retry ELSE acquired)
    /\ UNCHANGED state

(* release: the header is checked, the bit cleared and only then the count *)
(* taken back (Discount).                                                  *)
ReleaseCheck(t, b, header, refused, checked) ==
    /\ Goto(t, IF header # state[b].header THEN refused ELSE checked)
    /\ UNCHANGED <<state, bits>>

ReleaseBit(t, b, bit, refused, cleared) ==
    /\ bits' = [bits EXCEPT ![b] = @ \ {bit}]
    /\ Goto(t, IF bit \in bits[b] THEN cleared ELSE refused)
    /\ UNCHANGED state
=============================================================================
