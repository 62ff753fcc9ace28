------------------------------- MODULE Bitset ------------------------------
(***************************************************************************)
(* The search of Kokkos::Bitset for a bit that is not set, near a hint.  A *)
(* bitset is the set of its bits; it is stored in words of BlockSize bits, *)
(* and the search reads one word.                                          *)
(***************************************************************************)
EXTENDS Integers, FiniteSetsExt

CONSTANT BlockSize   \* the bits of a word, 32 in the code

ASSUME BlockSizeAssumption == BlockSize \in Nat \ {0}

BIT_SCAN_REVERSE(direction)   == direction % 2 = 1
MOVE_HINT_BACKWARD(direction) == (direction \div 2) % 2 = 1

(* The first of the bits of a word, from offset on or backwards from it. *)
scan_block(offset, bits, direction) ==
    LET off == IF BIT_SCAN_REVERSE(direction) THEN (offset + BlockSize - 1) % BlockSize ELSE offset
        rotate_right == {(b - off + BlockSize) % BlockSize : b \in bits}
    IN ((IF BIT_SCAN_REVERSE(direction) THEN Max(rotate_right) ELSE Min(rotate_right)) + off) % BlockSize

(* The same offset in the next word, around the end. *)
update_hint(block, blocks, offset, direction) ==
    LET next == IF MOVE_HINT_BACKWARD(direction) THEN block - 1 ELSE block + 1
    IN (next % blocks) * BlockSize + offset

(* <<found, the bit or a new hint>> *)
find_any_unset_near(set, blocks, hint, direction) ==
    LET block  == hint \div BlockSize
        offset == hint % BlockSize
        unset  == {b \in 0..(BlockSize - 1) : block * BlockSize + b \notin set}
    IN IF unset = {}
       THEN <<FALSE, update_hint(block, blocks, offset, direction)>>
       ELSE <<TRUE, block * BlockSize + scan_block(offset, unset, direction)>>
=============================================================================
