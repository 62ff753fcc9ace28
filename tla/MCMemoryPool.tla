--------------------------- MODULE MCMemoryPool ---------------------------
(* Small instances of MemoryPool.                                          *)
EXTENDS MemoryPool

CONSTANTS t1, t2, t3

Args(total, min, max, sb, callers, requests, attempts, n) ==
    [min_total_alloc_size |-> total, min_block_alloc_size |-> min, max_block_alloc_size |-> max,
     min_superblock_size |-> sb, callers |-> callers, requests |-> requests,
     attempt_limit |-> attempts, calls |-> n]

(* Two superblocks that hold two blocks of one byte or one of two, fought  *)
(* over by three threads; by threads that ask for one size; and one        *)
(* superblock with four blocks, in two words of its bitset, or two.        *)
Small ==
    {Args(4, 1, 2, 2, {t1, t2, t3}, {1, 2}, 1, 4),
     Args(3, 1, 2, 2, {t1, t2}, {0, 1}, 1, 5),
     Args(4, 1, 2, 2, {t1, t2, t3}, {2}, 2, 4),
     Args(4, 1, 2, 3, {t1, t2}, {1, 2}, 1, 6)}
===========================================================================
