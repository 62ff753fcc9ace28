---------------------------- MODULE RangePolicy ----------------------------
(***************************************************************************)
(* How RangePolicy::WorkRange splits the items 0 .. items-1 over the ranks *)
(* of a pool.  A range <<first, second>> holds first .. second-1.          *)
(***************************************************************************)
EXTENDS Integers

Min2(a, b)  == IF a < b THEN a ELSE b
Max2(a, b)  == IF a < b THEN b ELSE a
CeilDiv(a, b) == (a + b - 1) \div b

(* The part of a rank, rounded up to the granularity (the chunk size). *)
WorkRange(items, chunk, rank, size) ==
    LET part == CeilDiv(CeilDiv(items, size), chunk) * chunk
    IN <<Min2(part * rank, items), Min2(part * (rank + 1), items)>>
=============================================================================
