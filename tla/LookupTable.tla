---------------------------- MODULE LookupTable ----------------------------
(***************************************************************************)
(* What UnorderedMap promises: a table from keys to values, with lookups,  *)
(* insertions and deletions of any number of threads that take effect one  *)
(* at a time.  Insertion may fail for want of space; until one has failed, *)
(* a change of capacity keeps every entry.                                 *)
(***************************************************************************)
EXTENDS Naturals, TLC

CONSTANTS Keys, Threads

VARIABLES table,      \* the entries: a function on the keys present
          erasable,   \* between begin_erase() and end_erase()
          erased,     \* the keys deleted since begin_erase()
          failed,     \* an insertion has failed since the table was built
          answer      \* what the last step answered to a call, if anything

vars == <<table, erasable, erased, failed, answer>>

Tables == UNION {[K -> Threads] : K \in SUBSET Keys}
Without(k) == [j \in DOMAIN table \ {k} |-> table[j]]

Init ==
    /\ table = << >>
    /\ ~erasable /\ ~failed
    /\ erased = {}
    /\ answer = << >>

Says(t, op, k, a) == answer' = <<t, op, k, a>>
Silent == answer' = << >>

InsertSuccess(t, k) ==
    /\ Says(t, "insert", k, "success")
    /\ ~erasable /\ k \notin DOMAIN table
    /\ table' = table @@ (k :> t)
    /\ UNCHANGED <<erasable, erased, failed>>

(* "The new value was ignored and the old value was left in place." *)
InsertExisting(t, k) ==
    /\ Says(t, "insert", k, "existing")
    /\ ~erasable /\ k \in DOMAIN table
    /\ UNCHANGED <<table, erasable, erased, failed>>

InsertFailed(t, k) ==
    /\ Says(t, "insert", k, "failed")
    /\ failed' = (failed \/ ~erasable)
    /\ UNCHANGED <<table, erasable, erased>>

Exists(t, k) ==
    /\ Says(t, "exists", k, k \in DOMAIN table)
    /\ UNCHANGED <<table, erasable, erased, failed>>

(* Two deletions of a key may both be told that it was there; it was, when *)
(* deletions were begun.                                                   *)
Erase(t, k) ==
    /\ Says(t, "erase", k, TRUE)
    /\ erasable /\ k \in DOMAIN table \cup erased
    /\ table' = Without(k)
    /\ erased' = erased \cup {k}
    /\ UNCHANGED <<erasable, failed>>

EraseNothing(t, k) ==
    /\ Says(t, "erase", k, FALSE)
    /\ ~erasable \/ k \notin DOMAIN table
    /\ UNCHANGED <<table, erasable, erased, failed>>

Phase == Silent /\ erasable' = ~erasable /\ erased' = {} /\ UNCHANGED <<table, failed>>

Clear == Silent /\ table' = << >> /\ erased' = {} /\ ~erasable' /\ ~failed'

(* The entries are copied to a table of another capacity ... *)
Rehash ==
    /\ Silent
    /\ ~erasable' /\ erased' = {} /\ failed' \in BOOLEAN
    /\ table' \in Tables
    /\ ~failed => table' = table

(* ... and the copy of one may be what fails first. *)
CopyFails == Silent /\ failed' /\ UNCHANGED <<table, erasable, erased>>

(* A step of a call that decides nothing. *)
Think == Silent /\ UNCHANGED <<table, erasable, erased, failed>>

Next ==
    \/ Think
    \/ \E t \in Threads, k \in Keys :
          \/ InsertSuccess(t, k) \/ InsertExisting(t, k) \/ InsertFailed(t, k)
          \/ Exists(t, k) \/ Erase(t, k) \/ EraseNothing(t, k)
    \/ Phase \/ Clear \/ Rehash \/ CopyFails

Spec == Init /\ [][Next]_vars
=============================================================================
