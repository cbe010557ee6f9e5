---------------------------- MODULE SnapshotTable ----------------------------
(***************************************************************************)
(* What the table of snapshots promises to whoever keeps an id of it: rows *)
(* of runs, Enqueue between its two statements, the worker between the     *)
(* statements of a pass.  An id stands for one snapshot for ever: neither  *)
(* import, which overwrites a row's other columns, nor anything else gives *)
(* a row another id, or an id another row, not even after its deletion.    *)
(***************************************************************************)
EXTENDS Integers

VARIABLES
    ids,   \* key of a snapshot -> id of its row
    last   \* the highest id handed out

tvars == <<ids, last>>

\* Any number of new rows, with ids never used before, in any order.
Insert ==
    LET new == DOMAIN ids' \ DOMAIN ids
    IN  /\ last' \in Nat /\ last <= last'
        /\ DOMAIN ids \subseteq DOMAIN ids'
        /\ \A k \in DOMAIN ids : ids'[k] = ids[k]
        /\ \A k \in new : ids'[k] \in (last + 1)..last'
        /\ \A k, l \in new : ids'[k] = ids'[l] => k = l

Delete(k) ==
    /\ ids' = [l \in DOMAIN ids \ {k} |-> ids[l]]
    /\ UNCHANGED last

TInit == DOMAIN ids = {} /\ last = 0

TNext == Insert \/ \E k \in DOMAIN ids : Delete(k)

TSpec == TInit /\ [][TNext]_tvars
=============================================================================
