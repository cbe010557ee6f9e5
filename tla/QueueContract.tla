---------------------------- MODULE QueueContract ----------------------------
(***************************************************************************)
(* What the run queue promises to whoever submits work, without claims,    *)
(* workers, loaded copies or faults: rows of one snapshot are executed     *)
(* one at a time and in the order in which they were submitted, a row goes *)
(* from pending to running to a terminal status and never back, an id      *)
(* stands for one row for ever, and rows leave only with their snapshot.   *)
(***************************************************************************)
EXTENDS Integers

CONSTANTS Snapshots, Terminal

VARIABLES
    rows,  \* run id -> [snapshot, status]
    last   \* the highest run id handed out

cvars == <<rows, last>>

RowsOf(s) == {r \in DOMAIN rows : rows[r].snapshot = s}

\* At least one new pending row for snapshot s, with ids never used before.
Submit(s) ==
    /\ last' \in Nat
    /\ last < last'
    /\ rows' = [r \in DOMAIN rows \cup (last + 1)..last' |->
                  IF r \in DOMAIN rows THEN rows[r]
                  ELSE [snapshot |-> s, status |-> "pending"]]

\* r may start once every older row of its snapshot is terminal and no newer
\* one runs.
Start(r) ==
    /\ rows[r].status = "pending"
    /\ \A q \in RowsOf(rows[r].snapshot) :
         /\ q < r => rows[q].status \in Terminal
         /\ rows[q].status # "running"
    /\ rows' = [rows EXCEPT ![r].status = "running"]
    /\ UNCHANGED last

Finish(r, st) ==
    /\ rows[r].status = "running"
    /\ rows' = [rows EXCEPT ![r].status = st]
    /\ UNCHANGED last

\* All rows of a deleted snapshot at once.
Withdraw(s) ==
    /\ rows' = [r \in DOMAIN rows \ RowsOf(s) |-> rows[r]]
    /\ UNCHANGED last

CInit == rows = [r \in {} |-> {}] /\ last = 0

CNext ==
    \/ \E s \in Snapshots : Submit(s) \/ Withdraw(s)
    \/ \E r \in DOMAIN rows : Start(r) \/ \E st \in Terminal : Finish(r, st)

CSpec == CInit /\ [][CNext]_cvars
=============================================================================
