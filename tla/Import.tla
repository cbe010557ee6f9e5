------------------------------- MODULE Import -------------------------------
(***************************************************************************)
(* `simplearchive import` beside a running `serve`.                        *)
(*                                                                         *)
(* Import reads the index.json files of the archive one by one, outside    *)
(* any transaction, and then upserts what it read in one transaction.  It  *)
(* takes no lock and knows nothing of runs: meanwhile the worker of serve  *)
(* extracts, saves titles and rewrites index.json, a user deletes          *)
(* snapshots, and another process may copy ArchiveBox data into the        *)
(* archive (README.md:91).                                                 *)
(*                                                                         *)
(* The worker is RunQueue's and ArchiveDir's in fewer steps, without       *)
(* errors of single statements: a pass over the runs of one snapshot,      *)
(* which is loaded, with its title, once for all of them.  Of a            *)
(* directory, the title in its index.json and the title BestTitle finds    *)
(* in its other files are modelled; what is said of the title of a row     *)
(* goes for its url.                                                       *)
(***************************************************************************)
EXTENDS Timestamps, FiniteSets

CONSTANTS
    Times,      \* timestamps the clock gives to new snapshots
    Titles,     \* titles in files
    Archives,   \* contents of the archive before its first import
    Copied,     \* names of directories that are copied into it later
    MaxOps      \* bound: copies, deletions, runs, imports and readers in a behaviour

NoTitle  == ""
AnyTitle == Titles \cup {NoTitle}
NoIndex  == [kind |-> "none"]
Torn     == [kind |-> "torn"]
Index(t) == [kind |-> "index", title |-> t]
AnyIndex == {NoIndex, Torn} \cup {Index(t) : t \in AnyTitle}

ASSUME ImportAssumption ==
    /\ Times \subseteq Int64
    /\ Copied \subseteq Name
    /\ \A files \in Archives :
         /\ DOMAIN files \subseteq Name
         /\ files \in [DOMAIN files -> [index : AnyIndex, best : AnyTitle]]
    /\ MaxOps \in Nat

VARIABLES
    snapshots,  \* table snapshots: timestamp -> id and title
    lastId,     \* the table's AUTOINCREMENT counter
    clock,      \* the last timestamp given to a new snapshot
    dir,        \* archive/: name -> index.json and the title of the files
    worker,     \* the snapshot of the worker's pass, and how far its run is
    removing,   \* deleted snapshots whose directory is still to be removed
    import,     \* the import process
    ops         \* operations started so far

\* History: timestamps whose row and index.json may differ, and deleted
\* snapshots that nothing should bring back.
VARIABLES unsettled, gone

table == <<snapshots, lastId, clock>>
hist  == <<unsettled, gone>>
ivars == <<table, dir, worker, removing, import, ops, hist>>

Empty          == [x \in {} |-> NoTitle]
Keep(f, S)     == [x \in S |-> f[x]]
Put(f, x, v)   == [y \in DOMAIN f \cup {x} |-> IF y = x THEN v ELSE f[y]]

\* The directories whose index.json has the timestamp ts.
Homes(ts) == {n \in DOMAIN dir : Parse(n) = ts}

\* worker.alone: neither an import nor a deletion of the row overlapped the
\* pass so far.
WorkerSteps ==
    {"idle", "mkdir", "start", "extract", "title", "index", "fill", "next"}

NoJob == [at |-> "idle", ts |-> 0, id |-> 0, title |-> NoTitle, alone |-> TRUE]

NoImport == [at |-> "idle", left |-> {}, entries |-> {}, touched |-> {}]

Importing == import.at = "scan"

\* A step on a snapshot or on a directory of it, seen from the import.
Touch(ts) ==
    import' = IF Importing THEN [import EXCEPT !.touched = @ \cup {ts}]
              ELSE import

Operate == ops < MaxOps /\ ops' = ops + 1

Init ==
    /\ snapshots = Empty /\ lastId = 0 /\ clock = -Half
    /\ dir \in Archives
    /\ worker = NoJob /\ removing = {} /\ import = NoImport
    /\ ops = 0 /\ unsettled = {Parse(n) : n \in DOMAIN dir} /\ gone = {}

----------------------------------------------------------------------------
(* Users, and the data they bring.                                         *)

Insert(ts) == [id |-> lastId + 1, title |-> NoTitle]

\* CreateSnapshot: timestamps are unique.  The clock is not set back, and what
\* is copied into the archive is of the past: no directory has the name yet.
Add(ts) ==
    /\ ts \notin DOMAIN snapshots /\ ts > clock /\ Homes(ts) = {}
    /\ snapshots' = Put(snapshots, ts, Insert(ts))
    /\ lastId' = lastId + 1 /\ clock' = ts
    /\ Touch(ts)
    /\ gone' = gone \ {ts}
    /\ UNCHANGED <<dir, worker, removing, ops, unsettled>>

\* A directory of ArchiveBox arrives, or replaces one of the same name.
Copy(n, t, best) ==
    /\ Operate
    /\ dir' = Put(dir, n, [index |-> Index(t), best |-> best])
    /\ Touch(Parse(n))
    /\ unsettled' = unsettled \cup {Parse(n)} /\ gone' = gone \ {Parse(n)}
    /\ UNCHANGED <<table, worker, removing>>

\* handleDelete: the row with its runs, then the directory.
DeleteRow(ts) ==
    /\ Operate
    /\ ts \in DOMAIN snapshots
    /\ snapshots' = Keep(snapshots, DOMAIN snapshots \ {ts})
    /\ removing' = removing \cup {ts}
    /\ worker' = IF worker.at # "idle" /\ worker.ts = ts
                 THEN [worker EXCEPT !.alone = FALSE] ELSE worker
    /\ Touch(ts)
    /\ UNCHANGED <<lastId, clock, dir, hist>>

\* Mutant of RemoveDir: os.Remove, which leaves a directory with files in it.
RemoveDirIfEmpty(ts) ==
    /\ ts \in removing
    /\ removing' = removing \ {ts}
    /\ dir' = Keep(dir, {n \in DOMAIN dir :
                          n = Format(ts) => dir[n].index # NoIndex})
    /\ Touch(ts)
    /\ gone' = IF Homes(ts) \subseteq {Format(ts)} /\ ts \notin DOMAIN snapshots
                  /\ ~Importing /\ worker.ts # ts
               THEN gone \cup {ts} ELSE gone
    /\ UNCHANGED <<table, worker, ops, unsettled>>

\* Nothing brings the snapshot back if this was its only directory and
\* neither the worker nor an import has it in hand.
RemoveDir(ts) ==
    /\ ts \in removing
    /\ removing' = removing \ {ts}
    /\ dir' = Keep(dir, DOMAIN dir \ {Format(ts)})
    /\ Touch(ts)
    /\ gone' = IF /\ Homes(ts) \subseteq {Format(ts)}
                  /\ ts \notin DOMAIN snapshots
                  /\ ~Importing /\ (worker.at = "idle" \/ worker.ts # ts)
               THEN gone \cup {ts} ELSE gone
    /\ UNCHANGED <<table, worker, ops, unsettled>>

\* os.RemoveAll removes one entry after the other, and meanwhile an import
\* may read what is left.
RemoveEntry(ts) ==
    LET n == Format(ts)
    IN  /\ ts \in removing /\ n \in DOMAIN dir
        /\ dir' \in {[dir EXCEPT ![n].index = NoIndex]}
                   \cup {[dir EXCEPT ![n].best = best] : best \in AnyTitle}
        /\ Touch(ts)
        /\ UNCHANGED <<table, worker, removing, ops, hist>>

\* An error is logged, and what is left of the directory stays.
RemoveFails(ts) ==
    /\ ts \in removing
    /\ removing' = removing \ {ts}
    /\ UNCHANGED <<table, dir, worker, import, ops, hist>>

----------------------------------------------------------------------------
(* The worker.                                                             *)

Work(at, next) == worker.at = at /\ worker' = [worker EXCEPT !.at = next]

Home == Format(worker.ts)

\* A snapshot is claimed and loaded; its title is not read again in this pass.
Load(ts) ==
    /\ Operate
    /\ worker.at = "idle" /\ ts \in DOMAIN snapshots
    /\ worker' = [at |-> "mkdir", ts |-> ts, id |-> snapshots[ts].id,
                  title |-> snapshots[ts].title, alone |-> ~Importing]
    /\ Touch(ts)
    /\ UNCHANGED <<table, dir, removing, hist>>

Mkdir ==
    /\ Work("mkdir", "start")
    /\ dir' = IF Home \in DOMAIN dir THEN dir
              ELSE Put(dir, Home, [index |-> NoIndex, best |-> NoTitle])
    /\ Touch(worker.ts)
    /\ UNCHANGED <<table, removing, ops, hist>>

Loaded == /\ worker.ts \in DOMAIN snapshots
          /\ snapshots[worker.ts].id = worker.id

\* The run is started unless it was deleted with its snapshot.
StartRun ==
    /\ Loaded
    /\ Work("start", "extract")
    /\ UNCHANGED <<table, dir, removing, import, ops, hist>>

RunGone ==
    /\ worker.at = "start" /\ ~Loaded
    /\ worker' = NoJob
    /\ UNCHANGED <<table, dir, removing, import, ops, hist>>

\* The extractor replaces its file, or leaves it as it is.
Extract ==
    /\ Work("extract", "title")
    /\ \E best \in AnyTitle :
         dir' = IF Home \in DOMAIN dir THEN [dir EXCEPT ![Home].best = best]
                ELSE dir
    /\ Touch(worker.ts)
    /\ UNCHANGED <<table, removing, ops, hist>>

BestTitle(n) == IF n \in DOMAIN dir THEN dir[n].best ELSE NoTitle

\* The new title is used for index.json even if there is no row to save it in.
SaveTitle ==
    LET best == BestTitle(Home)
        new  == best # NoTitle /\ best # worker.title
    IN  /\ worker.at = "title"
        /\ worker' = [worker EXCEPT !.at = "index",
                                    !.title = IF new THEN best ELSE @]
        /\ snapshots' = IF new /\ worker.ts \in DOMAIN snapshots
                        THEN [snapshots EXCEPT ![worker.ts].title = best]
                        ELSE snapshots
        /\ Touch(worker.ts)
        /\ UNCHANGED <<lastId, clock, dir, removing, ops, hist>>

WriteIndex(doc) ==
    /\ dir' = IF Home \in DOMAIN dir THEN [dir EXCEPT ![Home].index = doc]
              ELSE dir
    /\ Touch(worker.ts)
    /\ UNCHANGED <<table, removing, ops, gone>>

\* RebuildIndex: os.WriteFile truncates first.
Truncate ==
    /\ Work("index", "fill")
    /\ WriteIndex(Torn)
    /\ UNCHANGED unsettled

Fill ==
    /\ Work("fill", "next")
    /\ WriteIndex(Index(worker.title))
    /\ unsettled' = IF worker.alone THEN unsettled \ {worker.ts}
                    ELSE unsettled \cup {worker.ts}

\* The next run of the list.  It is not started, nor is any after it, if the
\* runs were deleted with their snapshot.
NextRun ==
    /\ Operate
    /\ Loaded
    /\ Work("next", "extract")
    /\ UNCHANGED <<table, dir, removing, import, hist>>

PassDone ==
    /\ worker.at = "next" /\ worker' = NoJob
    /\ UNCHANGED <<table, dir, removing, import, ops, hist>>

\* Between its save of the title and its write of index.json, the worker has
\* the two disagree.
Writing(ts) == worker.ts = ts /\ worker.at \in {"index", "fill"}

\* serve is stopped or killed, and started again.
Crash ==
    /\ worker.at # "idle" \/ removing # {}
    /\ worker' = NoJob /\ removing' = {}
    /\ unsettled' = unsettled \cup {ts \in {worker.ts} : Writing(ts)}
    /\ UNCHANGED <<table, dir, import, ops, gone>>

----------------------------------------------------------------------------
(* Import.                                                                 *)

\* Scan: filepath.Glob lists the index.json files.
StartImport ==
    /\ Operate
    /\ ~Importing
    /\ import' = [at |-> "scan", entries |-> {},
                  left |-> {n \in DOMAIN dir : dir[n].index # NoIndex},
                  touched |-> IF worker.at = "idle" THEN {} ELSE {worker.ts}]
    /\ worker' = [worker EXCEPT !.alone = worker.at = "idle"]
    /\ UNCHANGED <<table, dir, removing, hist>>

\* Mutant of Entry: the files are asked for a title first.
EntryOfFiles(n) ==
    [ts |-> Parse(n),
     title |-> IF BestTitle(n) # NoTitle THEN BestTitle(n) ELSE dir[n].index.title]

Entry(n) ==
    LET t == dir[n].index.title
    IN  [ts |-> Parse(n), title |-> IF t # NoTitle THEN t ELSE BestTitle(n)]

\* ReadIndex; an index that is torn, or gone since, is skipped.
ReadEntry(n) ==
    /\ n \in import.left
    /\ import' = [import EXCEPT
         !.left = @ \ {n},
         !.entries = @ \cup IF n \in DOMAIN dir /\ dir[n].index.kind = "index"
                            THEN {Entry(n)} ELSE {}]
    /\ UNCHANGED <<table, dir, worker, removing, ops, hist>>

\* Mutant of Upsert: COALESCE(snapshots.title, excluded.title).
UpsertKeepsTitle(ts, id, t) ==
    IF ts \notin DOMAIN snapshots THEN [id |-> id, title |-> t]
    ELSE IF snapshots[ts].title = NoTitle THEN [snapshots[ts] EXCEPT !.title = t]
    ELSE snapshots[ts]

\* Mutant of Upsert: INSERT OR REPLACE.
UpsertReplaces(ts, id, t) == [id |-> id, title |-> t]

\* ON CONFLICT(timestamp) DO UPDATE: a row that exists keeps its id; the title
\* is overwritten, an empty one by NULL.
Upsert(ts, id, t) ==
    IF ts \in DOMAIN snapshots THEN [snapshots[ts] EXCEPT !.title = t]
    ELSE [id |-> id, title |-> t]

\* The upserts of all entries, in the order of their timestamps, commit
\* together.  sort.Slice leaves the order of equal timestamps open, so that
\* any directory of a snapshot may have the last word.
Commit ==
    LET found == {e.ts : e \in import.entries}
        new   == found \ DOMAIN snapshots
        id(ts) == lastId + Cardinality({u \in new : u <= ts})
    IN  /\ Importing /\ import.left = {}
        /\ \E t \in [found -> AnyTitle] :
             /\ \A ts \in found : [ts |-> ts, title |-> t[ts]] \in import.entries
             /\ snapshots' = [ts \in DOMAIN snapshots \cup found |->
                                IF ts \in found THEN Upsert(ts, id(ts), t[ts])
                                ELSE snapshots[ts]]
        /\ lastId' = lastId + Cardinality(new)
        /\ import' = NoImport
        /\ unsettled' = unsettled \cap import.touched
        /\ UNCHANGED <<clock, dir, worker, removing, ops, gone>>

\* An error of the transaction rolls it back; so does killing the process.
ImportFails ==
    /\ Importing
    /\ import' = NoImport
    /\ UNCHANGED <<table, dir, worker, removing, ops, hist>>

----------------------------------------------------------------------------
User ==
    \/ \E ts \in Times : Add(ts)
    \/ \E n \in Copied, t \in AnyTitle, best \in AnyTitle : Copy(n, t, best)
    \/ \E ts \in DOMAIN snapshots : DeleteRow(ts)
    \/ \E ts \in removing : RemoveEntry(ts) \/ RemoveDir(ts) \/ RemoveFails(ts)

Worker ==
    \/ \E ts \in DOMAIN snapshots : Load(ts)
    \/ Mkdir \/ StartRun \/ RunGone \/ Extract \/ SaveTitle \/ Truncate \/ Fill
    \/ NextRun \/ PassDone \/ Crash

ImportStep ==
    \/ StartImport \/ Commit \/ ImportFails
    \/ \E n \in import.left : ReadEntry(n)

Next == User \/ Worker \/ ImportStep

Spec == Init /\ [][Next]_ivars

----------------------------------------------------------------------------
(* Properties.                                                             *)

Whole(n) == n \in DOMAIN dir /\ dir[n].index.kind = "index"

\* Import is safe to re-run after copying ArchiveBox data (README.md:91): when
\* it commits, every snapshot that nothing else worked on since the scan
\* began has a row, and the row has the title of one of its directories.
ImportReflectsDisk ==
    [][Commit => \A ts \in {Parse(n) : n \in DOMAIN dir} \ import.touched :
         LET readable == {n \in Homes(ts) : Whole(n)}
         IN  readable # {} =>
               /\ ts \in DOMAIN snapshots'
               /\ \E n \in readable : snapshots'[ts].title = Entry(n).title]_ivars

\* The title of a row and the one in its index.json are the same, or the
\* latter is empty: imports, passes of the worker and deletions keep it so,
\* but for the moment between the worker's two writes (ingest.go:173).
\* Exceptions are a snapshot whose last index.json was written in a pass that
\* an import or a deletion overlapped, as an import during its first run may
\* leave an old title in the row that no later run of the pass finds to be
\* new (ingest.go:172); one whose worker was stopped between the two writes;
\* and data copied and not imported since.
RowMatchesIndex ==
    \A ts \in DOMAIN snapshots \ unsettled :
      LET n == Format(ts) IN
      Whole(n) /\ Homes(ts) = {n} /\ ~Writing(ts)
        => dir[n].index.title \in {NoTitle, snapshots[ts].title}

\* A deleted snapshot is not brought back, neither by import nor by the
\* worker (handlers.go:347): once its only directory is removed while neither
\* of them has it in hand, it has no row and no directory until its data is
\* copied again.
DeletedIsFinal ==
    \A ts \in gone : ts \notin DOMAIN snapshots /\ Homes(ts) = {}

Table == INSTANCE SnapshotTable WITH
    ids  <- [ts \in DOMAIN snapshots |-> snapshots[ts].id],
    last <- lastId

\* The runs refer to a snapshot by its id, and so does the worker between two
\* statements: an import that finds a row leaves it its id (snapshots.go:70),
\* and one that finds none, as after a deletion, gives a new one.
ImplementsTable == Table!TSpec

RowIds ==
    \A ts \in DOMAIN snapshots :
      /\ snapshots[ts].id \in 1..lastId
      /\ \A u \in DOMAIN snapshots \ {ts} : snapshots[u].id # snapshots[ts].id

TableOK ==
    /\ DOMAIN snapshots \subseteq Int64
    /\ snapshots \in [DOMAIN snapshots -> [id : Nat, title : AnyTitle]]
    /\ RowIds
    /\ lastId \in Nat /\ clock \in Int64

DirOK ==
    /\ DOMAIN dir \subseteq Name
    /\ dir \in [DOMAIN dir -> [index : AnyIndex, best : AnyTitle]]

WorkerOK ==
    /\ worker \in [at : WorkerSteps, ts : Int64, id : Nat,
                   title : AnyTitle, alone : BOOLEAN]
    /\ worker.id <= lastId

ImportOK ==
    import \in [at : {"idle", "scan"}, left : SUBSET Name,
               entries : SUBSET [ts : Int64, title : AnyTitle],
               touched : SUBSET Int64]

TypeOK ==
    /\ TableOK /\ DirOK /\ WorkerOK /\ ImportOK
    /\ ops \in 0..MaxOps
    /\ removing \cup unsettled \cup gone \subseteq Int64
=============================================================================
