------------------------------ MODULE RunQueue ------------------------------
(***************************************************************************)
(* The extractor_runs table as a work queue: ingest.Enqueue and the        *)
(* server's rerun and delete handlers put rows in and take them out, the   *)
(* serve worker (server.runWorker -> ingest.RunNext) claims a snapshot by  *)
(* flipping its oldest pending run to "running", loads the snapshot's      *)
(* runs, and executes the non-terminal ones in id order.                   *)
(*                                                                         *)
(* One SQL statement or transaction is one action: the database has a      *)
(* single connection (meta.maxOpenConns = 1), so statements of different   *)
(* goroutines interleave and never overlap.  What the worker holds in      *)
(* memory between two statements (the runs it loaded) is in wsnap, todo,   *)
(* held and cur, and may be stale.  What a run writes into the snapshot's  *)
(* directory is module ArchiveDir.                                         *)
(***************************************************************************)
EXTENDS Integers, Sequences, FiniteSets

CONSTANTS
    Workers,        \* worker goroutines; one per serve process
    Pipelines,      \* the extractor name lists defaultPipeline() can return
    Terminal,       \* statuses of a finished run: "succeeded", "failed", "skipped"
    MaxSnapshots,   \* bound: snapshots ever created
    MaxRuns,        \* bound: run rows ever inserted
    Faults,         \* the kinds of fault that may happen (see FaultKinds)
    MaxFaults       \* bound: how many of them happen in a behaviour

FaultKinds == {"crash", "load", "start", "finish", "hang", "add"}

ASSUME ConstantsAssumption ==
    /\ Workers # {}
    /\ \A p \in Pipelines : Len(p) \in Nat \ {0}
    /\ "failed" \in Terminal
    /\ Terminal \cap {"pending", "running"} = {}
    /\ MaxSnapshots \in Nat
    /\ MaxRuns \in Nat
    /\ Faults \subseteq FaultKinds
    /\ MaxFaults \in Nat

SnapshotIds == 1..MaxSnapshots
RunIds      == 1..MaxRuns
Extractors  == UNION {{p[i] : i \in 1..Len(p)} : p \in Pipelines}
Status      == {"pending", "running"} \cup Terminal
RunRow      == [snapshot : SnapshotIds, extractor : Extractors, status : Status]

None == 0   \* no snapshot, no run: SQLite's ids start at 1

VARIABLES
    snapshots,     \* ids of the rows of table snapshots
    lastSnapshot,  \* its AUTOINCREMENT counter
    runs,          \* table extractor_runs: run id -> RunRow
    lastRun,       \* its AUTOINCREMENT counter
    pipeline,      \* defaultPipeline() under this process's environment
    adding,        \* snapshots whose Enqueue call has not inserted its runs yet
    pc,            \* where each worker is
    wsnap,         \* the snapshot each worker has claimed
    todo,          \* ids of the loaded non-terminal runs still to be looked at
    held,          \* those of them that were loaded with status "running"
    cur,           \* the run being executed
    faults         \* faults that have happened so far

tables == <<snapshots, lastSnapshot, runs, lastRun>>
memory == <<wsnap, todo, held, cur>>
vars   == <<tables, pipeline, adding, pc, memory, faults>>

PC == {"idle", "claimed", "listing", "loop", "exec", "hung", "indexing", "down"}

Registered     == {pipeline[i] : i \in 1..Len(pipeline)}
RunsOf(s)      == {r \in DOMAIN runs : runs[r].snapshot = s}
Pending(r)     == r \in DOMAIN runs /\ runs[r].status = "pending"
Running(r)     == r \in DOMAIN runs /\ runs[r].status = "running"
NonTerminal(r) == Pending(r) \/ Running(r)
Locked(s)      == \E r \in RunsOf(s) : Running(r)

\* Mutant of Oldest: ORDER BY id DESC.
Newest(r, S) == r \in S /\ \A q \in S : q <= r

Oldest(r, S) == r \in S /\ \A q \in S : r <= q

SetStatus(r, st) == runs' = [runs EXCEPT ![r].status = st]

Up == \A w \in Workers : pc[w] # "down"

Fault(kind) ==
    /\ kind \in Faults
    /\ faults < MaxFaults
    /\ faults' = faults + 1

----------------------------------------------------------------------------
(* The HTTP handlers.                                                      *)

\* First statement of Enqueue.
CreateSnapshot ==
    /\ Up
    /\ lastSnapshot < MaxSnapshots
    /\ lastSnapshot' = lastSnapshot + 1
    /\ snapshots' = snapshots \cup {lastSnapshot'}
    /\ adding' = adding \cup {lastSnapshot'}
    /\ UNCHANGED <<runs, lastRun, pipeline, pc, memory, faults>>

\* Mutant of InsertRows: ids are not AUTOINCREMENT.
InsertRowsReusingIds(s, names) ==
    LET free == CHOOSE n \in DOMAIN runs \cup {0} : \A r \in DOMAIN runs : r <= n
    IN  IF s \in snapshots
        THEN /\ free + Len(names) <= MaxRuns
             /\ lastRun' = free + Len(names)
             /\ runs' = [r \in DOMAIN runs \cup (free + 1)..lastRun' |->
                           IF r \in DOMAIN runs THEN runs[r]
                           ELSE [snapshot  |-> s,
                                 extractor |-> names[r - free],
                                 status    |-> "pending"]]
        ELSE UNCHANGED <<runs, lastRun>>

\* One transaction: a pending row per name, all of them or, when the foreign
\* key fails because the snapshot is gone, none.
InsertRows(s, names) ==
    IF s \in snapshots
    THEN /\ lastRun + Len(names) <= MaxRuns
         /\ lastRun' = lastRun + Len(names)
         /\ runs' = [r \in DOMAIN runs \cup (lastRun + 1)..lastRun' |->
                       IF r \in DOMAIN runs THEN runs[r]
                       ELSE [snapshot  |-> s,
                             extractor |-> names[r - lastRun],
                             status    |-> "pending"]]
    ELSE UNCHANGED <<runs, lastRun>>

\* Second transaction of Enqueue.
InsertPendingRuns(s) ==
    /\ s \in adding
    /\ InsertRows(s, pipeline)
    /\ adding' = adding \ {s}
    /\ UNCHANGED <<snapshots, lastSnapshot, pipeline, pc, memory, faults>>

\* Enqueue returns after its first statement: the request's context is
\* cancelled, or the second transaction fails.
EnqueueFails(s) ==
    /\ s \in adding
    /\ Fault("add")
    /\ adding' = adding \ {s}
    /\ UNCHANGED <<tables, pipeline, pc, memory>>

\* handleRerun looks the snapshot up and inserts in two statements; a delete
\* in between makes the insert fail, so that the pair is one step.
Rerun(s, e) ==
    /\ Up
    /\ s \in snapshots
    /\ e \in Registered
    /\ InsertRows(s, <<e>>)
    /\ UNCHANGED <<snapshots, lastSnapshot, pipeline, adding, pc, memory, faults>>

\* Mutant of DeleteSnapshot: the foreign key does not cascade.
DeleteKeepsRuns(s) ==
    /\ Up
    /\ s \in snapshots
    /\ snapshots' = snapshots \ {s}
    /\ UNCHANGED <<lastSnapshot, runs, lastRun, pipeline, adding, pc, memory, faults>>

\* The database part of handleDelete; its runs go by ON DELETE CASCADE.
DeleteSnapshot(s) ==
    /\ Up
    /\ s \in snapshots
    /\ snapshots' = snapshots \ {s}
    /\ runs' = [r \in DOMAIN runs \ RunsOf(s) |-> runs[r]]
    /\ UNCHANGED <<lastSnapshot, lastRun, pipeline, adding, pc, memory, faults>>

----------------------------------------------------------------------------
(* The worker.                                                             *)

Goto(w, label) == pc' = [pc EXCEPT ![w] = label]

\* Mutant of Claimable: the lock is not looked at.
AnyPending == {r \in DOMAIN runs : Pending(r)}

\* Mutant of Claimable: only the oldest pending run of all is considered.
HeadOfLine == {r \in AnyPending : Oldest(r, AnyPending) /\ ~Locked(runs[r].snapshot)}

Claimable == {r \in DOMAIN runs : Pending(r) /\ ~Locked(runs[r].snapshot)}

\* The snapshot of the oldest claimable run, locked by flipping that run.
ClaimNextSnapshot(w) ==
    /\ pc[w] = "idle"
    /\ \E r \in DOMAIN runs :
         /\ Oldest(r, Claimable)
         /\ SetStatus(r, "running")
         /\ wsnap' = [wsnap EXCEPT ![w] = runs[r].snapshot]
    /\ Goto(w, "claimed")
    /\ UNCHANGED <<snapshots, lastSnapshot, lastRun, pipeline, adding,
                   todo, held, cur, faults>>

\* GetSnapshotByID finds the row, MkdirSnapshot succeeds.
LoadSnapshot(w) ==
    /\ pc[w] = "claimed"
    /\ wsnap[w] \in snapshots
    /\ Goto(w, "listing")
    /\ UNCHANGED <<tables, pipeline, adding, memory, faults>>

Forget(w) ==
    /\ wsnap' = [wsnap EXCEPT ![w] = None]
    /\ todo'  = [todo EXCEPT ![w] = {}]
    /\ held'  = [held EXCEPT ![w] = {}]
    /\ cur'   = [cur EXCEPT ![w] = None]

\* GetSnapshotByID returns ErrNotFound: the snapshot was deleted meanwhile.
SnapshotGone(w) ==
    /\ pc[w] = "claimed"
    /\ wsnap[w] \notin snapshots
    /\ Goto(w, "idle")
    /\ Forget(w)
    /\ UNCHANGED <<tables, pipeline, adding, faults>>

\* GetSnapshotByID, MkdirSnapshot or ListRunsBySnapshot fails: the error is
\* logged and the claimed run stays "running".
LoadFails(w) ==
    /\ pc[w] \in {"claimed", "listing"}
    /\ Fault("load")
    /\ Goto(w, "idle")
    /\ Forget(w)
    /\ UNCHANGED <<tables, pipeline, adding>>

\* Mutant of ListRuns: terminal runs are not filtered out.
ListAllRuns(w) ==
    /\ pc[w] = "listing"
    /\ todo' = [todo EXCEPT ![w] = RunsOf(wsnap[w])]
    /\ held' = [held EXCEPT ![w] = {r \in RunsOf(wsnap[w]) : ~Pending(r)}]
    /\ Goto(w, "loop")
    /\ UNCHANGED <<tables, pipeline, adding, wsnap, cur, faults>>

\* Mutant of ListRuns: only pending runs are kept, so the claimed one is not.
ListPendingRuns(w) ==
    /\ pc[w] = "listing"
    /\ todo' = [todo EXCEPT ![w] = {r \in RunsOf(wsnap[w]) : Pending(r)}]
    /\ Goto(w, "loop")
    /\ UNCHANGED <<tables, pipeline, adding, wsnap, held, cur, faults>>

ListRuns(w) ==
    /\ pc[w] = "listing"
    /\ todo' = [todo EXCEPT ![w] = {r \in RunsOf(wsnap[w]) : NonTerminal(r)}]
    /\ held' = [held EXCEPT ![w] = {r \in RunsOf(wsnap[w]) : Running(r)}]
    /\ Goto(w, "loop")
    /\ UNCHANGED <<tables, pipeline, adding, wsnap, cur, faults>>

Take(w, r) ==
    /\ pc[w] = "loop"
    /\ Oldest(r, todo[w])
    /\ todo' = [todo EXCEPT ![w] = @ \ {r}]

Execute(w, r) ==
    /\ Goto(w, "exec")
    /\ cur' = [cur EXCEPT ![w] = r]

\* A run loaded as "running" is executed as it is.
RunHeld(w) ==
    /\ \E r \in todo[w] : r \in held[w] /\ Take(w, r) /\ Execute(w, r)
    /\ UNCHANGED <<tables, pipeline, adding, wsnap, held, faults>>

\* A run loaded as pending, and pending still, is started and executed.
StartRun(w) ==
    /\ \E r \in todo[w] \ held[w] :
         /\ Pending(r)
         /\ SetStatus(r, "running")
         /\ Take(w, r)
         /\ Execute(w, r)
    /\ UNCHANGED <<snapshots, lastSnapshot, lastRun, pipeline, adding,
                   wsnap, held, faults>>

\* StartRun updates no row: the run was deleted, or another worker has it.
SkipRun(w) ==
    /\ \E r \in todo[w] \ held[w] : ~Pending(r) /\ Take(w, r)
    /\ UNCHANGED <<tables, pipeline, adding, pc, wsnap, held, cur, faults>>

\* StartRun's statement fails: the worker goes on to the next run.
StartFails(w) ==
    /\ \E r \in todo[w] \ held[w] : Take(w, r)
    /\ Fault("start")
    /\ UNCHANGED <<tables, pipeline, adding, pc, wsnap, held, cur>>

\* Mutant of Extract: the run is finished before index.json is rebuilt.
ExtractAndFinish(w) ==
    /\ pc[w] = "exec"
    /\ Goto(w, "indexing")
    /\ IF cur[w] \in DOMAIN runs THEN SetStatus(cur[w], "failed") ELSE UNCHANGED runs
    /\ UNCHANGED <<snapshots, lastSnapshot, lastRun, pipeline, adding, memory, faults>>

\* The extractor returns (or none is registered) and its outputs are recorded;
\* then the title is looked up and index.json rebuilt.
Extract(w) ==
    /\ pc[w] = "exec"
    /\ Goto(w, "indexing")
    /\ UNCHANGED <<tables, pipeline, adding, memory, faults>>

\* The extractor never returns: no subprocess has a timeout.
ExtractorHangs(w) ==
    /\ pc[w] = "exec"
    /\ Fault("hang")
    /\ Goto(w, "hung")
    /\ UNCHANGED <<tables, pipeline, adding, memory>>

\* The statuses runOne can return for the run: only "failed" for an extractor
\* that is not in this process's registry.
Outcomes(r) == IF runs[r].extractor \in Registered THEN Terminal ELSE {"failed"}

\* Mutant of FinishRun: the row of a skipped extractor is left as it is.
FinishUnlessSkipped(w) ==
    /\ pc[w] = "indexing"
    /\ IF cur[w] \in DOMAIN runs
       THEN \E st \in Outcomes(cur[w]) :
              IF st = "skipped" THEN UNCHANGED runs ELSE SetStatus(cur[w], st)
       ELSE UNCHANGED runs
    /\ Goto(w, "loop")
    /\ cur' = [cur EXCEPT ![w] = None]
    /\ UNCHANGED <<snapshots, lastSnapshot, lastRun, pipeline, adding,
                   wsnap, todo, held, faults>>

\* An unconditional UPDATE: it matches no row when the run was deleted.
FinishRun(w) ==
    /\ pc[w] = "indexing"
    /\ IF cur[w] \in DOMAIN runs
       THEN \E st \in Outcomes(cur[w]) : SetStatus(cur[w], st)
       ELSE UNCHANGED runs
    /\ Goto(w, "loop")
    /\ cur' = [cur EXCEPT ![w] = None]
    /\ UNCHANGED <<snapshots, lastSnapshot, lastRun, pipeline, adding,
                   wsnap, todo, held, faults>>

\* FinishRun's statement fails; the error is logged, nothing is retried.
FinishFails(w) ==
    /\ pc[w] = "indexing"
    /\ Fault("finish")
    /\ Goto(w, "loop")
    /\ cur' = [cur EXCEPT ![w] = None]
    /\ UNCHANGED <<tables, pipeline, adding, wsnap, todo, held>>

LoopDone(w) ==
    /\ pc[w] = "loop"
    /\ todo[w] = {}
    /\ Goto(w, "idle")
    /\ Forget(w)
    /\ UNCHANGED <<tables, pipeline, adding, faults>>

----------------------------------------------------------------------------
(* The process.  A shutdown is a crash: Run cancels the worker's context,  *)
(* which fails the statements of the run being executed, and returns       *)
(* without waiting for the worker.                                         *)

Crash ==
    /\ Up
    /\ Fault("crash")
    /\ pc'    = [w \in Workers |-> "down"]
    /\ wsnap' = [w \in Workers |-> None]
    /\ todo'  = [w \in Workers |-> {}]
    /\ held'  = [w \in Workers |-> {}]
    /\ cur'   = [w \in Workers |-> None]
    /\ adding' = {}
    /\ UNCHANGED <<tables, pipeline>>

\* Mutant of Restart: runs left behind are marked failed, and nothing else.
RestartSweeps ==
    /\ ~Up
    /\ pipeline' \in Pipelines
    /\ pc' = [w \in Workers |-> "idle"]
    /\ runs' = [r \in DOMAIN runs |->
                  IF Running(r) THEN [runs[r] EXCEPT !.status = "failed"] ELSE runs[r]]
    /\ UNCHANGED <<snapshots, lastSnapshot, lastRun, adding, memory, faults>>

\* Nothing in Open, serve or runWorker touches the rows a crash left behind.
Restart ==
    /\ ~Up
    /\ pipeline' \in Pipelines
    /\ pc' = [w \in Workers |-> "idle"]
    /\ UNCHANGED <<tables, adding, memory, faults>>

----------------------------------------------------------------------------

Init ==
    /\ snapshots = {}
    /\ lastSnapshot = 0
    /\ runs = [r \in {} |-> {}]
    /\ lastRun = 0
    /\ pipeline \in Pipelines
    /\ adding = {}
    /\ pc = [w \in Workers |-> "idle"]
    /\ wsnap = [w \in Workers |-> None]
    /\ todo = [w \in Workers |-> {}]
    /\ held = [w \in Workers |-> {}]
    /\ cur = [w \in Workers |-> None]
    /\ faults = 0

Handlers ==
    \/ CreateSnapshot
    \/ \E s \in SnapshotIds :
         \/ InsertPendingRuns(s)
         \/ EnqueueFails(s)
         \/ DeleteSnapshot(s)
         \/ \E e \in Extractors : Rerun(s, e)

\* What runWorker does when nothing goes wrong.
Work(w) ==
    \/ ClaimNextSnapshot(w)
    \/ LoadSnapshot(w)
    \/ SnapshotGone(w)
    \/ ListRuns(w)
    \/ RunHeld(w)
    \/ StartRun(w)
    \/ SkipRun(w)
    \/ Extract(w)
    \/ FinishRun(w)
    \/ LoopDone(w)

WorkerFault(w) ==
    \/ LoadFails(w)
    \/ StartFails(w)
    \/ ExtractorHangs(w)
    \/ FinishFails(w)

Next ==
    \/ Handlers
    \/ \E w \in Workers : Work(w) \/ WorkerFault(w)
    \/ Crash
    \/ Restart

Spec == Init /\ [][Next]_vars

\* The worker goroutine keeps looping and an operator restarts the process;
\* nobody has to submit, rerun or delete anything.
FairSpec ==
    /\ Spec
    /\ \A w \in Workers : WF_vars(Work(w))
    /\ \A s \in SnapshotIds : WF_vars(InsertPendingRuns(s))
    /\ WF_vars(Restart)

----------------------------------------------------------------------------
(* Properties.                                                             *)

TablesOK ==
    /\ snapshots \subseteq 1..lastSnapshot
    /\ lastSnapshot \in 0..MaxSnapshots
    /\ lastRun \in 0..MaxRuns
    /\ DOMAIN runs \subseteq 1..lastRun
    /\ runs \in [DOMAIN runs -> RunRow]

MemoryOK ==
    /\ pc \in [Workers -> PC]
    /\ wsnap \in [Workers -> SnapshotIds \cup {None}]
    /\ todo \in [Workers -> SUBSET RunIds]
    /\ held \in [Workers -> SUBSET RunIds]
    /\ cur \in [Workers -> RunIds \cup {None}]

\* The type invariant, with the foreign key of extractor_runs: every run
\* belongs to a snapshot that exists.
TypeOK ==
    /\ TablesOK
    /\ MemoryOK
    /\ \A r \in DOMAIN runs : runs[r].snapshot \in snapshots
    /\ pipeline \in Pipelines
    /\ adding \subseteq 1..lastSnapshot
    /\ faults \in 0..MaxFaults

\* The snapshot lock (jobs.go:39): a snapshot has at most one running run.
\* FinishRun and the next StartRun are separate statements, so that it rests
\* on what each worker remembers having loaded.
SingleRunning ==
    \A q, r \in DOMAIN runs :
        Running(q) /\ Running(r) /\ runs[q].snapshot = runs[r].snapshot => q = r

\* A worker that runs an extractor or writes index.json holds the lock
\* (ingest.go:277): the run it executes is running, and belongs to the
\* snapshot whose directory it writes, unless the snapshot was deleted.
LockHeldWhileIndexing ==
    \A w \in Workers :
        pc[w] \in {"exec", "hung", "indexing"} /\ cur[w] \in DOMAIN runs =>
            Running(cur[w]) /\ runs[cur[w]].snapshot = wsnap[w]

\* "Two workers never interleave writes to the same snapshot's index.json"
\* (jobs.go:51, ingest.go:279).
NoIndexInterleaving ==
    \A v, w \in Workers :
        pc[v] = "indexing" /\ pc[w] = "indexing" /\ wsnap[v] = wsnap[w] => v = w

\* "Once a worker claims a snapshot no other claim will pick it up" (jobs.go:40),
\* for as long as the claim is all there is: between it and the list it loads, a
\* worker is alone with its snapshot, whatever earlier workers of it still do.
ClaimsAlone ==
    \A v, w \in Workers :
        /\ pc[v] \in {"claimed", "listing"}
        /\ pc[w] \in {"claimed", "listing"}
        /\ wsnap[v] = wsnap[w]
        => v = w

\* "running" means "currently executing" rather than merely "claimed"
\* (jobs.go:43, jobs.go:100): past its claim, a worker that leaves a run behind
\* in "running" is executing that run, or is about to (it loaded it so).
RunningMeansExecuting ==
    \A r \in DOMAIN runs : Running(r) =>
        \E w \in Workers :
            /\ wsnap[w] = runs[r].snapshot
            /\ \/ pc[w] \in {"claimed", "listing"}
               \/ r \in todo[w] \cap held[w]
               \/ cur[w] = r

\* A run starts only when every older run of its snapshot is terminal: the
\* worker's list may be older than the table, and reruns arrive meanwhile.
StartsInOrder ==
    [][\A r \in DOMAIN runs : Pending(r) /\ Running(r)' =>
         \A q \in RunsOf(runs[r].snapshot) : q < r => ~NonTerminal(q)]_vars

\* A terminal row is never rewritten and a running one never requeued, so that
\* no run is executed twice.
ExecutedOnce ==
    [][\A r \in DOMAIN runs \cap DOMAIN runs' :
         /\ ~NonTerminal(r) => runs'[r] = runs[r]
         /\ Running(r) => ~Pending(r)']_vars

\* Every row handed to the queue is eventually terminal, or deleted.
EveryRunFinishes ==
    \A r \in RunIds : NonTerminal(r) ~> ~NonTerminal(r)

\* s holds a running row that no worker is going to finish.
Abandoned(s) ==
    /\ Locked(s)
    /\ \A w \in Workers : wsnap[w] # s

\* A pending run is left pending only by a row its own snapshot was left with:
\* no fault in one snapshot starves another, and a skipped run is claimed again.
PendingProgress ==
    \A r \in RunIds :
        Pending(r) ~> (~Pending(r) \/ Abandoned(runs[r].snapshot))

\* What the queue promises, seen through the table alone.
Rows == [r \in DOMAIN runs |->
           [snapshot |-> runs[r].snapshot, status |-> runs[r].status]]

Contract == INSTANCE QueueContract WITH
    Snapshots <- SnapshotIds,
    rows <- Rows,
    last <- lastRun

\* Every step of the queue is a step of the contract, or changes no row.
ImplementsContract == Contract!CSpec
=============================================================================
