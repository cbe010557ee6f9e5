----------------------------- MODULE ArchiveDir -----------------------------
(***************************************************************************)
(* What the queue's runs are for: the directory of each snapshot, with the *)
(* extractors' files and index.json, the step_outputs rows and the title.  *)
(*                                                                         *)
(* The module adds this data to RunQueue.  Its actions are those of        *)
(* RunQueue with their effect on the data, the steps into which            *)
(* runClaimedSnapshot divides the time RunQueue's workers spend in         *)
(* "listing" and "indexing", and two handlers: delete-file, which works on *)
(* the same directory outside the snapshot lock, and the file half of      *)
(* delete.  File operations and statements of different goroutines         *)
(* interleave.                                                             *)
(*                                                                         *)
(* An extractor writes one file and one step output, both named after it.  *)
(* Of a file's content only the title found in it is modelled.             *)
(***************************************************************************)
EXTENDS RunQueue

CONSTANTS
    Titles,      \* titles a file may contain
    TitleOrder,  \* extractors in the order in which BestTitle reads their files
    Requests,    \* delete-file requests that can be in flight together
    DataFaults,    \* the kinds of fault of these steps that may happen
    MaxDataFaults  \* bound: how many of them happen in a behaviour

DataFaultKinds == {"record", "title", "index", "write", "remove", "request"}

ASSUME DataAssumption ==
    /\ TitleOrder \in Seq(Extractors)
    /\ Terminal \subseteq {"failed", "succeeded", "skipped"}
    /\ DataFaults \subseteq DataFaultKinds
    /\ MaxDataFaults \in Nat

NoTitle == ""
Nothing == [e \in {} |-> NoTitle]       \* no files, no steps, no names
Torn    == [kind |-> "torn"]            \* index.json is not a whole document
NoIndex == [kind |-> "none"]            \* index.json does not exist
Index(t, latest) == [kind |-> "index", title |-> t, latest |-> latest]

VARIABLES
    title,      \* column title of table snapshots
    outputs,    \* table step_outputs: run id -> status of the run's step
    dirs,       \* snapshots whose directory exists
    files,      \* per snapshot: the files in it, extractor -> title inside
    index,      \* per snapshot: its index.json
    job,        \* what each worker holds beside RunQueue's memory
    req,        \* the delete-file requests
    removing,   \* deleted snapshots whose directory is still to be removed
    disturbed,  \* history: snapshots where a delete-file request overlapped
                \* with other work on the snapshot or was cut short, or where
                \* saving the title or writing index.json failed
    dataFaults  \* faults of these steps that have happened so far

disk     == <<dirs, files, index>>
requests == <<req, removing, disturbed>>
data     == <<title, outputs, disk, job, requests, dataFaults>>
dvars    == <<vars, data>>

\* job[w]: the step within "listing" or "indexing"; the loaded runs'
\* extractors; snap.Title; the title found; the run's status; its index steps.
NoJob == [at |-> "none", names |-> Nothing, title |-> NoTitle, best |-> NoTitle,
          result |-> "none", steps |-> Nothing]

NoRequest == [at |-> "none", snapshot |-> None, file |-> "none",
              title |-> NoTitle, steps |-> Nothing]

DataFault(kind) ==
    /\ kind \in DataFaults
    /\ dataFaults < MaxDataFaults
    /\ dataFaults' = dataFaults + 1

\* The latest step of each extractor among the snapshot's outputs: a later run
\* overwrites an earlier one of the same name, whatever the run's status is.
Projection(s) ==
    LET recorded == RunsOf(s) \cap DOMAIN outputs
        by(e)    == {r \in recorded : runs[r].extractor = e}
        last(e)  == CHOOSE r \in by(e) : \A q \in by(e) : q <= r
    IN  [e \in {runs[r].extractor : r \in recorded} |-> outputs[last(e)]]

BestTitle(fs) ==
    LET titled == {i \in 1..Len(TitleOrder) :
                     TitleOrder[i] \in DOMAIN fs /\ fs[TitleOrder[i]] # NoTitle}
    IN  IF titled = {} THEN NoTitle
        ELSE fs[TitleOrder[CHOOSE i \in titled : \A j \in titled : i <= j]]

----------------------------------------------------------------------------
(* index.json: os.WriteFile truncates the file, then writes it.            *)

TruncateIndex(s) ==
    index' = IF s \in dirs THEN [index EXCEPT ![s] = Torn] ELSE index

\* A writer that writes after another has written may leave the tail of a
\* longer document behind; once the file has been removed it writes to no file.
FillIndex(s, t, latest) ==
    \E doc \in IF index[s] = Torn THEN {Index(t, latest)}
               ELSE {Index(t, latest), Torn} :
        index' = IF index[s] # NoIndex THEN [index EXCEPT ![s] = doc] ELSE index

----------------------------------------------------------------------------
(* The worker.                                                             *)

At(w, label, step) == pc[w] = label /\ job[w].at = step

\* GetSnapshotByID; MkdirSnapshot follows.
Load(w) ==
    /\ LoadSnapshot(w)
    /\ job' = [job EXCEPT ![w].at = "mkdir", ![w].title = title[wsnap[w]]]
    /\ UNCHANGED <<title, outputs, disk, requests, dataFaults>>

Mkdir(w) ==
    /\ At(w, "listing", "mkdir")
    /\ dirs' = dirs \cup {wsnap[w]}
    /\ job' = [job EXCEPT ![w].at = "none"]
    /\ UNCHANGED <<vars, title, outputs, files, index, requests, dataFaults>>

List(w) ==
    /\ job[w].at = "none"
    /\ ListRuns(w)
    /\ job' = [job EXCEPT ![w].names =
                 [r \in RunsOf(wsnap[w]) |-> runs[r].extractor]]
    /\ UNCHANGED <<title, outputs, disk, requests, dataFaults>>

\* Steps of RunNext that touch neither files nor outputs.
Bookkeeping(w) ==
    /\ \/ ClaimNextSnapshot(w) \/ SnapshotGone(w)
       \/ RunHeld(w) \/ StartRun(w) \/ SkipRun(w)
       \/ StartFails(w) \/ ExtractorHangs(w)
    /\ UNCHANGED data

Leave(w) ==
    /\ LoadFails(w) \/ LoopDone(w)
    /\ job' = [job EXCEPT ![w] = NoJob]
    /\ UNCHANGED <<title, outputs, disk, requests, dataFaults>>

\* Mutant of FilesAfter: an extractor that fails removes its old file.
FilesAfterRemoval(s, e, outcome) ==
    IF outcome = "failed"
    THEN {[f \in DOMAIN files[s] \ {e} |-> files[s][f]]}
    ELSE {fs \in {files[s]} \cup {[f \in DOMAIN files[s] \cup {e} |->
                      IF f = e THEN t ELSE files[s][f]] : t \in Titles \cup {NoTitle}} :
           /\ outcome = "succeeded" => s \in dirs /\ e \in DOMAIN fs
           /\ outcome = "skipped" => fs = files[s]}

\* What an extractor may leave of the directory's files: its own when it
\* succeeds; the old one, or a truncated one, when it fails.
FilesAfter(s, e, outcome) ==
    LET with(t) == [f \in DOMAIN files[s] \cup {e} |->
                      IF f = e THEN t ELSE files[s][f]]
    IN  {fs \in {files[s]} \cup {with(t) : t \in Titles \cup {NoTitle}} :
           /\ outcome = "succeeded" => s \in dirs /\ e \in DOMAIN fs
           /\ outcome = "failed" => fs = files[s] \/ (s \in dirs /\ fs = with(NoTitle))
           /\ outcome = "skipped" => fs = files[s]}

\* The extractor returns; one that is not registered fails without outputs.
Extracted(w) ==
    LET s == wsnap[w]
        e == job[w].names[cur[w]]
    IN  /\ Extract(w)
        /\ IF e \in Registered
           THEN \E outcome \in Terminal : \E fs \in FilesAfter(s, e, outcome) :
                  /\ files' = [files EXCEPT ![s] = fs]
                  /\ job' = [job EXCEPT ![w].at = "record", ![w].result = outcome]
           ELSE /\ job' = [job EXCEPT ![w].at = "title", ![w].result = "failed"]
                /\ UNCHANGED files
        /\ UNCHANGED <<title, outputs, dirs, index, requests, dataFaults>>

\* DeleteStepOutputs, then InsertStepOutput unless the extractor was skipped;
\* the foreign key fails when the run is gone.  Either statement may fail
\* otherwise, which is logged: the run ends without its output, or with the
\* one it had.
Record(w) ==
    LET new     == {r \in {cur[w]} : r \in DOMAIN runs /\ job[w].result # "skipped"}
        cleared == [r \in DOMAIN outputs \ {cur[w]} |-> outputs[r]]
    IN  /\ At(w, "indexing", "record")
        /\ \/ /\ outputs' = [r \in DOMAIN cleared \cup new |->
                               IF r \in new THEN job[w].result ELSE outputs[r]]
              /\ UNCHANGED dataFaults
           \/ /\ outputs' \in {cleared, outputs}
              /\ DataFault("record")
        /\ job' = [job EXCEPT ![w].at = "title"]
        /\ UNCHANGED <<vars, title, disk, requests>>

FindTitle(w) ==
    /\ At(w, "indexing", "title")
    /\ job' = [job EXCEPT ![w].at = "save", ![w].best = BestTitle(files[wsnap[w]])]
    /\ UNCHANGED <<vars, title, outputs, disk, requests, dataFaults>>

\* Mutant of SaveTitle: snap.Title is not updated.
SaveTitleOnly(w, saved) ==
    LET found == job[w].best
        new   == found # NoTitle /\ found # job[w].title
    IN  /\ At(w, "indexing", "save")
        /\ saved \/ new
        /\ title' = IF new /\ saved /\ wsnap[w] \in snapshots
                    THEN [title EXCEPT ![wsnap[w]] = found] ELSE title
        /\ job' = [job EXCEPT ![w].at = "read", ![w].best = NoTitle]
        /\ UNCHANGED <<vars, outputs, disk, req, removing>>

\* The worker takes a new title over even when UpdateSnapshot fails.
SaveTitle(w, saved) ==
    LET found == job[w].best
        new   == found # NoTitle /\ found # job[w].title
    IN  /\ At(w, "indexing", "save")
        /\ saved \/ new
        /\ title' = IF new /\ saved /\ wsnap[w] \in snapshots
                    THEN [title EXCEPT ![wsnap[w]] = found] ELSE title
        /\ job' = [job EXCEPT ![w].at = "read", ![w].best = NoTitle,
                              ![w].title = IF new THEN found ELSE @]
        /\ UNCHANGED <<vars, outputs, disk, req, removing>>

\* index.json will no longer be what the tables hold.
Disturb(w) == disturbed' = disturbed \cup {wsnap[w]}

TitleSaved(w) == SaveTitle(w, TRUE) /\ UNCHANGED <<disturbed, dataFaults>>
TitleFails(w) == SaveTitle(w, FALSE) /\ DataFault("title") /\ Disturb(w)

\* Mutant of ReadOutputs: the index is rebuilt only for a run that succeeded.
ReadIfSucceeded(w) ==
    /\ At(w, "indexing", "read")
    /\ job' = [job EXCEPT ![w].at = IF job[w].result = "succeeded" THEN "truncate" ELSE "done",
                          ![w].steps = Projection(wsnap[w])]
    /\ UNCHANGED <<vars, title, outputs, disk, requests, dataFaults>>

\* RebuildIndex reads the outputs and writes index.json.
ReadOutputs(w) ==
    /\ At(w, "indexing", "read")
    /\ job' = [job EXCEPT ![w].at = "truncate", ![w].steps = Projection(wsnap[w])]
    /\ UNCHANGED <<vars, title, outputs, disk, requests, dataFaults>>

Truncate(w) ==
    /\ At(w, "indexing", "truncate")
    /\ TruncateIndex(wsnap[w])
    /\ job' = [job EXCEPT ![w].at = "fill"]
    /\ UNCHANGED <<vars, title, outputs, dirs, files, requests, dataFaults>>

Fill(w) ==
    /\ At(w, "indexing", "fill")
    /\ FillIndex(wsnap[w], job[w].title, job[w].steps)
    /\ job' = [job EXCEPT ![w].at = "done", ![w].steps = Nothing]
    /\ UNCHANGED <<vars, title, outputs, dirs, files, requests, dataFaults>>

\* ListRunsBySnapshot or the opening of the file fails: index.json stays.
IndexFails(w) ==
    /\ pc[w] = "indexing"
    /\ job[w].at \in {"read", "truncate"}
    /\ DataFault("index")
    /\ Disturb(w)
    /\ job' = [job EXCEPT ![w].at = "done"]
    /\ UNCHANGED <<vars, title, outputs, disk, req, removing>>

\* The write fails after the file was opened and truncated (a full disk).
WriteFails(w) ==
    /\ At(w, "indexing", "fill")
    /\ DataFault("write")
    /\ Disturb(w)
    /\ job' = [job EXCEPT ![w].at = "done"]
    /\ UNCHANGED <<vars, title, outputs, disk, req, removing>>

Finish(w) ==
    /\ job[w].at = "done"
    /\ \/ /\ FinishRun(w)
          /\ cur[w] \in DOMAIN runs => runs'[cur[w]].status = job[w].result
       \/ FinishFails(w)
    /\ job' = [job EXCEPT ![w] = [NoJob EXCEPT !.names = job[w].names,
                                               !.title = job[w].title]]
    /\ UNCHANGED <<title, outputs, disk, requests, dataFaults>>

DWork(w) ==
    \/ Load(w) \/ Mkdir(w) \/ List(w) \/ Bookkeeping(w) \/ Leave(w)
    \/ Extracted(w) \/ Record(w) \/ FindTitle(w) \/ TitleSaved(w)
    \/ ReadOutputs(w) \/ Truncate(w) \/ Fill(w) \/ Finish(w)

----------------------------------------------------------------------------
(* handleDeleteFile.                                                       *)

\* Requests for s that have passed their guard.
Deleting(s) == {q \in Requests : req[q].snapshot = s /\ req[q].at # "guard"}

\* GetSnapshot.
OpenRequest(q, s, e) ==
    /\ Up
    /\ req[q].at = "none"
    /\ s \in snapshots
    /\ req' = [req EXCEPT ![q] = [at |-> "guard", snapshot |-> s, file |-> e,
                                  title |-> title[s], steps |-> Nothing]]
    /\ UNCHANGED <<vars, title, outputs, disk, job, removing, disturbed, dataFaults>>

\* ListRunsBySnapshot and isAnyRunNonTerminal; 409 Conflict if there is one.
\* A run that ended since the row was loaded may have changed the title.
Guard(q) ==
    LET s == req[q].snapshot
    IN  /\ req[q].at = "guard"
        /\ IF \E r \in RunsOf(s) : NonTerminal(r)
           THEN req' = [req EXCEPT ![q] = NoRequest] /\ UNCHANGED disturbed
           ELSE /\ req' = [req EXCEPT ![q].at = "remove"]
                /\ disturbed' = IF Deleting(s) = {} /\ req[q].title = title[s]
                                THEN disturbed ELSE disturbed \cup {s}
        /\ UNCHANGED <<vars, title, outputs, disk, job, removing, dataFaults>>

\* os.Remove; a file that does not exist is no error.
RemoveFile(q) ==
    LET s == req[q].snapshot
    IN  /\ req[q].at = "remove"
        /\ files' = [files EXCEPT ![s] =
                       [f \in DOMAIN files[s] \ {req[q].file} |-> files[s][f]]]
        /\ req' = [req EXCEPT ![q].at = "outputs"]
        /\ UNCHANGED <<vars, title, outputs, dirs, index, job, removing, disturbed, dataFaults>>

\* Mutant of DropOutputs: the rows that refer to the file stay.
KeepOutputs(q) ==
    /\ req[q].at = "outputs"
    /\ req' = [req EXCEPT ![q].at = "read"]
    /\ UNCHANGED <<vars, title, outputs, disk, job, removing, disturbed, dataFaults>>

\* DeleteStepOutputsByFilename.
DropOutputs(q) ==
    LET dropped == {r \in RunsOf(req[q].snapshot) : runs[r].extractor = req[q].file}
    IN  /\ req[q].at = "outputs"
        /\ outputs' = [r \in DOMAIN outputs \ dropped |-> outputs[r]]
        /\ req' = [req EXCEPT ![q].at = "read"]
        /\ UNCHANGED <<vars, title, disk, job, removing, disturbed, dataFaults>>

RequestReads(q) ==
    /\ req[q].at = "read"
    /\ req' = [req EXCEPT ![q].at = "truncate",
                          ![q].steps = Projection(req[q].snapshot)]
    /\ UNCHANGED <<vars, title, outputs, disk, job, removing, disturbed, dataFaults>>

RequestTruncates(q) ==
    /\ req[q].at = "truncate"
    /\ TruncateIndex(req[q].snapshot)
    /\ req' = [req EXCEPT ![q].at = "fill"]
    /\ UNCHANGED <<vars, title, outputs, dirs, files, job, removing, disturbed, dataFaults>>

RequestFills(q) ==
    /\ req[q].at = "fill"
    /\ FillIndex(req[q].snapshot, req[q].title, req[q].steps)
    /\ req' = [req EXCEPT ![q] = NoRequest]
    /\ UNCHANGED <<vars, title, outputs, dirs, files, job, removing, disturbed, dataFaults>>

\* The client is gone, so that the request's context fails the next statement,
\* or index.json cannot be opened, or cannot be written once it is truncated:
\* the handler returns.
CutShort(q) ==
    /\ req[q].at \in {"outputs", "read", "truncate", "fill"}
    /\ DataFault("request")
    /\ req' = [req EXCEPT ![q] = NoRequest]
    /\ disturbed' = disturbed \cup {req[q].snapshot}
    /\ UNCHANGED <<vars, title, outputs, disk, job, removing>>

DeleteFile(q) ==
    \/ \E s \in SnapshotIds, e \in Extractors : OpenRequest(q, s, e)
    \/ Guard(q) \/ RemoveFile(q) \/ DropOutputs(q)
    \/ RequestReads(q) \/ RequestTruncates(q) \/ RequestFills(q)

----------------------------------------------------------------------------
(* The other handlers, and the process.                                    *)

\* A run added while a delete-file request is past its guard disturbs it.
Submit ==
    /\ \/ CreateSnapshot
       \/ \E s \in SnapshotIds :
            \/ InsertPendingRuns(s) \/ EnqueueFails(s)
            \/ \E e \in Extractors : Rerun(s, e)
    /\ disturbed' = disturbed \cup
         {s \in SnapshotIds : Deleting(s) # {} /\ RunsOf(s)' # RunsOf(s)}
    /\ UNCHANGED <<title, outputs, disk, job, req, removing, dataFaults>>

\* Mutant of Delete: step_outputs does not cascade from extractor_runs.
DeleteKeepsOutputs(s) ==
    /\ DeleteSnapshot(s)
    /\ removing' = removing \cup {s}
    /\ UNCHANGED <<title, outputs, disk, job, req, disturbed, dataFaults>>

Delete(s) ==
    /\ DeleteSnapshot(s)
    /\ outputs' = [r \in DOMAIN outputs \ RunsOf(s) |-> outputs[r]]
    /\ removing' = removing \cup {s}
    /\ UNCHANGED <<title, disk, job, req, disturbed, dataFaults>>

\* os.RemoveAll on its way: it takes the directory's entries one after the
\* other, and a failure or a stop in between leaves the rest.
RemoveEntry(s) ==
    /\ s \in removing
    /\ \/ /\ \E e \in DOMAIN files[s] :
               files' = [files EXCEPT ![s] = [f \in DOMAIN files[s] \ {e} |-> files[s][f]]]
          /\ UNCHANGED index
       \/ /\ index[s] # NoIndex
          /\ index' = [index EXCEPT ![s] = NoIndex]
          /\ UNCHANGED files
    /\ UNCHANGED <<vars, title, outputs, dirs, job, requests, dataFaults>>

\* The rest of the entries, and the directory.
RemoveSnapshot(s) ==
    /\ s \in removing
    /\ removing' = removing \ {s}
    /\ dirs' = dirs \ {s}
    /\ files' = [files EXCEPT ![s] = Nothing]
    /\ index' = [index EXCEPT ![s] = NoIndex]
    /\ UNCHANGED <<vars, title, outputs, job, req, disturbed, dataFaults>>

\* os.RemoveAll fails (an extractor writes into the directory meanwhile): the
\* error is logged, and what it has not removed stays.
RemoveFails(s) ==
    /\ s \in removing
    /\ DataFault("remove")
    /\ removing' = removing \ {s}
    /\ UNCHANGED <<vars, title, outputs, disk, job, req, disturbed>>

ProcessStops ==
    /\ Crash
    /\ job' = [w \in Workers |-> NoJob]
    /\ req' = [q \in Requests |-> NoRequest]
    /\ removing' = {}
    /\ disturbed' = disturbed \cup {s \in SnapshotIds : Deleting(s) # {}}
    /\ UNCHANGED <<title, outputs, disk, dataFaults>>

ProcessStarts == Restart /\ UNCHANGED data

----------------------------------------------------------------------------

DInit ==
    /\ Init
    /\ title = [s \in SnapshotIds |-> NoTitle]
    /\ outputs = [r \in {} |-> "none"]
    /\ dirs = {}
    /\ files = [s \in SnapshotIds |-> Nothing]
    /\ index = [s \in SnapshotIds |-> NoIndex]
    /\ job = [w \in Workers |-> NoJob]
    /\ req = [q \in Requests |-> NoRequest]
    /\ removing = {}
    /\ disturbed = {}
    /\ dataFaults = 0

DFault ==
    \/ \E w \in Workers : TitleFails(w) \/ IndexFails(w) \/ WriteFails(w)
    \/ \E q \in Requests : CutShort(q)
    \/ \E s \in SnapshotIds : RemoveFails(s)

DNext ==
    \/ \E w \in Workers : DWork(w)
    \/ \E q \in Requests : DeleteFile(q)
    \/ \E s \in SnapshotIds : Delete(s) \/ RemoveEntry(s) \/ RemoveSnapshot(s)
    \/ Submit
    \/ DFault
    \/ ProcessStops
    \/ ProcessStarts

DSpec == DInit /\ [][DNext]_dvars

----------------------------------------------------------------------------
(* Properties.                                                             *)

\* The type invariant, with the foreign key of step_outputs.
DataOK ==
    /\ title \in [SnapshotIds -> Titles \cup {NoTitle}]
    /\ DOMAIN outputs \subseteq DOMAIN runs
    /\ \A r \in DOMAIN outputs : outputs[r] \in Terminal \ {"skipped"}
    /\ dirs \subseteq 1..lastSnapshot
    /\ \A s \in SnapshotIds :
         /\ DOMAIN files[s] \subseteq Extractors
         /\ s \notin dirs => files[s] = Nothing /\ index[s] = NoIndex
    /\ removing \subseteq 1..lastSnapshot \ snapshots
    /\ disturbed \subseteq SnapshotIds
    /\ dataFaults \in 0..MaxDataFaults

\* Nobody works on s and nothing waits to be done.
Quiet(s) ==
    /\ s \in snapshots \ adding
    /\ RunsOf(s) # {}
    /\ \A r \in RunsOf(s) : ~NonTerminal(r)
    /\ \A q \in Requests : req[q].snapshot # s

InSync(s) == index[s] = Index(title[s], Projection(s))

\* index.json is a projection of the runs' outputs, with the title
\* (README.md:80, ingest.go:152): whenever all runs of a snapshot are done it
\* shows exactly what the tables hold, unless a delete-file request overlapped
\* with other work or was cut short, or saving the title or index.json failed.
IndexInSync ==
    \A s \in SnapshotIds : Quiet(s) /\ s \notin disturbed => InSync(s)

\* The same without the exception: "so the on-disk index stays in sync", since
\* "no worker can claim the snapshot" (handlers.go:378).
DeleteFileKeepsSync == \A s \in SnapshotIds : Quiet(s) => InSync(s)

\* The order of runClaimedSnapshot: a run is finished only after index.json
\* has been rebuilt, so that whatever is interrupted and whenever it is, a
\* finished run's output is in the index, or the index was being written.
FinishedIsIndexed ==
    \A r \in DOMAIN outputs :
        LET s == runs[r].snapshot
        IN  ~NonTerminal(r) /\ s \notin disturbed /\ Deleting(s) = {} =>
              \/ index[s] = Torn
              \/ index[s] # NoIndex /\ runs[r].extractor \in DOMAIN index[s].latest

\* A torn index.json is never left in a snapshot that is not locked: either
\* somebody is writing it, or a crashed write left its run "running".
TornOnlyWhileLocked ==
    \A s \in snapshots \ disturbed :
        index[s] = Torn => Locked(s) \/ Deleting(s) # {}

\* What the index says succeeded is on disk once everything is done.
NoDanglingFile ==
    \A s \in SnapshotIds :
        Quiet(s) /\ s \notin disturbed /\ index[s].kind = "index" =>
            \A e \in DOMAIN index[s].latest :
                index[s].latest[e] = "succeeded" => e \in DOMAIN files[s]

\* What a worker does between the extractor and FinishRun.
WritingSteps == {"record", "title", "save", "read", "truncate", "fill", "done"}

\* "The caller must hold the snapshot lock: a run for this snapshot must be
\* 'running' while RebuildIndex writes" (ingest.go:277), for the worker: unless
\* the snapshot is deleted, whenever it records outputs, saves a title or
\* writes index.json its run is running and belongs to that directory.
WorkerHoldsLock ==
    \A w \in Workers : job[w].at \in WritingSteps /\ cur[w] \in DOMAIN runs =>
        Running(cur[w]) /\ runs[cur[w]].snapshot = wsnap[w]

\* handleDelete "deletes its on-disk archive directory" (handlers.go:348): once
\* the request is done and no worker has the snapshot, nothing is on disk.
DeletedLeavesNothing ==
    \A s \in 1..lastSnapshot \ snapshots :
        s \notin removing /\ (\A w \in Workers : wsnap[w] # s) => s \notin dirs
=============================================================================
