---------------------------- MODULE DetailProofs ----------------------------
(***************************************************************************)
(* Theorems about Detail: with one worker, a page that does not refresh    *)
(* itself shows what is there, whatever worker, handlers and faults did    *)
(* while it was read.                                                      *)
(***************************************************************************)
EXTENDS Detail, ArchiveDirProofs

----------------------------------------------------------------------------
(* The archive inside.                                                     *)

LEMMA BrowserStep == [PNext]_pvars => [DNext]_dvars
  BY DEF PNext, OtherStep, Browse, GetPage, PageRuns, PageSteps, PageRunsFail, PageFiles,
     ClosePage, pvars

\* handleDetail (handlers.go:206) only reads, so that, by the way Detail is
\* written, every theorem about DSpec is one about PSpec.
LEMMA PageOnlyReads == PSpec => DSpec
  <1>1. PInit => DInit
    BY DEF PInit
  <1> QED
    BY <1>1, BrowserStep, PTL DEF PSpec, DSpec

----------------------------------------------------------------------------
(* What no step does to a snapshot that stays.                             *)

\* A deleted snapshot does not come back: its id is not given again.
LEMMA GoneStays ==
    ASSUME TypeOK, [DNext]_dvars, NEW s \in 1..lastSnapshot, s \notin snapshots
    PROVE  s \notin snapshots'
  <1>1. [Next]_vars
    BY StepIsQueueStep
  <1>2. CASE Handlers
    BY <1>2, HandlersAt
  <1>3. CASE \E w \in Workers : Work(w) \/ WorkerFault(w)
    BY <1>3, OneMoves
  <1>4. CASE Crash \/ Restart \/ UNCHANGED vars
    BY <1>4 DEF Crash, Restart, vars, tables
  <1> QED
    BY <1>1, <1>2, <1>3, <1>4 DEF Next

LEMMA Numbers ==
    ASSUME TypeOK, [DNext]_dvars, NEW s \in 1..lastSnapshot
    PROVE  s \in 1..lastSnapshot'
  <1>1. [Next]_vars /\ lastSnapshot \in Nat
    BY StepIsQueueStep DEF TypeOK, TablesOK
  <1>2. lastSnapshot' \in {lastSnapshot, lastSnapshot + 1}
    <2>1. CASE Handlers
      BY <2>1 DEF Handlers, CreateSnapshot, InsertPendingRuns, EnqueueFails, DeleteSnapshot, Rerun, tables
    <2>2. CASE \E w \in Workers : Work(w) \/ WorkerFault(w)
      BY <2>2, OneMoves
    <2>3. CASE Crash \/ Restart \/ UNCHANGED vars
      BY <2>3 DEF Crash, Restart, vars, tables
    <2> QED
      BY <1>1, <2>1, <2>2, <2>3 DEF Next
  <1> QED
    BY <1>1, <1>2

\* A run goes with its snapshot only, and once done is not rewritten.
LEMMA RowsKept ==
    ASSUME HeldInv, [DNext]_dvars,
           NEW s \in snapshots \cap snapshots', NEW r \in RunsOf(s)
    PROVE  r \in RunsOf(s)' /\ (~NonTerminal(r) => runs'[r] = runs[r])
  <1>1. [Next]_vars /\ TypeOK /\ TablesOK
    BY StepIsQueueStep DEF HeldInv, TypeOK
  <1>2. CASE Handlers
    BY <1>1, <1>2, HandlersAt
  <1>3. CASE Crash \/ Restart \/ UNCHANGED vars
    BY <1>3 DEF Crash, Restart, vars, tables, RunsOf
  <1>4. ASSUME NEW w \in Workers, Work(w) \/ WorkerFault(w)
        PROVE  r \in RunsOf(s)' /\ (~NonTerminal(r) => runs'[r] = runs[r])
    <2>1. r \in RunsOf(s)'
      BY <1>1, <1>4, OneMoves DEF RunsOf
    <2>2. CASE \E c \in DOMAIN runs, st \in Status : SetStatus(c, st) /\ NonTerminal(c)
      BY <1>1, <2>1, <2>2, SetStatusEffect DEF RunsOf
    <2>3. CASE UNCHANGED runs
      BY <2>1, <2>3
    <2>4. \/ UNCHANGED runs
          \/ \E c \in DOMAIN runs, st \in Status : SetStatus(c, st) /\ NonTerminal(c)
      <3>1. "running" \in Status /\ Terminal \cup {"failed"} \subseteq Status
        BY ConstantsAssumption DEF Status
      <3>2. CASE ClaimNextSnapshot(w)
        BY <3>1, <3>2 DEF ClaimNextSnapshot, Oldest, Claimable, NonTerminal
      <3>3. CASE StartRun(w)
        BY <3>1, <3>3 DEF StartRun, NonTerminal, Pending
      <3>4. CASE FinishRun(w)
        <4>1. CASE cur[w] \in DOMAIN runs
          <5>1. Running(cur[w])
            BY <3>4, <4>1 DEF FinishRun, HeldInv, LockHeldWhileIndexing
          <5> QED
            BY <3>1, <3>4, <4>1, <5>1 DEF FinishRun, Outcomes, NonTerminal
        <4> QED
          BY <3>4, <4>1 DEF FinishRun
      <3>5. CASE \/ LoadSnapshot(w) \/ SnapshotGone(w) \/ ListRuns(w) \/ RunHeld(w) \/ SkipRun(w)
                 \/ Extract(w) \/ LoopDone(w) \/ WorkerFault(w)
        BY <3>5 DEF LoadSnapshot, SnapshotGone, ListRuns, RunHeld, SkipRun, Extract, LoopDone,
           WorkerFault, LoadFails, StartFails, ExtractorHangs, FinishFails, tables
      <3> QED
        BY <1>4, <3>2, <3>3, <3>4, <3>5 DEF Work
    <2> QED
      BY <2>2, <2>3, <2>4
  <1> QED
    BY <1>1, <1>2, <1>3, <1>4 DEF Next

\* The outputs of a run that is done are taken away by delete-file only.
LEMMA OutputsKept ==
    ASSUME Base, [DNext]_dvars, NEW s \in (snapshots \cap snapshots') \ Touched',
           NEW r \in RunsOf(s), ~NonTerminal(r)
    PROVE  /\ r \in DOMAIN outputs' <=> r \in DOMAIN outputs
           /\ r \in DOMAIN outputs => outputs'[r] = outputs[r]
  <1>1. r \in DOMAIN runs /\ runs[r].snapshot = s /\ s \in SnapshotIds
    BY SnapshotsNumbered DEF RunsOf, Base, HeldInv
  <1>2. ASSUME NEW w \in Workers, Record(w)
        PROVE  r \in DOMAIN outputs \cup {r} /\ cur[w] # r
    <2>1. pc[w] = "indexing"
      BY <1>2 DEF Record, At
    <2> QED
      BY <1>1, <2>1 DEF Base, HeldInv, LockHeldWhileIndexing, NonTerminal
  <1>3. ASSUME NEW w \in Workers, Record(w)
        PROVE  /\ r \in DOMAIN outputs' <=> r \in DOMAIN outputs
               /\ r \in DOMAIN outputs => outputs'[r] = outputs[r]
    BY <1>2, <1>3, RecordEffect DEF Base, DataTypes
  <1>4. ASSUME NEW q \in Requests, DropOutputs(q)
        PROVE  r \notin {x \in RunsOf(req[q].snapshot) : runs[x].extractor = req[q].file}
    <2>1. req' = [req EXCEPT ![q].at = "read"] /\ req \in [Requests -> Request]
      BY <1>4 DEF DropOutputs, Base, DataTypes, RequestsOK
    <2>2. req'[q].at = "read" /\ req'[q].snapshot = req[q].snapshot
      BY <2>1 DEF Request
    <2>3. req[q].snapshot # s
      BY <1>1, <2>2 DEF Touched, Deleting
    <2> QED
      BY <1>1, <2>3 DEF RunsOf
  <1>5. ASSUME NEW q \in Requests, DropOutputs(q)
        PROVE  /\ r \in DOMAIN outputs' <=> r \in DOMAIN outputs
               /\ r \in DOMAIN outputs => outputs'[r] = outputs[r]
    BY <1>4, <1>5 DEF DropOutputs
  <1>6. ASSUME NEW d \in SnapshotIds, Delete(d)
        PROVE  /\ r \in DOMAIN outputs' <=> r \in DOMAIN outputs
               /\ r \in DOMAIN outputs => outputs'[r] = outputs[r]
    <2>1. r \notin RunsOf(d)
      BY <1>1, <1>6 DEF Delete, DeleteSnapshot, RunsOf
    <2> QED
      BY <1>6, <2>1 DEF Delete
  <1>7. \/ UNCHANGED outputs
        \/ \E w \in Workers : Record(w)
        \/ \E q \in Requests : DropOutputs(q)
        \/ \E d \in SnapshotIds : Delete(d)
    BY DEF DNext, DWork, Load, Mkdir, List, Bookkeeping, Leave, Extracted, FindTitle, TitleSaved,
       SaveTitle, ReadOutputs, Truncate, Fill, Finish, DeleteFile, OpenRequest, Guard, RemoveFile,
       RequestReads, RequestTruncates, RequestFills, RemoveEntry, RemoveSnapshot, Submit, DFault, TitleFails,
       IndexFails, WriteFails, CutShort, RemoveFails, ProcessStops, ProcessStarts, dvars, data
  <1> QED
    BY <1>3, <1>5, <1>6, <1>7

\* A title is saved under the lock.
LEMMA TitleKept ==
    ASSUME Base, [DNext]_dvars, NEW s \in snapshots, \A r \in RunsOf(s) : ~NonTerminal(r)
    PROVE  title'[s] = title[s]
  <1>1. ASSUME NEW w \in Workers, TitleSaved(w) \/ TitleFails(w)
        PROVE  title'[s] = title[s]
    <2>1. pc[w] = "indexing"
      BY <1>1 DEF TitleSaved, TitleFails, SaveTitle, At
    <2>2. wsnap[w] # s
      BY <2>1, Locking DEF Base, Executing, Locked, NonTerminal
    <2>3. title' = title \/ title' = [title EXCEPT ![wsnap[w]] = job[w].best]
      BY <1>1 DEF TitleSaved, TitleFails, SaveTitle
    <2>4. title \in [SnapshotIds -> AnyTitle] /\ s \in SnapshotIds
      BY SnapshotsNumbered DEF Base, HeldInv, DataTypes, RestOK
    <2> QED
      BY <2>2, <2>3, <2>4
  <1>2. \/ UNCHANGED title
        \/ \E w \in Workers : TitleSaved(w) \/ TitleFails(w)
    BY DEF DNext, DWork, Load, Mkdir, List, Bookkeeping, Leave, Extracted, FindTitle, Record,
       ReadOutputs, Truncate, Fill, Finish, DeleteFile, OpenRequest, Guard, RemoveFile, DropOutputs,
       RequestReads, RequestTruncates, RequestFills, Delete, RemoveEntry, RemoveSnapshot, Submit, DFault,
       IndexFails, WriteFails, CutShort, RemoveFails, ProcessStops, ProcessStarts, dvars, data
  <1> QED
    BY <1>1, <1>2

LEMMA DisturbedStays ==
    ASSUME [DNext]_dvars
    PROVE  disturbed \subseteq disturbed'
  BY DEF DNext, DWork, Load, Mkdir, List, Bookkeeping, Leave, Extracted, FindTitle, TitleSaved, Record,
     ReadOutputs, Truncate, Fill, Finish, DeleteFile, OpenRequest, Guard, RemoveFile, DropOutputs,
     RequestReads, RequestTruncates, RequestFills, Delete, RemoveEntry, RemoveSnapshot, Submit, DFault, TitleFails,
     IndexFails, WriteFails, Disturb, CutShort, RemoveFails, ProcessStops, ProcessStarts, dvars, data,
     requests

\* Base is kept without regard to index.json.
LEMMA BaseStep ==
    ASSUME OneWorker, Base, [DNext]_dvars
    PROVE  Base'
  <1>1. [Next]_vars
    BY StepIsQueueStep
  <1> QED
    BY <1>1, NextHeldInv, HoldsStep, TypesStep DEF Base, HeldInv, DataTypes

----------------------------------------------------------------------------
(* What the reader knows.                                                  *)

PageShape ==
    /\ page = [at |-> page.at, snapshot |-> page.snapshot, title |-> page.title,
               runs |-> page.runs, steps |-> page.steps, files |-> page.files,
               ended |-> page.ended, touched |-> page.touched]
    /\ page.at \in {"away", "runs", "steps", "files", "shown"}
    /\ page.touched \in BOOLEAN
    /\ page.at # "away" => page.snapshot \in 1..lastSnapshot
    /\ page.at = "runs" => page.runs = Nothing
    /\ page.at \in {"runs", "steps"} => page.steps = Nothing

\* The page's snapshot is still there.
There == page.at # "away" /\ page.snapshot \in snapshots

\* The page is not one that will be replaced.
Kept == There /\ ~(Shown /\ isAnyRunNonTerminal)

\* A run read as done is as it was.
RowsKnown ==
    There => \A r \in DOMAIN page.runs :
        page.runs[r].status \notin {"pending", "running"} =>
            r \in RunsOf(page.snapshot) /\ page.runs[r] = runs[r]

\* If all of them were, the outputs read since are all there will be.
StepsKnown ==
    There /\ page.at \in {"files", "shown"} /\ ~isAnyRunNonTerminal /\ ~page.touched =>
        page.steps = [r \in DOMAIN page.runs \cap DOMAIN outputs |-> outputs[r]]

TitleKnown ==
    Kept => /\ page.ended \subseteq Finished(page.snapshot)
            /\ page.ended = RunsOf(page.snapshot) => page.title = title[page.snapshot]

Untouched == Kept /\ ~page.touched => page.snapshot \notin Touched

PageInv == PageShape /\ RowsKnown /\ StepsKnown /\ TitleKnown /\ Untouched

LEMMA AwayPage ==
    ASSUME page' = NoPage
    PROVE  PageInv'
  BY DEF NoPage, PageInv, PageShape, RowsKnown, StepsKnown, TitleKnown, Untouched, There, Kept

\* What a handler reads of the tables and of the directory.
LEMMA BrowseStep ==
    ASSUME Base, PageInv, Browse
    PROVE  PageInv'
  <1>1. /\ UNCHANGED <<snapshots, lastSnapshot, runs, title, outputs, files, req, disturbed>>
        /\ \A s : RunsOf(s)' = RunsOf(s)
        /\ \A s : Finished(s)' = Finished(s)
        /\ Touched' = Touched
    BY DEF Browse, GetPage, PageRuns, PageSteps, PageRunsFail, PageFiles, ClosePage, dvars, data, vars,
       tables, disk, requests, RunsOf, Finished, NonTerminal, Pending, Running, Touched, Deleting
  <1> USE DEF PageInv, PageShape
  <1>2. ASSUME NEW s \in SnapshotIds, GetPage(s)
        PROVE  PageInv'
    <2>1. CASE page' = NoPage
      BY <2>1, AwayPage
    <2>2. CASE page' # NoPage
      <3>1. /\ s \in snapshots
            /\ page' = [NoPage EXCEPT !.at = "runs", !.snapshot = s, !.title = title[s],
                                      !.ended = {r \in RunsOf(s) : ~NonTerminal(r)},
                                      !.touched = s \in Touched]
        BY <1>2, <2>2 DEF GetPage
      <3>2. s \in 1..lastSnapshot
        BY <3>1 DEF Base, HeldInv, TypeOK, TablesOK
      <3>3. page' = [at |-> "runs", snapshot |-> s, title |-> title[s], runs |-> Nothing,
                     steps |-> Nothing, files |-> {}, ended |-> Finished(s),
                     touched |-> s \in Touched]
        BY <3>1 DEF NoPage, Finished
      <3>4. /\ page'.at = "runs" /\ page'.snapshot = s /\ page'.title = title[s]
            /\ page'.runs = Nothing /\ page'.steps = Nothing /\ page'.ended = Finished(s)
            /\ page'.touched = (s \in Touched)
        BY <3>3
      <3>5. PageShape'
        BY <1>1, <3>2, <3>3
      <3>6. RowsKnown' /\ StepsKnown'
        BY <3>4 DEF RowsKnown, StepsKnown, There, Nothing
      <3>7. TitleKnown'
        BY <1>1, <3>4 DEF TitleKnown, Kept
      <3>8. Untouched'
        BY <1>1, <3>4 DEF Untouched
      <3> QED
        BY <3>5, <3>6, <3>7, <3>8
    <2> QED
      BY <2>1, <2>2
  <1>3. CASE PageRuns
    <2> DEFINE found == RunsOf(page.snapshot)
    <2>1. /\ page.at = "runs" /\ page'.at \in {"files", "steps"}
          /\ page'.at = "files" => found = {}
          /\ page'.runs = [r \in found |-> runs[r]]
          /\ page'.snapshot = page.snapshot /\ page'.title = page.title /\ page'.steps = Nothing
          /\ page'.ended = page.ended /\ page'.touched = page.touched
          /\ PageShape'
      BY <1>1, <1>3 DEF PageRuns
    <2>2. RowsKnown'
      BY <1>1, <2>1 DEF RowsKnown, There
    <2>3. StepsKnown'
      BY <2>1 DEF StepsKnown, Nothing
    <2>4. TitleKnown' /\ Untouched'
      BY <1>1, <2>1 DEF TitleKnown, Untouched, Kept, There, Shown
    <2> QED
      BY <2>1, <2>2, <2>3, <2>4
  <1>4. CASE PageSteps
    <2>1. /\ page.at = "steps" /\ page'.at = "files" /\ page'.runs = page.runs
          /\ page'.steps = [r \in DOMAIN page.runs \cap DOMAIN outputs |-> outputs[r]]
          /\ page'.snapshot = page.snapshot /\ page'.title = page.title
          /\ page'.ended = page.ended /\ page'.touched = page.touched
          /\ PageShape'
      BY <1>1, <1>4 DEF PageSteps
    <2> QED
      BY <1>1, <2>1 DEF RowsKnown, StepsKnown, TitleKnown, Untouched, Kept, There, Shown
  <1>5. CASE PageRunsFail
    <2>1. /\ page.at \in {"runs", "steps"} /\ page'.at = "files" /\ page'.runs = Nothing
          /\ page'.steps = Nothing
          /\ page'.snapshot = page.snapshot /\ page'.title = page.title
          /\ page'.ended = page.ended /\ page'.touched = page.touched
          /\ PageShape'
      BY <1>1, <1>5 DEF PageRunsFail
    <2>2. StepsKnown'
      BY <2>1 DEF StepsKnown, Nothing
    <2> QED
      BY <1>1, <2>1, <2>2 DEF RowsKnown, TitleKnown, Untouched, Kept, There, Shown, Nothing
  <1>6. CASE PageFiles
    <2>1. page.at = "files" /\ page'.at = "shown" /\ page'.runs = page.runs
          /\ page'.snapshot = page.snapshot /\ PageShape'
      BY <1>1, <1>6 DEF PageFiles, NoPage
    <2>2. isAnyRunNonTerminal' = isAnyRunNonTerminal
      BY <2>1 DEF isAnyRunNonTerminal
    <2>3. CASE isAnyRunNonTerminal
      BY <1>1, <2>1, <2>2, <2>3 DEF RowsKnown, StepsKnown, TitleKnown, Untouched, Kept, There, Shown
    <2>4. CASE ~isAnyRunNonTerminal
      <3>1. /\ page'.steps = page.steps /\ page'.title = page.title
            /\ page'.ended = page.ended /\ page'.touched = page.touched
        BY <1>6, <2>4 DEF PageFiles
      <3> QED
        BY <1>1, <2>1, <2>2, <3>1 DEF RowsKnown, StepsKnown, TitleKnown, Untouched, Kept, There, Shown
    <2> QED
      BY <2>3, <2>4
  <1>7. CASE ClosePage
    BY <1>7, AwayPage DEF ClosePage
  <1> QED
    BY <1>2, <1>3, <1>4, <1>5, <1>6, <1>7 DEF Browse

\* The page, while the others go on.
LEMMA OtherStepKeeps ==
    ASSUME OneWorker, Base, PageInv, OtherStep
    PROVE  PageInv'
  <1>1. CASE page' = NoPage
    BY <1>1, AwayPage
  <1>2. CASE page' # NoPage
    <2>0. PICK s : s = page.snapshot
      OBVIOUS
    <2>1. /\ [DNext]_dvars /\ page.at # "away"
          /\ page' = [page EXCEPT !.touched = @ \/ page.snapshot \in Touched']
      BY <1>2 DEF OtherStep
    <2>2. s \in 1..lastSnapshot /\ s \in 1..lastSnapshot'
      BY <2>0, <2>1, Numbers DEF PageInv, PageShape, Base, HeldInv
    <2>3. /\ PageShape'
          /\ page'.at = page.at /\ page'.snapshot = s /\ page'.title = page.title
          /\ page'.runs = page.runs /\ page'.steps = page.steps /\ page'.ended = page.ended
          /\ page'.touched = (page.touched \/ s \in Touched')
      BY <2>0, <2>1, <2>2 DEF PageInv, PageShape
    <2>4. isAnyRunNonTerminal' = isAnyRunNonTerminal /\ Shown' = Shown
      BY <2>3 DEF isAnyRunNonTerminal, Shown
    <2> SUFFICES ASSUME s \in snapshots'
                 PROVE  RowsKnown' /\ StepsKnown' /\ TitleKnown' /\ Untouched'
      BY <2>0, <2>3 DEF PageInv, RowsKnown, StepsKnown, TitleKnown, Untouched, There, Kept
    <2>5. s \in snapshots
      BY <2>1, <2>2, GoneStays DEF Base, HeldInv
    <2>6. There /\ There' /\ Kept' = Kept
      BY <2>0, <2>1, <2>3, <2>4, <2>5 DEF There, Kept
    <2>7. \A r \in RunsOf(s) : r \in RunsOf(s)' /\ (~NonTerminal(r) => runs'[r] = runs[r])
      BY <2>1, <2>5, RowsKept DEF Base
    <2>8. ASSUME NEW r \in DOMAIN page.runs, page.runs[r].status \notin {"pending", "running"}
          PROVE  r \in RunsOf(s) /\ page.runs[r] = runs[r] /\ ~NonTerminal(r)
      BY <2>0, <2>6, <2>8 DEF PageInv, RowsKnown, NonTerminal, Pending, Running
    <2>9. RowsKnown'
      BY <2>3, <2>7, <2>8 DEF RowsKnown
    <2>10. StepsKnown'
      <3> SUFFICES ASSUME page.at \in {"files", "shown"}, ~isAnyRunNonTerminal,
                          ~page.touched, s \notin Touched'
                   PROVE  page.steps = [r \in DOMAIN page.runs \cap DOMAIN outputs' |-> outputs'[r]]
        BY <2>3, <2>4 DEF StepsKnown
      <3>1. page.steps = [r \in DOMAIN page.runs \cap DOMAIN outputs |-> outputs[r]]
        BY <2>6 DEF PageInv, StepsKnown
      <3>2. ASSUME NEW r \in DOMAIN page.runs
            PROVE  /\ r \in DOMAIN outputs' <=> r \in DOMAIN outputs
                   /\ r \in DOMAIN outputs => outputs'[r] = outputs[r]
        <4>1. r \in RunsOf(s) /\ ~NonTerminal(r)
          BY <2>8, <3>2 DEF isAnyRunNonTerminal
        <4>2. s \in (snapshots \cap snapshots') \ Touched'
          BY <2>5
        <4> QED
          BY <2>1, <4>1, <4>2, OutputsKept
      <3> QED
        BY <3>1, <3>2
    <2>11. TitleKnown'
      <3> SUFFICES ASSUME Kept
                   PROVE  /\ page.ended \subseteq Finished(s)'
                          /\ page.ended = RunsOf(s)' => page.title = title'[s]
        BY <2>3, <2>6 DEF TitleKnown
      <3>1. /\ page.ended \subseteq Finished(s)
            /\ page.ended = RunsOf(s) => page.title = title[s]
        BY <2>0 DEF PageInv, TitleKnown
      <3>2. page.ended \subseteq Finished(s)'
        BY <2>7, <3>1 DEF Finished, NonTerminal, Pending, Running, RunsOf
      <3>3. ASSUME page.ended = RunsOf(s)'
            PROVE  page.title = title'[s]
        <4>1. page.ended = RunsOf(s) /\ \A r \in RunsOf(s) : ~NonTerminal(r)
          BY <2>7, <3>1, <3>3 DEF Finished
        <4> QED
          BY <2>1, <2>5, <3>1, <4>1, TitleKept
      <3> QED
        BY <3>2, <3>3
    <2>12. Untouched'
      BY <2>3 DEF Untouched
    <2> QED
      BY <2>9, <2>10, <2>11, <2>12
  <1> QED
    BY <1>1, <1>2

LEMMA DetailStep ==
    ASSUME OneWorker, Base, PageInv, [PNext]_pvars
    PROVE  Base' /\ PageInv'
  <1>1. [DNext]_dvars
    BY DEF PNext, OtherStep, Browse, GetPage, PageRuns, PageSteps, PageRunsFail, PageFiles, ClosePage,
       pvars
  <1>2. CASE UNCHANGED pvars
    <2>1. UNCHANGED <<snapshots, lastSnapshot, runs, title, outputs, req, disturbed, page>>
      BY <1>2 DEF pvars, dvars, data, vars, tables, disk, requests
    <2>2. /\ UNCHANGED Touched
          /\ \A s : RunsOf(s)' = RunsOf(s)
          /\ \A s : Finished(s)' = Finished(s)
      BY <2>1 DEF Touched, Deleting, Finished, NonTerminal, Pending, Running, RunsOf
    <2>3. UNCHANGED <<isAnyRunNonTerminal, There, Kept>>
      BY <2>1 DEF There, Kept, Shown, isAnyRunNonTerminal
    <2> QED
      BY <1>1, <2>1, <2>2, <2>3, BaseStep
         DEF PageInv, PageShape, RowsKnown, StepsKnown, TitleKnown, Untouched
  <1> QED
    BY <1>1, <1>2, BaseStep, BrowseStep, OtherStepKeeps DEF PNext

LEMMA DetailInit == PInit => Base /\ Sync /\ PageInv
  BY SyncInit, InitHeldInv
  DEF PInit, NoPage, PageInv, PageShape, RowsKnown, StepsKnown, TitleKnown, Untouched, There, Kept

LEMMA DetailCorrect ==
    ASSUME OneWorker
    PROVE  PSpec => [](Base /\ PageInv)
  <1>1. Base /\ PageInv /\ [PNext]_pvars => (Base /\ PageInv)'
    BY DetailStep
  <1> QED
    BY <1>1, DetailInit, PTL DEF PSpec

\* With one worker, whatever crashes and fails, a page without a Refresh shows
\* its runs and their outputs as they are and stay.
THEOREM PageIsFinal ==
    ASSUME OneWorker
    PROVE  PSpec => []SettledPageIsFinal
  <1>1. PageInv => SettledPageIsFinal
    BY DEF PageInv, RowsKnown, StepsKnown, SettledPageIsFinal, NoRefresh, There, Shown,
       isAnyRunNonTerminal
  <1> QED
    BY <1>1, DetailCorrect, PTL

\* Its title is the latest, if all runs had ended when the row was read.
THEOREM TitleIsCurrent ==
    ASSUME OneWorker
    PROVE  PSpec => []SettledTitleIsCurrent
  <1>1. PageInv => SettledTitleIsCurrent
    BY DEF PageInv, TitleKnown, SettledTitleIsCurrent, NoRefresh, Kept, There, Shown
  <1> QED
    BY <1>1, DetailCorrect, PTL

\* A page comes to be shown by the last of its reads.
LEMMA ShownBy ==
    ASSUME PageShape, [PNext]_pvars, page'.at = "shown"
    PROVE  PageFiles \/ (Shown /\ (UNCHANGED page \/ OtherStep))
  <1>1. ASSUME NEW s \in SnapshotIds, GetPage(s) PROVE FALSE
    <2>1. page'.at \in {"runs", "away"}
      BY <1>1 DEF GetPage, NoPage
    <2> QED
      BY <2>1
  <1>2. CASE PageRuns \/ PageSteps \/ PageRunsFail
    <2>1. page'.at \in {"files", "steps"}
      BY <1>2 DEF PageRuns, PageSteps, PageRunsFail, PageShape
    <2> QED
      BY <2>1
  <1>3. CASE ClosePage
    BY <1>3 DEF ClosePage, NoPage
  <1>4. CASE OtherStep
    <2>1. page' # NoPage
      BY DEF NoPage
    <2>2. page' = [page EXCEPT !.touched = @ \/ page.snapshot \in Touched']
      BY <1>4, <2>1 DEF OtherStep
    <2>3. page'.at = page.at
      BY <2>2 DEF PageShape
    <2> QED
      BY <1>4, <2>3 DEF Shown
  <1>5. CASE UNCHANGED pvars
    BY <1>5 DEF pvars, Shown
  <1> QED
    BY <1>1, <1>2, <1>3, <1>4, <1>5 DEF PNext, Browse

\* A page has its links once the directory is walked: from then on none of what
\* the property speaks of changes.
LEMMA LinksStep ==
    ASSUME OneWorker, Base, Sync, PageInv, SettledPageLinks, [PNext]_pvars
    PROVE  SettledPageLinks'
  <1>1. CASE page'.at # "shown"
    BY <1>1 DEF SettledPageLinks, NoRefresh, Shown
  <1>2. CASE PageFiles
    <2> SUFFICES ASSUME NoRefresh', page'.snapshot \in snapshots', ~page'.touched,
                        page'.snapshot \notin disturbed',
                        NEW r \in DOMAIN page'.steps, page'.steps[r] = "succeeded"
                 PROVE  page'.runs[r].extractor \in page'.files
      BY DEF SettledPageLinks
    <2>1. page'.runs = page.runs
      BY <1>2 DEF PageFiles, NoPage, PageInv, PageShape
    <2>2. ~isAnyRunNonTerminal
      BY <2>1 DEF NoRefresh, isAnyRunNonTerminal
    <2>3. /\ page' = [page EXCEPT !.at = "shown", !.files = DOMAIN files[page.snapshot]]
          /\ UNCHANGED <<snapshots, disturbed>> /\ page.at = "files"
      BY <1>2, <2>2 DEF PageFiles, dvars, vars, tables, data, requests
    <2>4. PICK s : s = page.snapshot
      OBVIOUS
    <2>5. /\ page'.steps = page.steps /\ page'.files = DOMAIN files[s]
          /\ s \in snapshots \ disturbed /\ ~page.touched
      BY <2>3, <2>4 DEF PageInv, PageShape
    <2>6. There /\ Kept
      BY <2>2, <2>3, <2>4, <2>5 DEF There, Kept
    <2>7. s \notin Touched
      BY <2>4, <2>5, <2>6 DEF PageInv, Untouched
    <2>8. Saved(s) /\ Deleting(s) = {}
      BY <2>5, <2>7, SnapshotsNumbered DEF Touched, Sync, SyncAt, Followed, Base, HeldInv
    <2>9. page.steps = [x \in DOMAIN page.runs \cap DOMAIN outputs |-> outputs[x]]
      BY <2>2, <2>3, <2>5, <2>6 DEF PageInv, StepsKnown
    <2>10. /\ r \in DOMAIN page.runs \cap DOMAIN outputs /\ outputs[r] = "succeeded"
           /\ r \in RunsOf(s) /\ page.runs[r] = runs[r]
      BY <2>2, <2>4, <2>5, <2>6, <2>9 DEF PageInv, RowsKnown, isAnyRunNonTerminal
    <2> QED
      BY <2>1, <2>5, <2>8, <2>10 DEF Saved, Recorded
  <1>3. CASE Shown /\ page'.at = "shown" /\ (UNCHANGED page \/ OtherStep)
    <2>1. UNCHANGED page \/ OtherStep
      BY <1>3
    <2>2. /\ page'.snapshot = page.snapshot /\ page'.runs = page.runs /\ page'.steps = page.steps
          /\ page'.files = page.files /\ (page.touched => page'.touched)
      BY <1>3, <2>1 DEF OtherStep, NoPage, PageInv, PageShape
    <2>3. [DNext]_dvars
      BY DEF PNext, OtherStep, Browse, GetPage, PageRuns, PageSteps, PageRunsFail, PageFiles,
         ClosePage, pvars
    <2>4. page.snapshot \in snapshots' \ disturbed' => page.snapshot \in snapshots \ disturbed
      BY <1>3, <2>3, GoneStays, DisturbedStays DEF PageInv, PageShape, Shown, Base, HeldInv
    <2>5. NoRefresh' => NoRefresh
      BY <1>3, <2>2 DEF NoRefresh, isAnyRunNonTerminal
    <2> QED
      BY <2>2, <2>4, <2>5 DEF SettledPageLinks
  <1> QED
    BY <1>1, <1>2, <1>3, ShownBy DEF PageInv

\* Such a page links the file of every output that it says succeeded, unless a
\* delete-file request or a failure disturbed the snapshot.
THEOREM PageHasLinks ==
    ASSUME OneWorker
    PROVE  PSpec => []SettledPageLinks
  <1>1. PInit => SettledPageLinks
    BY DEF PInit, NoPage, SettledPageLinks, NoRefresh, Shown
  <1>2. /\ Base /\ Sync /\ PageInv /\ SettledPageLinks /\ [PNext]_pvars
        => (Base /\ Sync /\ PageInv /\ SettledPageLinks)'
    BY BrowserStep, SyncStep, DetailStep, LinksStep
  <1> QED
    BY <1>1, <1>2, DetailInit, PTL DEF PSpec
=============================================================================
