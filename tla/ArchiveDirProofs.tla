-------------------------- MODULE ArchiveDirProofs --------------------------
(***************************************************************************)
(* Theorems about ArchiveDir.  Adding the files, the outputs and the       *)
(* delete-file requests to the queue leaves the queue's steps what they    *)
(* were, so that its invariants hold here too, and with one worker the run *)
(* on whose behalf a worker writes into a directory holds the lock of that *)
(* very directory's snapshot.  From that follows what is kept on disk: the *)
(* index.json of a snapshot that nothing disturbed follows the tables, is  *)
(* never left torn and shows no file that is not there.  Every fault may   *)
(* happen.                                                                 *)
(***************************************************************************)
EXTENDS ArchiveDir, RunQueueProofs, WellFoundedInduction

----------------------------------------------------------------------------
(* The queue inside.                                                       *)

LEMMA WorkerSteps ==
    ASSUME NEW w \in Workers, DWork(w) \/ TitleFails(w) \/ IndexFails(w) \/ WriteFails(w)
    PROVE  Work(w) \/ WorkerFault(w) \/ UNCHANGED vars
  BY DEF DWork, Load, Mkdir, List, Bookkeeping, Leave, Extracted, Record,
         FindTitle, TitleSaved, SaveTitle, ReadOutputs, Truncate, Fill, Finish,
         TitleFails, IndexFails, WriteFails, Work, WorkerFault

LEMMA RequestSteps ==
    ASSUME NEW q \in Requests, DeleteFile(q) \/ CutShort(q)
    PROVE  UNCHANGED vars
  BY DEF DeleteFile, OpenRequest, Guard, RemoveFile, DropOutputs, RequestReads,
         RequestTruncates, RequestFills, CutShort

LEMMA SubmitSteps ==
    ASSUME Submit
    PROVE  Handlers
  BY DEF Submit, Handlers

\* The refinement step: what happens to the queue is a step of the queue.
LEMMA StepIsQueueStep == [DNext]_dvars => [Next]_vars
  <1> SUFFICES ASSUME [DNext]_dvars
               PROVE  [Next]_vars
    OBVIOUS
  <1>1. CASE \E w \in Workers :
               DWork(w) \/ TitleFails(w) \/ IndexFails(w) \/ WriteFails(w)
    BY <1>1, WorkerSteps DEF Next
  <1>2. CASE \E q \in Requests : DeleteFile(q) \/ CutShort(q)
    BY <1>2, RequestSteps
  <1>3. CASE \E s \in SnapshotIds : Delete(s) \/ RemoveEntry(s) \/ RemoveSnapshot(s) \/ RemoveFails(s)
    BY <1>3 DEF Delete, RemoveEntry, RemoveSnapshot, RemoveFails, Next, Handlers
  <1>4. CASE Submit
    BY <1>4, SubmitSteps DEF Next
  <1>5. CASE ProcessStops
    BY <1>5 DEF ProcessStops, Next
  <1>6. CASE ProcessStarts
    BY <1>6 DEF ProcessStarts, Next
  <1>7. CASE UNCHANGED dvars
    BY <1>7 DEF dvars
  <1> QED
    BY <1>1, <1>2, <1>3, <1>4, <1>5, <1>6, <1>7 DEF DNext, DFault

\* By the way ArchiveDir is written, every theorem about RunQueue's Spec is one
\* about DSpec.
LEMMA Composition == DSpec => Spec
  <1>1. DInit => Init
    BY DEF DInit
  <1> QED
    BY <1>1, StepIsQueueStep, PTL DEF DSpec, Spec

----------------------------------------------------------------------------
(* Who writes into a snapshot's directory.                                 *)

\* A worker within runOne or RebuildIndex is "indexing" for RunQueue.
JobOK ==
    /\ job = [w \in Workers |-> job[w]]
    /\ \A w \in Workers : "at" \in DOMAIN job[w]
    /\ \A w \in Workers : job[w].at \in WritingSteps => pc[w] = "indexing"

LEMMA InitJobOK == DInit => JobOK
  BY DEF DInit, JobOK, NoJob, WritingSteps

\* What one worker does leaves the jobs of the others alone.
LEMMA OneJobOK ==
    ASSUME JobOK, NEW w \in Workers, NEW new,
           job' = [job EXCEPT ![w] = new],
           "at" \in DOMAIN new,
           new.at \in WritingSteps => pc'[w] = "indexing",
           \A v \in Workers : v # w => pc'[v] = pc[v]
    PROVE  JobOK'
  BY DEF JobOK

LEMMA WorkerJobOK ==
    ASSUME TypeOK, JobOK, NEW w \in Workers,
           DWork(w) \/ TitleFails(w) \/ IndexFails(w) \/ WriteFails(w)
    PROVE  JobOK'
  <1> USE DEF WritingSteps
  <1>1. CASE Load(w)
    <2>1. pc' = [pc EXCEPT ![w] = "listing"]
      BY <1>1 DEF Load, LoadSnapshot, Goto
    <2> QED
      BY <1>1, <2>1 DEF Load, JobOK, TypeOK, MemoryOK
  <1>2. CASE Mkdir(w)
    BY <1>2 DEF Mkdir, vars, JobOK
  <1>3. CASE List(w)
    <2>1. pc' = [pc EXCEPT ![w] = "loop"]
      BY <1>3 DEF List, ListRuns, Goto
    <2> QED
      BY <1>3, <2>1 DEF List, JobOK, TypeOK, MemoryOK
  <1>4. CASE Bookkeeping(w)
    <2>1. pc[w] # "indexing" /\ \A v \in Workers : v # w => pc'[v] = pc[v]
      BY <1>4 DEF Bookkeeping, ClaimNextSnapshot, SnapshotGone, RunHeld, StartRun,
                  SkipRun, StartFails, ExtractorHangs, Goto, Take, Execute,
                  TypeOK, MemoryOK
    <2> QED
      BY <1>4, <2>1 DEF Bookkeeping, data, JobOK
  <1>5. CASE Leave(w)
    <2>1. \A v \in Workers : v # w => pc'[v] = pc[v]
      BY <1>5 DEF Leave, LoadFails, LoopDone, Goto, TypeOK, MemoryOK
    <2>2. job' = [job EXCEPT ![w] = NoJob]
      BY <1>5 DEF Leave
    <2>3. "at" \in DOMAIN NoJob /\ NoJob.at = "none"
      BY DEF NoJob
    <2> QED
      BY <2>1, <2>2, <2>3, OneJobOK
  <1>6. CASE Extracted(w)
    <2>1. pc' = [pc EXCEPT ![w] = "indexing"]
      BY <1>6 DEF Extracted, Extract, Goto
    <2>2. PICK at, result : job' = [job EXCEPT ![w].at = at, ![w].result = result]
      BY <1>6 DEF Extracted
    <2> QED
      BY <2>1, <2>2 DEF JobOK, TypeOK, MemoryOK
  <1>7. CASE Record(w) \/ FindTitle(w) \/ ReadOutputs(w) \/ Truncate(w) \/ Fill(w)
             \/ IndexFails(w) \/ WriteFails(w)
    <2>1. pc' = pc /\ pc[w] = "indexing"
      BY <1>7 DEF Record, FindTitle, ReadOutputs, Truncate, Fill, IndexFails,
                  WriteFails, At, vars
    <2> QED
      BY <1>7, <2>1 DEF Record, FindTitle, ReadOutputs, Truncate, Fill, IndexFails,
                        WriteFails, JobOK
  <1>8. CASE TitleSaved(w) \/ TitleFails(w)
    <2>1. PICK saved \in BOOLEAN : SaveTitle(w, saved)
      BY <1>8 DEF TitleSaved, TitleFails
    <2>2. pc' = pc /\ pc[w] = "indexing"
      BY <2>1 DEF SaveTitle, At, vars
    <2>3. PICK t :
                 job' = [job EXCEPT ![w].at = "read", ![w].best = NoTitle, ![w].title = t]
      BY <2>1 DEF SaveTitle
    <2> QED
      BY <2>2, <2>3 DEF JobOK
  <1>9. CASE Finish(w)
    <2>1. \A v \in Workers : v # w => pc'[v] = pc[v]
      BY <1>9 DEF Finish, FinishRun, FinishFails, Goto, TypeOK, MemoryOK
    <2> DEFINE new == [NoJob EXCEPT !.names = job[w].names, !.title = job[w].title]
    <2>2. job' = [job EXCEPT ![w] = new]
      BY <1>9 DEF Finish
    <2>3. "at" \in DOMAIN new /\ new.at = "none"
      BY DEF NoJob
    <2> QED
      BY <2>1, <2>2, <2>3, OneJobOK
  <1> QED
    BY <1>1, <1>2, <1>3, <1>4, <1>5, <1>6, <1>7, <1>8, <1>9 DEF DWork

LEMMA NextJobOK ==
    ASSUME OneWorker, TypeOK, JobOK, [DNext]_dvars
    PROVE  JobOK'
  <1>1. CASE \E w \in Workers :
               DWork(w) \/ TitleFails(w) \/ IndexFails(w) \/ WriteFails(w)
    BY <1>1, WorkerJobOK
  <1>2. CASE \E q \in Requests : DeleteFile(q) \/ CutShort(q)
    <2>1. UNCHANGED vars
      BY <1>2, RequestSteps
    <2>2. UNCHANGED job
      BY <1>2 DEF DeleteFile, OpenRequest, Guard, RemoveFile, DropOutputs,
                  RequestReads, RequestTruncates, RequestFills, CutShort
    <2> QED
      BY <2>1, <2>2 DEF JobOK, vars
  <1>3. CASE \E s \in SnapshotIds : Delete(s) \/ RemoveEntry(s) \/ RemoveSnapshot(s) \/ RemoveFails(s)
    BY <1>3 DEF Delete, DeleteSnapshot, RemoveEntry, RemoveSnapshot, RemoveFails, vars, JobOK
  <1>4. CASE Submit
    BY <1>4 DEF Submit, CreateSnapshot, InsertPendingRuns, EnqueueFails, Rerun, JobOK
  <1>5. CASE ProcessStops
    BY <1>5 DEF ProcessStops, NoJob, JobOK, WritingSteps
  <1>6. CASE ProcessStarts
    BY <1>6 DEF ProcessStarts, Restart, data, Up, OneWorker, JobOK
  <1>7. CASE UNCHANGED dvars
    BY <1>7 DEF dvars, vars, data, JobOK
  <1> QED
    BY <1>1, <1>2, <1>3, <1>4, <1>5, <1>6, <1>7 DEF DNext, DFault

\* With one worker, and under every fault, whatever a worker does between the
\* extractor and FinishRun it does under its own run's lock.
THEOREM WritesUnderLock ==
    ASSUME OneWorker
    PROVE  DSpec => []WorkerHoldsLock
  <1>1. TypeOK /\ JobOK /\ [DNext]_dvars => JobOK'
    BY NextJobOK
  <1>2. JobOK /\ LockHeldWhileIndexing => WorkerHoldsLock
    BY DEF JobOK, LockHeldWhileIndexing, WorkerHoldsLock
  <1>3. DSpec => []TypeOK
    BY Composition, TypeCorrect, PTL
  <1>4. DSpec => []LockHeldWhileIndexing
    BY Composition, LockHeld, PTL
  <1> QED
    BY <1>1, <1>2, <1>3, <1>4, InitJobOK, PTL DEF DSpec

----------------------------------------------------------------------------
(* Least and greatest numbers of a set.                                    *)

LEMMA Least ==
    ASSUME NEW T, T \subseteq Nat, T # {}
    PROVE  \E x \in T : \A y \in T : x <= y
  <1> DEFINE Below == OpToRel(<, Nat)
  <1>1. \A x, y \in Nat : y < x => <<y, x>> \in Below
    BY DEF OpToRel
  <1>2. IsWellFoundedOn(Below, Nat)
    BY NatLessThanWellFounded
  <1> HIDE DEF Below
  <1>3. PICK x \in T : \A y \in T : ~(<<y, x>> \in Below)
    BY <1>2, WFMin
  <1>4. ASSUME NEW y \in T PROVE x <= y
    <2>1. x \in Nat /\ y \in Nat
      OBVIOUS
    <2>2. ~(y < x)
      BY <1>1, <1>3, <2>1, Zenon
    <2> QED
      BY <2>1, <2>2
  <1> QED
    BY <1>4

LEMMA Greatest ==
    ASSUME NEW n \in Nat, NEW T, T \subseteq 1..n, T # {}
    PROVE  \E x \in T : \A y \in T : y <= x
  <1> DEFINE M == {n - x : x \in T}
  <1>1. \A x \in T : x \in Int /\ n - x \in Nat
    OBVIOUS
  <1>2. M \subseteq Nat
    BY <1>1
  <1>3. M # {}
    OBVIOUS
  <1>4. PICK m \in M : \A y \in M : m <= y
    <2> HIDE DEF M
    <2> QED
      BY <1>2, <1>3, Least
  <1>5. PICK x \in T : m = n - x
    BY <1>4
  <1>6. ASSUME NEW y \in T PROVE y <= x
    BY <1>1, <1>4, <1>5
  <1> QED
    BY <1>6

----------------------------------------------------------------------------
(* Types.                                                                  *)

AnyTitle == Titles \cup {NoTitle}

\* What a directory holds, what index.json shows and what a worker loaded.
FileMap  == UNION {[S -> AnyTitle] : S \in SUBSET Extractors}
StepMap  == UNION {[S -> Terminal] : S \in SUBSET Extractors}
NameMap  == UNION {[S -> Extractors] : S \in SUBSET RunIds}
Document == {NoIndex, Torn} \cup {Index(t, latest) : t \in AnyTitle, latest \in StepMap}

Job ==
    [at : {"none", "mkdir"} \cup WritingSteps, names : NameMap, title : AnyTitle,
     best : AnyTitle, result : Terminal \cup {"none"}, steps : StepMap]

Request ==
    [at : {"none", "guard", "remove", "outputs", "read", "truncate", "fill"},
     snapshot : SnapshotIds \cup {None}, file : Extractors \cup {"none"},
     title : AnyTitle, steps : StepMap]

OutputsOK ==
    /\ DOMAIN outputs \subseteq DOMAIN runs
    /\ outputs \in [DOMAIN outputs -> Terminal \ {"skipped"}]

DiskOK ==
    /\ dirs \subseteq 1..lastSnapshot
    /\ files \in [SnapshotIds -> FileMap]
    /\ index \in [SnapshotIds -> Document]
    /\ \A s \in SnapshotIds : s \notin dirs => files[s] = Nothing /\ index[s] = NoIndex

JobsOK ==
    /\ job \in [Workers -> Job]
    /\ \A w \in Workers :
         /\ job[w].at = "mkdir" => pc[w] = "listing"
         /\ job[w].at \in WritingSteps => pc[w] = "indexing"
         /\ job[w].at = "record" => job[w].result \in Terminal

RequestsOK ==
    /\ req \in [Requests -> Request]
    /\ \A q \in Requests :
         IF req[q].at = "none" THEN req[q].snapshot = None
         ELSE req[q].snapshot \in 1..lastSnapshot

RestOK ==
    /\ title \in [SnapshotIds -> AnyTitle]
    /\ removing \subseteq 1..lastSnapshot \ snapshots
    /\ disturbed \subseteq SnapshotIds
    /\ dataFaults \in 0..MaxDataFaults

\* A worker past its claim has a snapshot.
ClaimedOK == \A w \in Workers : pc[w] \notin {"idle", "down"} => wsnap[w] \in 1..lastSnapshot

\* The workers stop together.
DownOK == (\A w \in Workers : pc[w] = "down") \/ (\A w \in Workers : pc[w] # "down")

DataTypes == OutputsOK /\ DiskOK /\ JobsOK /\ RequestsOK /\ RestOK /\ ClaimedOK /\ DownOK

LEMMA NothingTypes ==
    /\ DOMAIN Nothing = {}
    /\ Nothing \in FileMap /\ Nothing \in StepMap /\ Nothing \in NameMap
  <1>1. DOMAIN Nothing = {}
    BY DEF Nothing
  <1>2. Nothing \in [{} -> AnyTitle] /\ Nothing \in [{} -> Terminal] /\ Nothing \in [{} -> Extractors]
    BY DEF Nothing
  <1> QED
    BY <1>1, <1>2 DEF FileMap, StepMap, NameMap

LEMMA NoTypes == NoJob \in Job /\ NoRequest \in Request /\ NoJob.at = "none"
                 /\ NoRequest.at = "none" /\ NoRequest.snapshot = None
  BY NothingTypes DEF NoJob, NoRequest, Job, Request, AnyTitle

\* One more file, or one less, is a directory's content again.
LEMMA FileMapType ==
    ASSUME NEW fs \in FileMap
    PROVE  /\ DOMAIN fs \subseteq Extractors
           /\ \A e \in DOMAIN fs : fs[e] \in AnyTitle
  BY DEF FileMap

LEMMA FileMapIntro ==
    ASSUME NEW S \in SUBSET Extractors, NEW fs, fs \in [S -> AnyTitle]
    PROVE  fs \in FileMap
  BY DEF FileMap

LEMMA BestTitleType ==
    ASSUME NEW fs \in FileMap
    PROVE  BestTitle(fs) \in AnyTitle
  <1> DEFINE titled == {i \in 1..Len(TitleOrder) :
                          TitleOrder[i] \in DOMAIN fs /\ fs[TitleOrder[i]] # NoTitle}
  <1>1. CASE titled = {}
    BY <1>1 DEF BestTitle, AnyTitle
  <1>2. CASE titled # {}
    <2>1. titled \subseteq Nat
      OBVIOUS
    <2>2. \E i \in titled : \A j \in titled : i <= j
      <3> HIDE DEF titled
      <3> QED
        BY <1>2, <2>1, Least
    <2> DEFINE first == CHOOSE i \in titled : \A j \in titled : i <= j
    <2>3. first \in titled
      <3> HIDE DEF titled
      <3> QED
        BY <2>2
    <2>4. BestTitle(fs) = fs[TitleOrder[first]]
      BY <1>2 DEF BestTitle
    <2>5. TitleOrder[first] \in DOMAIN fs
      BY <2>3
    <2> QED
      BY <2>4, <2>5, FileMapType
  <1> QED
    BY <1>1, <1>2

----------------------------------------------------------------------------
(* The projection.                                                         *)

Recorded(s) == RunsOf(s) \cap DOMAIN outputs

Last(S) == CHOOSE r \in S : \A q \in S : q <= r

By(s, e) == {r \in Recorded(s) : runs[r].extractor = e}

LEMMA ProjectionIs ==
    ASSUME NEW s
    PROVE  Projection(s) = [e \in {runs[r].extractor : r \in Recorded(s)} |->
                              outputs[Last(By(s, e))]]
  BY DEF Projection, Recorded, By, Last

LEMMA LastIn ==
    ASSUME NEW S, S \subseteq RunIds, S # {}
    PROVE  Last(S) \in S
  <1>1. \E r \in S : \A q \in S : q <= r
    BY Greatest, ConstantsAssumption DEF RunIds
  <1> QED
    BY <1>1 DEF Last

LEMMA ProjectionValue ==
    ASSUME TypeOK, OutputsOK, NEW s, NEW e \in DOMAIN Projection(s)
    PROVE  /\ Last(By(s, e)) \in By(s, e)
           /\ Projection(s)[e] = outputs[Last(By(s, e))]
  <1>1. Recorded(s) \subseteq RunIds
    BY ConstantsAssumption DEF TypeOK, TablesOK, RunsOf, Recorded, RunIds
  <1>2. e \in {runs[r].extractor : r \in Recorded(s)}
    BY ProjectionIs
  <1>3. By(s, e) # {} /\ By(s, e) \subseteq RunIds
    BY <1>1, <1>2 DEF By
  <1> QED
    BY <1>2, <1>3, LastIn, ProjectionIs

LEMMA ProjectionType ==
    ASSUME TypeOK, OutputsOK, NEW s
    PROVE  Projection(s) \in StepMap
  <1>1. \A r \in Recorded(s) : runs[r].extractor \in Extractors
    BY DEF Recorded, RunsOf, TypeOK, TablesOK, RunRow
  <1>2. DOMAIN Projection(s) \subseteq Extractors
    BY <1>1, ProjectionIs
  <1>3. ASSUME NEW e \in DOMAIN Projection(s) PROVE Projection(s)[e] \in Terminal
    <2>1. Last(By(s, e)) \in DOMAIN outputs
      BY ProjectionValue DEF By, Recorded
    <2>2. Projection(s)[e] = outputs[Last(By(s, e))]
      BY ProjectionValue
    <2> QED
      BY <2>1, <2>2 DEF OutputsOK
  <1>4. Projection(s) = [e \in DOMAIN Projection(s) |-> Projection(s)[e]]
    BY ProjectionIs
  <1>5. Projection(s) \in [DOMAIN Projection(s) -> Terminal]
    BY <1>3, <1>4
  <1> QED
    BY <1>2, <1>5 DEF StepMap

----------------------------------------------------------------------------
(* What the queue's steps leave alone.                                     *)

LEMMA ClaimedStep ==
    ASSUME TypeOK, ClaimedOK, DownOK, [Next]_vars
    PROVE  ClaimedOK' /\ DownOK'
  <1>1. CASE Handlers
    <2>1. UNCHANGED <<pc, wsnap>>
      BY <1>1, HandlersEffect DEF memory
    <2>2. lastSnapshot \in Nat /\ lastSnapshot' \in {lastSnapshot, lastSnapshot + 1}
      <3>1. lastSnapshot \in Nat
        BY ConstantsAssumption DEF TypeOK, TablesOK
      <3>2. CASE CreateSnapshot
        BY <3>1, <3>2 DEF CreateSnapshot
      <3>3. CASE \E s \in SnapshotIds :
                   \/ InsertPendingRuns(s) \/ EnqueueFails(s) \/ DeleteSnapshot(s)
                   \/ \E e \in Extractors : Rerun(s, e)
        <4>1. lastSnapshot' = lastSnapshot
          BY <3>3 DEF InsertPendingRuns, EnqueueFails, DeleteSnapshot, Rerun, tables
        <4> QED
          BY <3>1, <4>1
      <3> QED
        BY <1>1, <3>2, <3>3 DEF Handlers
    <2> QED
      BY <2>1, <2>2 DEF ClaimedOK, DownOK
  <1>2. CASE \E w \in Workers : Work(w) \/ WorkerFault(w)
    BY <1>2, OneMoves DEF ClaimedOK, DownOK, TypeOK, TablesOK
  <1>3. CASE Crash \/ Restart
    BY <1>3 DEF Crash, Restart, ClaimedOK, DownOK, TypeOK, MemoryOK
  <1>4. CASE UNCHANGED vars
    BY <1>4 DEF vars, tables, memory, ClaimedOK, DownOK
  <1> QED
    BY <1>1, <1>2, <1>3, <1>4 DEF Next

----------------------------------------------------------------------------
(* The types are kept.                                                     *)

LEMMA TitleTypes == DataTypes => \A s \in SnapshotIds : title[s] \in AnyTitle
  BY DEF DataTypes, RestOK

\* os.WriteFile, by whomever.
LEMMA IndexTypes ==
    ASSUME DiskOK, NEW s \in SnapshotIds, NEW t \in AnyTitle, NEW latest \in StepMap,
           TruncateIndex(s) \/ FillIndex(s, t, latest),
           UNCHANGED <<dirs, files, lastSnapshot>>
    PROVE  DiskOK'
  <1>1. Torn \in Document /\ Index(t, latest) \in Document
    BY DEF Document
  <1>2. index[s] # NoIndex => s \in dirs
    BY DEF DiskOK
  <1>3. PICK doc \in Document : index' = IF s \in dirs THEN [index EXCEPT ![s] = doc] ELSE index
    <2>1. CASE index' = index
      <3>1. index[s] \in Document /\ index = [index EXCEPT ![s] = index[s]]
        BY DEF DiskOK
      <3> QED
        BY <2>1, <3>1
    <2> QED
      BY <1>1, <1>2, <2>1 DEF TruncateIndex, FillIndex
  <1> QED
    BY <1>3 DEF DiskOK

\* The files that an extractor leaves.
LEMMA FilesAfterTypes ==
    ASSUME DiskOK, NEW s \in SnapshotIds, NEW e \in Extractors, NEW outcome \in Terminal,
           NEW fs \in FilesAfter(s, e, outcome)
    PROVE  /\ fs \in FileMap
           /\ s \notin dirs => fs = files[s]
           /\ DOMAIN files[s] \subseteq DOMAIN fs
           /\ outcome = "succeeded" => e \in DOMAIN fs
  <1> DEFINE with(t) == [f \in DOMAIN files[s] \cup {e} |-> IF f = e THEN t ELSE files[s][f]]
  <1>1. files[s] \in FileMap
    BY DEF DiskOK
  <1>2. ASSUME NEW t \in AnyTitle
        PROVE  with(t) \in FileMap /\ DOMAIN with(t) = DOMAIN files[s] \cup {e}
    <2>1. DOMAIN files[s] \subseteq Extractors /\ \A f \in DOMAIN files[s] : files[s][f] \in AnyTitle
      BY <1>1, FileMapType
    <2>2. with(t) \in [DOMAIN files[s] \cup {e} -> AnyTitle]
      BY <2>1
    <2>3. DOMAIN files[s] \cup {e} \in SUBSET Extractors
      BY <2>1
    <2> QED
      BY <2>2, <2>3, FileMapIntro
  <1>3. /\ fs = files[s] \/ \E t \in AnyTitle : fs = with(t)
        /\ outcome = "succeeded" => s \in dirs /\ e \in DOMAIN fs
        /\ outcome = "failed" => fs = files[s] \/ s \in dirs
        /\ outcome = "skipped" => fs = files[s]
    BY DEF FilesAfter, AnyTitle
  <1>4. outcome \in {"failed", "succeeded", "skipped"}
    BY DataAssumption
  <1> HIDE DEF with
  <1> QED
    BY <1>1, <1>2, <1>3, <1>4

LEMMA FilesTypes ==
    ASSUME DiskOK, NEW s \in SnapshotIds, NEW fs \in FileMap, s \notin dirs => fs = files[s],
           files' = [files EXCEPT ![s] = fs], UNCHANGED <<dirs, index, lastSnapshot>>
    PROVE  DiskOK'
  BY DEF DiskOK

\* A worker's step changes its own job.
LEMMA JobTypes ==
    ASSUME JobsOK, NEW w \in Workers, job' \in [Workers -> Job],
           \A v \in Workers : v # w => job'[v] = job[v] /\ pc'[v] = pc[v],
           job'[w].at = "mkdir" => pc'[w] = "listing",
           job'[w].at \in WritingSteps => pc'[w] = "indexing",
           job'[w].at = "record" => job'[w].result \in Terminal
    PROVE  JobsOK'
  BY DEF JobsOK

\* What Record leaves: the run's result, or what was there.
LEMMA RecordEffect ==
    ASSUME NEW w \in Workers, OutputsOK, Record(w)
    PROVE  /\ outputs' = [r \in DOMAIN outputs' |-> outputs'[r]]
           /\ \A r \in DOMAIN outputs' :
                \/ r = cur[w] /\ r \in DOMAIN runs /\ outputs'[r] = job[w].result
                   /\ job[w].result # "skipped"
                \/ r \in DOMAIN outputs /\ outputs'[r] = outputs[r]
           /\ \A r \in DOMAIN outputs : r # cur[w] => r \in DOMAIN outputs'
  <1> DEFINE new     == {r \in {cur[w]} : r \in DOMAIN runs /\ job[w].result # "skipped"}
             cleared == [r \in DOMAIN outputs \ {cur[w]} |-> outputs[r]]
  <1>1. \/ outputs' = [r \in DOMAIN cleared \cup new |->
                         IF r \in new THEN job[w].result ELSE outputs[r]]
        \/ outputs' = cleared
        \/ outputs' = outputs
    BY DEF Record
  <1>2. outputs = [r \in DOMAIN outputs |-> outputs[r]]
    BY DEF OutputsOK
  <1> QED
    BY <1>1, <1>2

\* Steps of a worker within "listing" and "indexing", which the queue does not see.
LEMMA InnerTypes ==
    ASSUME TypeOK, DataTypes, NEW w \in Workers,
           \/ Mkdir(w) \/ Record(w) \/ FindTitle(w) \/ TitleSaved(w) \/ TitleFails(w)
           \/ ReadOutputs(w) \/ Truncate(w) \/ Fill(w) \/ IndexFails(w) \/ WriteFails(w)
    PROVE  OutputsOK' /\ DiskOK' /\ JobsOK' /\ RequestsOK' /\ RestOK'
  <1>1. /\ UNCHANGED vars
        /\ pc[w] \in {"listing", "indexing"}
        /\ UNCHANGED <<req, removing>>
        /\ disturbed' \subseteq disturbed \cup {wsnap[w]}
        /\ dataFaults' \in 0..MaxDataFaults
    BY DataAssumption
    DEF Mkdir, Record, FindTitle, TitleSaved, TitleFails, SaveTitle, ReadOutputs, Truncate, Fill,
        IndexFails, WriteFails, At, DataFault, Disturb, requests, DataTypes, RestOK
  <1>2. UNCHANGED <<runs, pc, snapshots, lastSnapshot, wsnap, cur>>
    BY <1>1 DEF vars, tables, memory
  <1>3. wsnap[w] \in SnapshotIds /\ wsnap[w] \in 1..lastSnapshot
    BY <1>1, ConstantsAssumption DEF DataTypes, ClaimedOK, TypeOK, TablesOK, SnapshotIds
  <1>4. /\ job \in [Workers -> Job] /\ job[w] \in Job /\ files[wsnap[w]] \in FileMap
        /\ title \in [SnapshotIds -> AnyTitle]
    BY <1>3 DEF DataTypes, JobsOK, DiskOK, RestOK
  <1>5. RequestsOK'
    BY <1>1, <1>2 DEF DataTypes, RequestsOK
  <1>6. CASE Mkdir(w)
    <2>1. job' = [job EXCEPT ![w].at = "none"] /\ dirs' = dirs \cup {wsnap[w]}
          /\ UNCHANGED <<outputs, title, files, index>>
      BY <1>6 DEF Mkdir
    <2>2. job' \in [Workers -> Job] /\ job'[w].at = "none" /\ \A v \in Workers : v # w => job'[v] = job[v]
      BY <2>1, <1>4 DEF Job
    <2>3. JobsOK'
      BY <1>2, <2>2, JobTypes DEF DataTypes, WritingSteps
    <2>4. DiskOK'
      BY <1>2, <1>3, <2>1 DEF DataTypes, DiskOK
    <2> QED
      BY <1>1, <1>2, <1>3, <1>5, <2>1, <2>3, <2>4 DEF DataTypes, OutputsOK, RestOK
  <1>7. CASE ~Mkdir(w)
    <2>1. pc[w] = "indexing" /\ UNCHANGED dirs
      BY <1>7 DEF Record, FindTitle, TitleSaved, TitleFails, SaveTitle, ReadOutputs, Truncate, Fill,
                  IndexFails, WriteFails, At, disk
    <2>2. /\ job' \in [Workers -> Job]
          /\ job'[w].at \in WritingSteps \ {"record"}
          /\ \A v \in Workers : v # w => job'[v] = job[v]
      <3>1. CASE Record(w) \/ Truncate(w) \/ IndexFails(w) \/ WriteFails(w)
        BY <1>4, <3>1 DEF Record, Truncate, IndexFails, WriteFails, Job, WritingSteps
      <3>2. CASE FindTitle(w)
        <4>1. BestTitle(files[wsnap[w]]) \in AnyTitle
          BY <1>4, BestTitleType
        <4> QED
          BY <1>4, <3>2, <4>1 DEF FindTitle, Job, WritingSteps
      <3>3. CASE TitleSaved(w) \/ TitleFails(w)
        BY <1>4, <3>3 DEF TitleSaved, TitleFails, SaveTitle, Job, WritingSteps, AnyTitle
      <3>4. CASE ReadOutputs(w)
        <4>1. Projection(wsnap[w]) \in StepMap
          BY ProjectionType DEF DataTypes
        <4> QED
          BY <1>4, <3>4, <4>1 DEF ReadOutputs, Job, WritingSteps
      <3>5. CASE Fill(w)
        BY <1>4, <3>5, NothingTypes DEF Fill, Job, WritingSteps
      <3> QED
        BY <1>7, <3>1, <3>2, <3>3, <3>4, <3>5
    <2>3. JobsOK'
      BY <1>2, <2>1, <2>2, JobTypes DEF DataTypes, WritingSteps
    <2>4. title' \in [SnapshotIds -> AnyTitle]
      <3>1. CASE TitleSaved(w) \/ TitleFails(w)
        BY <1>3, <1>4, <3>1 DEF TitleSaved, TitleFails, SaveTitle, Job
      <3>2. CASE ~(TitleSaved(w) \/ TitleFails(w))
        BY <1>4, <1>7, <3>2 DEF Record, FindTitle, ReadOutputs, Truncate, Fill, IndexFails, WriteFails
      <3> QED
        BY <3>1, <3>2
    <2>5. OutputsOK'
      <3>1. CASE Record(w)
        <4>1. job[w].result \in Terminal
          BY <3>1 DEF Record, At, DataTypes, JobsOK
        <4> QED
          BY <1>2, <3>1, <4>1, RecordEffect DEF DataTypes, OutputsOK
      <3>2. CASE ~Record(w)
        <4>1. UNCHANGED outputs
          BY <1>7, <3>2 DEF FindTitle, TitleSaved, TitleFails, SaveTitle, ReadOutputs, Truncate, Fill,
                      IndexFails, WriteFails
        <4> QED
          BY <1>2, <4>1 DEF DataTypes, OutputsOK
      <3> QED
        BY <3>1, <3>2
    <2>6. DiskOK'
      <3>1. CASE Truncate(w) \/ Fill(w)
        BY <1>2, <1>3, <1>4, <3>1, IndexTypes, NothingTypes DEF Truncate, Fill, DataTypes, Job
      <3>2. CASE ~(Truncate(w) \/ Fill(w))
        <4>1. UNCHANGED disk
          BY <1>7, <3>2 DEF Record, FindTitle, TitleSaved, TitleFails, SaveTitle, ReadOutputs,
                      IndexFails, WriteFails
        <4> QED
          BY <1>2, <4>1 DEF disk, DataTypes, DiskOK
      <3> QED
        BY <3>1, <3>2
    <2>7. RestOK'
      BY <1>1, <1>2, <1>3, <2>4 DEF DataTypes, RestOK
    <2> QED
      BY <1>5, <2>3, <2>5, <2>6, <2>7
  <1> QED
    BY <1>6, <1>7

\* The worker's steps that are steps of the queue.
LEMMA OuterTypes ==
    ASSUME TypeOK, DataTypes, NEW w \in Workers,
           Load(w) \/ List(w) \/ Bookkeeping(w) \/ Leave(w) \/ Extracted(w) \/ Finish(w)
    PROVE  OutputsOK' /\ DiskOK' /\ JobsOK' /\ RequestsOK' /\ RestOK'
  <1>1. /\ Work(w) \/ WorkerFault(w)
        /\ UNCHANGED <<title, outputs, dirs, index, req, removing, disturbed, dataFaults>>
    BY DEF Load, List, Bookkeeping, Leave, Extracted, Finish, Work, WorkerFault, data, disk, requests
  <1>2. /\ UNCHANGED <<snapshots, lastSnapshot>> /\ DOMAIN runs' = DOMAIN runs
        /\ \A v \in Workers : v # w => pc'[v] = pc[v]
    BY <1>1, OneMoves
  <1>3. OutputsOK' /\ RequestsOK' /\ RestOK'
    BY <1>1, <1>2 DEF DataTypes, OutputsOK, RequestsOK, RestOK
  <1>4. job \in [Workers -> Job] /\ job[w] \in Job
    BY DEF DataTypes, JobsOK
  <1>5. /\ DiskOK'
        /\ job' \in [Workers -> Job]
        /\ \A v \in Workers : v # w => job'[v] = job[v]
        /\ job'[w].at = "mkdir" => pc'[w] = "listing"
        /\ job'[w].at \in WritingSteps => pc'[w] = "indexing"
        /\ job'[w].at = "record" => job'[w].result \in Terminal
    <2>1. CASE UNCHANGED files /\ ~Extracted(w)
      <3>1. DiskOK'
        BY <1>1, <1>2, <2>1 DEF DataTypes, DiskOK
      <3>2. CASE Load(w)
        <4>1. title[wsnap[w]] \in AnyTitle
          BY <3>2, TitleTypes, ConstantsAssumption DEF Load, LoadSnapshot, TypeOK, TablesOK, SnapshotIds
        <4>2. pc' = [pc EXCEPT ![w] = "listing"]
          BY <3>2 DEF Load, LoadSnapshot, Goto
        <4>3. job' = [job EXCEPT ![w].at = "mkdir", ![w].title = title[wsnap[w]]]
          BY <3>2 DEF Load
        <4> QED
          BY <1>4, <3>1, <4>1, <4>2, <4>3 DEF Job, WritingSteps, TypeOK, MemoryOK
      <3>3. CASE List(w)
        <4> DEFINE names == [r \in RunsOf(wsnap[w]) |-> runs[r].extractor]
        <4>1. names \in NameMap
          <5>1. RunsOf(wsnap[w]) \in SUBSET RunIds
            BY ConstantsAssumption DEF RunsOf, RunIds, TypeOK, TablesOK
          <5>2. names \in [RunsOf(wsnap[w]) -> Extractors]
            BY DEF RunsOf, TypeOK, TablesOK, RunRow
          <5> QED
            BY <5>1, <5>2 DEF NameMap
        <4>2. job[w].at = "none" /\ job' = [job EXCEPT ![w].names = names]
          BY <3>3 DEF List
        <4> QED
          BY <1>4, <3>1, <4>1, <4>2 DEF Job, WritingSteps
      <3>4. CASE Bookkeeping(w)
        <4>1. pc[w] \notin {"listing", "indexing"}
          BY <3>4 DEF Bookkeeping, ClaimNextSnapshot, SnapshotGone, RunHeld, StartRun,
                      SkipRun, StartFails, ExtractorHangs, Take
        <4>2. UNCHANGED job
          BY <3>4 DEF Bookkeeping, data
        <4> QED
          BY <1>4, <3>1, <4>1, <4>2 DEF DataTypes, JobsOK, WritingSteps
      <3>5. CASE Leave(w)
        <4>1. job' = [job EXCEPT ![w] = NoJob]
          BY <3>5 DEF Leave
        <4> QED
          BY <1>4, <3>1, <4>1, NoTypes DEF WritingSteps
      <3>6. CASE Finish(w)
        <4> DEFINE new == [NoJob EXCEPT !.names = job[w].names, !.title = job[w].title]
        <4>1. job' = [job EXCEPT ![w] = new]
          BY <3>6 DEF Finish
        <4>2. new \in Job /\ new.at = "none"
          BY <1>4, NoTypes DEF Job
        <4> HIDE DEF new
        <4> QED
          BY <1>4, <3>1, <4>1, <4>2 DEF WritingSteps
      <3> QED
        BY <2>1, <3>2, <3>3, <3>4, <3>5, <3>6
    <2>2. CASE Extracted(w)
      <3> DEFINE s == wsnap[w]
                 e == job[w].names[cur[w]]
      <3>1. pc[w] = "exec" /\ pc' = [pc EXCEPT ![w] = "indexing"]
        BY <2>2 DEF Extracted, Extract, Goto
      <3>2. s \in SnapshotIds
        BY <3>1, ConstantsAssumption DEF DataTypes, ClaimedOK, TypeOK, TablesOK, SnapshotIds
      <3>3. pc'[w] = "indexing"
        BY <3>1 DEF TypeOK, MemoryOK
      <3>4. CASE e \in Registered
        <4>1. PICK outcome \in Terminal : \E fs \in FilesAfter(s, e, outcome) :
                /\ files' = [files EXCEPT ![s] = fs]
                /\ job' = [job EXCEPT ![w].at = "record", ![w].result = outcome]
          BY <2>2, <3>4 DEF Extracted
        <4>2. PICK fs \in FilesAfter(s, e, outcome) : files' = [files EXCEPT ![s] = fs]
          BY <4>1
        <4>3. e \in Extractors
          BY <3>4, RegisteredExtractors DEF TypeOK
        <4>4. fs \in FileMap /\ (s \notin dirs => fs = files[s])
          BY <3>2, <4>2, <4>3, FilesAfterTypes DEF DataTypes
        <4>5. DiskOK'
          BY <1>1, <1>2, <3>2, <4>2, <4>4, FilesTypes DEF DataTypes
        <4>6. job' = [job EXCEPT ![w].at = "record", ![w].result = outcome]
          BY <4>1
        <4> QED
          BY <1>4, <3>3, <4>5, <4>6 DEF Job, WritingSteps
      <3>5. CASE e \notin Registered
        <4>1. job' = [job EXCEPT ![w].at = "title", ![w].result = "failed"] /\ UNCHANGED files
          BY <2>2, <3>5 DEF Extracted
        <4>2. DiskOK'
          BY <1>1, <1>2, <4>1 DEF DataTypes, DiskOK
        <4> QED
          BY <1>4, <3>3, <4>1, <4>2, ConstantsAssumption DEF Job, WritingSteps
      <3> QED
        BY <3>4, <3>5
    <2> QED
      BY <2>1, <2>2 DEF Load, List, Bookkeeping, Leave, Finish, data, disk
  <1>6. JobsOK'
    BY <1>2, <1>5, JobTypes DEF DataTypes
  <1> QED
    BY <1>3, <1>5, <1>6

LEMMA RequestTypes ==
    ASSUME TypeOK, DataTypes, NEW q \in Requests, DeleteFile(q) \/ CutShort(q)
    PROVE  OutputsOK' /\ DiskOK' /\ JobsOK' /\ RequestsOK' /\ RestOK'
  <1>1. UNCHANGED vars /\ UNCHANGED <<title, job, removing, dirs>>
    BY RequestSteps DEF DeleteFile, OpenRequest, Guard, RemoveFile, DropOutputs, RequestReads,
          RequestTruncates, RequestFills, CutShort, disk
  <1>2. UNCHANGED <<runs, pc, snapshots, lastSnapshot>>
    BY <1>1 DEF vars, tables
  <1>3. req \in [Requests -> Request] /\ req[q] \in Request
    BY DEF DataTypes, RequestsOK
  <1>4. req[q].at # "none" => req[q].snapshot \in SnapshotIds /\ req[q].snapshot \in 1..lastSnapshot
    BY ConstantsAssumption DEF DataTypes, RequestsOK, TypeOK, TablesOK, SnapshotIds
  <1>5. JobsOK'
    BY <1>1, <1>2 DEF DataTypes, JobsOK
  <1>6. /\ req' \in [Requests -> Request]
        /\ \A p \in Requests : p # q => req'[p] = req[p]
        /\ IF req'[q].at = "none" THEN req'[q].snapshot = None
           ELSE req'[q].snapshot \in 1..lastSnapshot
    <2>1. CASE \E s \in SnapshotIds, e \in Extractors : OpenRequest(q, s, e)
      <3>1. PICK s \in SnapshotIds, e \in Extractors : OpenRequest(q, s, e)
        BY <2>1
      <3> DEFINE new == [at |-> "guard", snapshot |-> s, file |-> e, title |-> title[s],
                         steps |-> Nothing]
      <3>2. new \in Request /\ new.at # "none" /\ new.snapshot = s
        BY TitleTypes, NothingTypes DEF Request
      <3>3. req' = [req EXCEPT ![q] = new] /\ s \in 1..lastSnapshot
        BY <3>1 DEF OpenRequest, TypeOK, TablesOK
      <3> HIDE DEF new
      <3> QED
        BY <1>3, <3>2, <3>3
    <2>2. CASE Guard(q) \/ RemoveFile(q) \/ DropOutputs(q) \/ RequestReads(q) \/ RequestTruncates(q)
      <3>1. req[q].at # "none" /\ Projection(req[q].snapshot) \in StepMap
        BY <2>2, ProjectionType DEF Guard, RemoveFile, DropOutputs, RequestReads, RequestTruncates,
                                    DataTypes
      <3>2. \/ req' = [req EXCEPT ![q] = NoRequest]
            \/ \E at \in {"remove", "outputs", "read", "fill"} : req' = [req EXCEPT ![q].at = at]
            \/ req' = [req EXCEPT ![q].at = "truncate", ![q].steps = Projection(req[q].snapshot)]
        BY <2>2 DEF Guard, RemoveFile, DropOutputs, RequestReads, RequestTruncates
      <3> QED
        BY <1>3, <1>4, <3>1, <3>2, NoTypes DEF Request
    <2>3. CASE RequestFills(q) \/ CutShort(q)
      <3>1. req' = [req EXCEPT ![q] = NoRequest]
        BY <2>3 DEF RequestFills, CutShort
      <3> QED
        BY <1>3, <3>1, NoTypes
    <2> QED
      BY <2>1, <2>2, <2>3 DEF DeleteFile
  <1>7. RequestsOK'
    BY <1>2, <1>6 DEF DataTypes, RequestsOK
  <1>8. OutputsOK'
    <2>1. \E dropped : outputs' = [r \in DOMAIN outputs \ dropped |-> outputs[r]]
      <3>1. CASE DropOutputs(q)
        BY <3>1 DEF DropOutputs
      <3>2. CASE ~DropOutputs(q)
        <4>1. outputs' = outputs
          BY <3>2 DEF DeleteFile, OpenRequest, Guard, RemoveFile, RequestReads, RequestTruncates,
                      RequestFills, CutShort
        <4>2. outputs = [r \in DOMAIN outputs \ {} |-> outputs[r]]
          BY DEF DataTypes, OutputsOK
        <4> WITNESS {}
        <4> QED
          BY <4>1, <4>2
      <3> QED
        BY <3>1, <3>2
    <2> QED
      BY <1>2, <2>1 DEF DataTypes, OutputsOK
  <1>9. DiskOK'
    <2>1. CASE RemoveFile(q)
      <3> DEFINE s  == req[q].snapshot
                 fs == [f \in DOMAIN files[s] \ {req[q].file} |-> files[s][f]]
      <3>1. s \in SnapshotIds
        BY <1>4, <2>1 DEF RemoveFile
      <3>2. files[s] \in FileMap /\ (s \notin dirs => files[s] = Nothing)
        BY <3>1 DEF DataTypes, DiskOK
      <3>3. fs \in FileMap
        <4>1. DOMAIN files[s] \ {req[q].file} \in SUBSET Extractors
          BY <3>2, FileMapType
        <4>2. fs \in [DOMAIN files[s] \ {req[q].file} -> AnyTitle]
          BY <3>2, FileMapType
        <4> QED
          BY <4>1, <4>2, FileMapIntro
      <3>4. s \notin dirs => fs = files[s]
        BY <3>2 DEF Nothing
      <3>5. files' = [files EXCEPT ![s] = fs] /\ UNCHANGED <<dirs, index>>
        BY <2>1 DEF RemoveFile
      <3> HIDE DEF fs, s
      <3> QED
        BY <1>2, <3>1, <3>3, <3>4, <3>5, FilesTypes DEF DataTypes
    <2>2. CASE RequestTruncates(q) \/ RequestFills(q)
      <3>1. req[q].snapshot \in SnapshotIds /\ req[q].title \in AnyTitle /\ req[q].steps \in StepMap
        BY <1>3, <1>4, <2>2 DEF RequestTruncates, RequestFills, Request
      <3>2. UNCHANGED <<dirs, files>>
        BY <2>2 DEF RequestTruncates, RequestFills
      <3> QED
        BY <1>2, <2>2, <3>1, <3>2, IndexTypes DEF RequestTruncates, RequestFills, DataTypes
    <2>3. CASE UNCHANGED disk
      BY <1>2, <2>3 DEF disk, DataTypes, DiskOK
    <2> QED
      BY <2>1, <2>2, <2>3 DEF DeleteFile, OpenRequest, Guard, DropOutputs, RequestReads, CutShort
  <1>10. RestOK'
    <2>1. /\ disturbed' \in {disturbed, disturbed \cup {req[q].snapshot}}
          /\ disturbed' # disturbed => req[q].at # "none"
      BY DEF DeleteFile, OpenRequest, Guard, RemoveFile, DropOutputs, RequestReads, RequestTruncates,
             RequestFills, CutShort
    <2>2. dataFaults' \in 0..MaxDataFaults
      BY DataAssumption DEF DeleteFile, OpenRequest, Guard, RemoveFile, DropOutputs, RequestReads,
             RequestTruncates, RequestFills, CutShort, DataFault, DataTypes, RestOK
    <2> QED
      BY <1>1, <1>2, <1>4, <2>1, <2>2 DEF DataTypes, RestOK
  <1> QED
    BY <1>5, <1>7, <1>8, <1>9, <1>10

\* A statement of the other handlers, and what follows it.
LEMMA SubmitTypes ==
    ASSUME TypeOK, TypeOK', DataTypes, Submit
    PROVE  OutputsOK' /\ DiskOK' /\ JobsOK' /\ RequestsOK' /\ RestOK'
  <1>1. UNCHANGED <<pc, wsnap>>
    BY SubmitSteps, HandlersEffect DEF memory
  <1>2. /\ UNCHANGED <<title, outputs, disk, job, req, removing, dataFaults>>
        /\ disturbed' \subseteq disturbed \cup SnapshotIds
    BY DEF Submit
  <1>3. /\ DOMAIN runs \subseteq DOMAIN runs'
        /\ lastSnapshot' \in {lastSnapshot, lastSnapshot + 1}
        /\ snapshots' \subseteq snapshots \cup {lastSnapshot + 1}
        /\ snapshots' # snapshots => lastSnapshot' = lastSnapshot + 1
    BY DEF Submit, CreateSnapshot, InsertPendingRuns, EnqueueFails, Rerun, InsertRows, tables
  <1>4. lastSnapshot \in Nat
    BY ConstantsAssumption DEF TypeOK, TablesOK
  <1>5. OutputsOK' /\ JobsOK' /\ DiskOK'
    BY <1>1, <1>2, <1>3, <1>4 DEF DataTypes, OutputsOK, JobsOK, DiskOK, disk
  <1>6. RequestsOK'
    BY <1>2, <1>3, <1>4 DEF DataTypes, RequestsOK
  <1>7. RestOK'
    BY <1>2, <1>3, <1>4 DEF DataTypes, RestOK
  <1> QED
    BY <1>5, <1>6, <1>7

LEMMA DeletionTypes ==
    ASSUME TypeOK, DataTypes, NEW s \in SnapshotIds,
           Delete(s) \/ RemoveEntry(s) \/ RemoveSnapshot(s) \/ RemoveFails(s)
    PROVE  OutputsOK' /\ DiskOK' /\ JobsOK' /\ RequestsOK' /\ RestOK'
  <1>1. UNCHANGED <<pc, lastSnapshot, job, req, title, disturbed>>
    BY DEF Delete, DeleteSnapshot, RemoveEntry, RemoveSnapshot, RemoveFails, vars, tables, requests
  <1>2. JobsOK' /\ RequestsOK'
    BY <1>1 DEF DataTypes, JobsOK, RequestsOK
  <1>3. CASE Delete(s)
    <2>1. /\ snapshots' = snapshots \ {s} /\ s \in snapshots /\ removing' = removing \cup {s}
          /\ UNCHANGED <<disk, dataFaults>>
          /\ outputs' = [r \in DOMAIN outputs \ RunsOf(s) |-> outputs[r]]
          /\ runs' = [r \in DOMAIN runs \ RunsOf(s) |-> runs[r]]
      BY <1>3 DEF Delete, DeleteSnapshot
    <2>2. OutputsOK' /\ DiskOK'
      BY <1>1, <2>1 DEF DataTypes, OutputsOK, DiskOK, disk
    <2>3. RestOK'
      BY <1>1, <2>1 DEF DataTypes, RestOK, TypeOK, TablesOK
    <2> QED
      BY <1>2, <2>2, <2>3
  <1>4. CASE RemoveSnapshot(s)
    <2>1. OutputsOK' /\ RestOK'
      BY <1>1, <1>4 DEF RemoveEntry, RemoveSnapshot, vars, tables, DataTypes, OutputsOK, RestOK
    <2>2. NoIndex \in Document /\ Nothing \in FileMap
      BY NothingTypes DEF Document
    <2>3. /\ dirs' = dirs \ {s} /\ files' = [files EXCEPT ![s] = Nothing]
          /\ index' = [index EXCEPT ![s] = NoIndex]
      BY <1>4 DEF RemoveSnapshot
    <2>4. DiskOK'
      BY <1>1, <2>2, <2>3 DEF DataTypes, DiskOK
    <2> QED
      BY <1>2, <2>1, <2>4
  <1>5. CASE RemoveEntry(s)
    <2>1. OutputsOK' /\ RestOK'
      BY <1>1, <1>5 DEF RemoveEntry, vars, tables, requests, DataTypes, OutputsOK, RestOK
    <2>2. ASSUME index' = [index EXCEPT ![s] = NoIndex], UNCHANGED <<dirs, files>>
          PROVE  DiskOK'
      <3>1. NoIndex \in Document
        BY DEF Document
      <3> QED
        BY <1>1, <2>2, <3>1 DEF DataTypes, DiskOK
    <2>3. ASSUME NEW e \in DOMAIN files[s],
                 files' = [files EXCEPT ![s] = [f \in DOMAIN files[s] \ {e} |-> files[s][f]]],
                 UNCHANGED <<dirs, index>>
          PROVE  DiskOK'
      <3> DEFINE fs == [f \in DOMAIN files[s] \ {e} |-> files[s][f]]
      <3>1. files[s] \in FileMap /\ (s \notin dirs => files[s] = Nothing)
        BY DEF DataTypes, DiskOK
      <3>2. fs \in FileMap
        <4>1. DOMAIN files[s] \ {e} \in SUBSET Extractors
          BY <3>1, FileMapType
        <4>2. fs \in [DOMAIN files[s] \ {e} -> AnyTitle]
          BY <3>1, FileMapType
        <4> QED
          BY <4>1, <4>2, FileMapIntro
      <3>3. s \notin dirs => fs = files[s]
        BY <3>1, NothingTypes
      <3> HIDE DEF fs
      <3> QED
        BY <1>1, <2>3, <3>2, <3>3, FilesTypes DEF fs, DataTypes
    <2> QED
      BY <1>2, <1>5, <2>1, <2>2, <2>3 DEF RemoveEntry
  <1>6. CASE RemoveFails(s)
    <2>1. dataFaults' \in 0..MaxDataFaults
      BY <1>6, DataAssumption DEF RemoveFails, DataFault, DataTypes, RestOK
    <2> QED
      BY <1>1, <1>2, <1>6, <2>1 DEF RemoveFails, vars, tables, disk, DataTypes, OutputsOK, DiskOK, RestOK
  <1> QED
    BY <1>3, <1>4, <1>5, <1>6

LEMMA ProcessTypes ==
    ASSUME TypeOK, DataTypes, ProcessStops \/ ProcessStarts
    PROVE  OutputsOK' /\ DiskOK' /\ JobsOK' /\ RequestsOK' /\ RestOK'
  <1>1. UNCHANGED <<tables, title, outputs, disk, dataFaults>>
    BY DEF ProcessStops, ProcessStarts, Crash, Restart, data
  <1>2. OutputsOK' /\ DiskOK'
    BY <1>1 DEF tables, disk, DataTypes, OutputsOK, DiskOK
  <1>3. CASE ProcessStops
    <2>1. JobsOK' /\ RequestsOK'
      BY <1>3, NoTypes DEF ProcessStops, JobsOK, RequestsOK, WritingSteps
    <2>2. RestOK'
      BY <1>1, <1>3 DEF ProcessStops, tables, DataTypes, RestOK
    <2> QED
      BY <1>2, <2>1, <2>2
  <1>4. CASE ProcessStarts
    <2>1. UNCHANGED <<job, req, removing, disturbed>> /\ ~Up
      BY <1>4 DEF ProcessStarts, Restart, data, requests
    <2>2. \A w \in Workers : job[w].at \notin WritingSteps \cup {"mkdir"}
      BY <2>1 DEF Up, DataTypes, DownOK, JobsOK
    <2>3. JobsOK' /\ RequestsOK' /\ RestOK'
      BY <1>1, <2>1, <2>2 DEF tables, DataTypes, JobsOK, RequestsOK, RestOK, WritingSteps
    <2> QED
      BY <1>2, <2>3
  <1> QED
    BY <1>3, <1>4

LEMMA TypesInit == DInit => DataTypes
  <1> SUFFICES ASSUME DInit PROVE DataTypes
    OBVIOUS
  <1> USE NothingTypes, NoTypes, ConstantsAssumption, DataAssumption DEF DInit, Init
  <1>1. OutputsOK
    BY DEF OutputsOK
  <1>2. DiskOK
    BY DEF DiskOK, Document
  <1>3. JobsOK
    BY DEF JobsOK, WritingSteps
  <1>4. RequestsOK
    BY DEF RequestsOK
  <1>5. RestOK
    BY DEF RestOK, AnyTitle
  <1>6. ClaimedOK /\ DownOK
    BY DEF ClaimedOK, DownOK
  <1> QED
    BY <1>1, <1>2, <1>3, <1>4, <1>5, <1>6 DEF DataTypes

LEMMA TypesStep ==
    ASSUME TypeOK, DataTypes, [DNext]_dvars
    PROVE  TypeOK' /\ DataTypes'
  <1>1. [Next]_vars
    BY StepIsQueueStep
  <1>2. TypeOK' /\ ClaimedOK' /\ DownOK'
    BY <1>1, NextTypeOK, ClaimedStep DEF DataTypes
  <1> SUFFICES OutputsOK' /\ DiskOK' /\ JobsOK' /\ RequestsOK' /\ RestOK'
    BY <1>2 DEF DataTypes
  <1>3. CASE \E w \in Workers :
               DWork(w) \/ TitleFails(w) \/ IndexFails(w) \/ WriteFails(w)
    <2>1. PICK w \in Workers : DWork(w) \/ TitleFails(w) \/ IndexFails(w) \/ WriteFails(w)
      BY <1>3
    <2>2. \/ Mkdir(w) \/ Record(w) \/ FindTitle(w) \/ TitleSaved(w) \/ TitleFails(w)
          \/ ReadOutputs(w) \/ Truncate(w) \/ Fill(w) \/ IndexFails(w) \/ WriteFails(w)
          \/ Load(w) \/ List(w) \/ Bookkeeping(w) \/ Leave(w) \/ Extracted(w) \/ Finish(w)
      BY <2>1 DEF DWork
    <2> QED
      BY <2>2, InnerTypes, OuterTypes
  <1>4. CASE \E q \in Requests : DeleteFile(q) \/ CutShort(q)
    BY <1>4, RequestTypes
  <1>5. CASE \E s \in SnapshotIds : Delete(s) \/ RemoveEntry(s) \/ RemoveSnapshot(s) \/ RemoveFails(s)
    BY <1>5, DeletionTypes
  <1>6. CASE Submit
    BY <1>2, <1>6, SubmitTypes
  <1>7. CASE ProcessStops \/ ProcessStarts
    BY <1>7, ProcessTypes
  <1>8. CASE UNCHANGED dvars
    BY <1>8 DEF dvars, vars, tables, memory, data, disk, requests, DataTypes, OutputsOK, DiskOK,
                JobsOK, RequestsOK, RestOK
  <1> QED
    BY <1>3, <1>4, <1>5, <1>6, <1>7, <1>8 DEF DNext, DFault

\* Under every fault and with any number of workers and requests, an output
\* belongs to a run that exists, and only directories that exist hold files.
THEOREM DataCorrect == DSpec => []DataOK
  <1>1. DInit => TypeOK /\ DataTypes
    BY InitTypeOK, TypesInit DEF DInit
  <1>2. TypeOK /\ DataTypes => DataOK
    <2> SUFFICES ASSUME TypeOK, DataTypes PROVE DataOK
      OBVIOUS
    <2>1. ASSUME NEW s \in SnapshotIds PROVE DOMAIN files[s] \subseteq Extractors
      BY FileMapType DEF DataTypes, DiskOK
    <2> QED
      BY <2>1 DEF DataTypes, DataOK, OutputsOK, DiskOK, RestOK, AnyTitle
  <1>3. TypeOK /\ DataTypes /\ [DNext]_dvars => (TypeOK /\ DataTypes)'
    BY TypesStep
  <1> QED
    BY <1>1, <1>2, <1>3, PTL DEF DSpec

----------------------------------------------------------------------------
(* The worker has its snapshot's runs in hand for as long as the snapshot  *)
(* is there, since runs go with the snapshot only.                         *)

Holds ==
    \A w \in Workers : wsnap[w] \in snapshots =>
      /\ pc[w] \in {"claimed", "listing"} => Locked(wsnap[w])
      /\ Working(w) => todo[w] \subseteq RunsOf(wsnap[w])
      /\ Executing(w) => cur[w] \in RunsOf(wsnap[w])

\* A snapshot that stays keeps its runs as they are; what handlers add is pending.
LEMMA HandlersAt ==
    ASSUME TypeOK, Handlers
    PROVE  /\ lastSnapshot \in Nat
           /\ \A s \in snapshots' : s \notin snapshots => s = lastSnapshot + 1
           /\ \A s \in snapshots \cap snapshots' : \A r \in RunsOf(s) :
                r \in RunsOf(s)' /\ runs'[r] = runs[r]
           /\ \A s : \A r \in RunsOf(s)' :
                \/ r \in RunsOf(s) /\ runs'[r] = runs[r]
                \/ r \notin DOMAIN runs /\ Pending(r)'
  <1>1. lastSnapshot \in Nat
    BY ConstantsAssumption DEF TypeOK, TablesOK
  <1>2. \A s \in snapshots' : s \notin snapshots => s = lastSnapshot + 1
    <2>1. CASE CreateSnapshot
      BY <2>1 DEF CreateSnapshot
    <2>2. CASE ~CreateSnapshot
      BY <2>2 DEF Handlers, InsertPendingRuns, EnqueueFails, DeleteSnapshot, Rerun, tables
    <2> QED
      BY <2>1, <2>2
  <1>3. \A s : \A r \in RunsOf(s)' :
                \/ r \in RunsOf(s) /\ runs'[r] = runs[r]
                \/ r \notin DOMAIN runs /\ Pending(r)'
    BY HandlersEffect DEF Grows, RunsOf, Pending
  <1>4. ASSUME NEW s \in snapshots \cap snapshots', NEW r \in RunsOf(s)
        PROVE  r \in DOMAIN runs'
    <2>1. CASE \E t \in SnapshotIds : DeleteSnapshot(t)
      <3>1. PICK t \in SnapshotIds : DeleteSnapshot(t)
        BY <2>1
      <3>2. s # t
        BY <1>4, <3>1 DEF DeleteSnapshot
      <3> QED
        BY <3>1, <3>2 DEF DeleteSnapshot, RunsOf
    <2>2. CASE ~\E t \in SnapshotIds : DeleteSnapshot(t)
      <3>1. DOMAIN runs \subseteq DOMAIN runs'
        BY <2>2 DEF Handlers, CreateSnapshot, InsertPendingRuns, EnqueueFails, Rerun, InsertRows, tables
      <3> QED
        BY <3>1 DEF RunsOf
    <2> QED
      BY <2>1, <2>2
  <1>5. \A s \in snapshots \cap snapshots' : \A r \in RunsOf(s) :
                r \in RunsOf(s)' /\ runs'[r] = runs[r]
    BY <1>4, HandlersEffect DEF Grows, RunsOf
  <1> QED
    BY <1>1, <1>2, <1>3, <1>5

LEMMA HoldsStep ==
    ASSUME OneWorker, TypeOK, ClaimedOK, Holds, [Next]_vars
    PROVE  Holds'
  <1>1. CASE Handlers
    <2>1. UNCHANGED <<pc, wsnap, todo, cur>>
      BY <1>1, HandlersEffect DEF memory
    <2> SUFFICES ASSUME NEW w \in Workers, wsnap[w] \in snapshots', pc[w] \notin {"idle", "down"}
                 PROVE  /\ pc[w] \in {"claimed", "listing"} => Locked(wsnap[w])'
                        /\ Working(w) => todo[w] \subseteq RunsOf(wsnap[w])'
                        /\ Executing(w) => cur[w] \in RunsOf(wsnap[w])'
      BY <2>1 DEF Holds, Working, Executing, Locked, RunsOf
    <2>2. wsnap[w] \in snapshots
      BY <1>1, HandlersAt DEF ClaimedOK
    <2>3. \A r \in RunsOf(wsnap[w]) : r \in RunsOf(wsnap[w])' /\ runs'[r] = runs[r]
      BY <1>1, <2>1, <2>2, HandlersAt DEF RunsOf
    <2> QED
      BY <2>1, <2>2, <2>3 DEF Holds, Locked, Running, RunsOf
  <1>2. ASSUME NEW w \in Workers, Work(w) \/ WorkerFault(w)
        PROVE  Holds'
    <2>1. /\ UNCHANGED snapshots
          /\ \A s : RunsOf(s)' = RunsOf(s)
      BY <1>2, OneMoves DEF RunsOf
    <2> SUFFICES ASSUME wsnap'[w] \in snapshots
                 PROVE  /\ pc'[w] \in {"claimed", "listing"} => Locked(wsnap[w])'
                        /\ Working(w)' => todo'[w] \subseteq RunsOf(wsnap'[w])
                        /\ Executing(w)' => cur'[w] \in RunsOf(wsnap'[w])
      BY <2>1 DEF OneWorker, Holds
    <2> USE DEF TypeOK, MemoryOK, Goto, Working, Executing
    <2>2. CASE ClaimNextSnapshot(w)
      <3>1. PICK r \in DOMAIN runs :
              SetStatus(r, "running") /\ wsnap' = [wsnap EXCEPT ![w] = runs[r].snapshot]
        BY <2>2 DEF ClaimNextSnapshot
      <3>2. r \in DOMAIN runs' /\ runs'[r].snapshot = runs[r].snapshot /\ Running(r)'
        BY <3>1, SetStatusPredicates, ConstantsAssumption DEF Status
      <3>3. wsnap'[w] = runs[r].snapshot
        BY <3>1
      <3>4. r \in RunsOf(wsnap[w])'
        BY <3>2, <3>3 DEF RunsOf
      <3>5. Locked(wsnap[w])'
        BY <3>2, <3>4 DEF Locked
      <3> QED
        BY <2>2, <3>5 DEF ClaimNextSnapshot
    <2>3. CASE RunHeld(w) \/ StartRun(w)
      <3>1. PICK r \in todo[w] : Take(w, r) /\ Execute(w, r)
        BY <2>3 DEF RunHeld, StartRun
      <3>2. UNCHANGED wsnap
        BY <2>3 DEF RunHeld, StartRun
      <3> QED
        BY <2>1, <3>1, <3>2 DEF Take, Execute, Holds
    <2>4. CASE SkipRun(w) \/ StartFails(w)
      <3>1. PICK r \in todo[w] : Take(w, r)
        BY <2>4 DEF SkipRun, StartFails
      <3>2. UNCHANGED <<pc, wsnap, cur>>
        BY <2>4 DEF SkipRun, StartFails
      <3> QED
        BY <2>1, <3>1, <3>2 DEF Take, Holds
    <2>5. CASE LoadSnapshot(w)
      BY <2>1, <2>5 DEF LoadSnapshot, Holds, tables, memory, Locked, Running
    <2>6. CASE ListRuns(w)
      BY <2>1, <2>6 DEF ListRuns
    <2>7. CASE Extract(w) \/ ExtractorHangs(w)
      BY <2>1, <2>7 DEF Extract, ExtractorHangs, Holds, memory
    <2>8. CASE FinishRun(w) \/ FinishFails(w)
      BY <2>1, <2>8 DEF FinishRun, FinishFails, Holds
    <2>9. CASE SnapshotGone(w) \/ LoadFails(w) \/ LoopDone(w)
      BY <2>9 DEF SnapshotGone, LoadFails, LoopDone
    <2> QED
      BY <1>2, <2>2, <2>3, <2>4, <2>5, <2>6, <2>7, <2>8, <2>9 DEF Work, WorkerFault
  <1>3. CASE Crash \/ Restart
    BY <1>3 DEF Crash, Restart, Holds, Working, Executing
  <1>4. CASE UNCHANGED vars
    BY <1>4 DEF vars, tables, memory, Holds, Working, Executing, Locked, Running, RunsOf
  <1> QED
    BY <1>1, <1>2, <1>3, <1>4 DEF Next

----------------------------------------------------------------------------
(* index.json and the tables.  The properties speak of a snapshot on which *)
(* nobody works; the invariant says, of each place where somebody may be,  *)
(* what is then still true and what he knows.                              *)

Finished(s) == {r \in RunsOf(s) : ~NonTerminal(r)}

\* A directory is made before the first run and stays with the snapshot.
DirKept(s) ==
    /\ Finished(s) # {} => s \in dirs
    /\ \A w \in Workers :
         /\ wsnap[w] = s
         /\ Working(w) \/ (pc[w] = "listing" /\ job[w].at # "mkdir")
         => s \in dirs

\* The worker knows an extractor's name, and the title unless saving it failed.
Known(w, r) ==
    r \in DOMAIN job[w].names /\ job[w].names[r] = runs[r].extractor

Loaded(s) ==
    \A w \in Workers : wsnap[w] = s =>
      /\ pc[w] \notin {"idle", "claimed", "down"} /\ s \notin disturbed =>
           job[w].title = title[s]
      /\ Working(w) => \A r \in todo[w] : Known(w, r)
      /\ Executing(w) => Known(w, cur[w])

\* A delete-file request past its guard has the snapshot for itself.
Exclusive(s) ==
    Deleting(s) # {} =>
      /\ \A r \in RunsOf(s) : ~NonTerminal(r)
      /\ \A p, q \in Deleting(s) : p = q
      /\ \A q \in Deleting(s) : req[q].title = title[s]

RequestKnows(s) ==
    \A q \in Deleting(s) :
      /\ req[q].at \in {"truncate", "fill"} => req[q].steps = Projection(s)
      /\ req[q].at = "fill" /\ s \in dirs => index[s] = Torn

WorkerKnows(s) ==
    \A w \in Workers : wsnap[w] = s =>
      /\ job[w].at \in {"truncate", "fill"} => job[w].steps = Projection(s)
      /\ job[w].at = "fill" => index[s] = Torn
      /\ job[w].at = "done" => InSync(s)
      /\ job[w].at = "record" /\ job[w].result = "succeeded" =>
           job[w].names[cur[w]] \in DOMAIN files[s]

\* Nobody writes the index.
Settled(s) ==
    Finished(s) # {} /\ ~Locked(s) /\ Deleting(s) = {} => InSync(s)

TornHeld(s) == index[s] = Torn => Locked(s) \/ Deleting(s) # {}

Indexed(s) ==
    Deleting(s) = {} => \A r \in Recorded(s) \cap Finished(s) :
      \/ index[s] = Torn
      \/ index[s] # NoIndex /\ runs[r].extractor \in DOMAIN index[s].latest

\* An output that succeeded has its file, or is about to be deleted with it.
Saved(s) ==
    \A r \in Recorded(s) : outputs[r] = "succeeded" =>
      \/ runs[r].extractor \in DOMAIN files[s]
      \/ \E q \in Deleting(s) : req[q].at = "outputs" /\ req[q].file = runs[r].extractor

Followed(s) ==
    /\ Exclusive(s) /\ RequestKnows(s) /\ WorkerKnows(s)
    /\ Settled(s) /\ TornHeld(s) /\ Indexed(s) /\ Saved(s)

SyncAt(s) == DirKept(s) /\ Loaded(s) /\ (s \notin disturbed => Followed(s))

Base == HeldInv /\ Holds /\ DataTypes
Sync == \A s \in snapshots : SyncAt(s)

----------------------------------------------------------------------------
(* What does not concern a snapshot leaves it in sync.                     *)

RecordedSame(s) ==
    /\ Recorded(s)' = Recorded(s)
    /\ \A r \in Recorded(s) : /\ outputs'[r] = outputs[r]
                              /\ runs'[r].extractor = runs[r].extractor

RowsSame(s) ==
    /\ RunsOf(s)' = RunsOf(s)
    /\ \A r \in RunsOf(s) : runs'[r] = runs[r]
    /\ RecordedSame(s)

DiskSame(s) ==
    /\ s \in dirs' <=> s \in dirs
    /\ files'[s] = files[s] /\ index'[s] = index[s] /\ title'[s] = title[s]

RequestsSame(s) ==
    /\ Deleting(s)' = Deleting(s)
    /\ \A q \in Deleting(s) : req'[q] = req[q]
    /\ s \in disturbed => s \in disturbed'

WorkersSame(s) ==
    \A w \in Workers : wsnap'[w] = s =>
      /\ wsnap[w] = s /\ pc'[w] = pc[w] /\ todo'[w] \subseteq todo[w]
      /\ cur'[w] = cur[w] /\ job'[w] = job[w]

LEMMA ProjectionSame ==
    ASSUME TypeOK, OutputsOK, NEW s, RecordedSame(s)
    PROVE  Projection(s)' = Projection(s)
  <1>1. Projection(s)' = [e \in {runs'[r].extractor : r \in Recorded(s)'} |->
                            outputs'[Last(By(s, e)')]]
    BY DEF Projection, Recorded, By, Last
  <1>2. {runs'[r].extractor : r \in Recorded(s)'} = {runs[r].extractor : r \in Recorded(s)}
    BY DEF RecordedSame
  <1>3. \A e : By(s, e)' = By(s, e)
    BY DEF By, RecordedSame
  <1>4. ASSUME NEW e \in DOMAIN Projection(s)
        PROVE  outputs'[Last(By(s, e)')] = outputs[Last(By(s, e))]
    <2>1. Last(By(s, e)) \in Recorded(s)
      BY ProjectionValue DEF By
    <2> QED
      BY <1>3, <2>1 DEF RecordedSame
  <1>5. DOMAIN Projection(s) = {runs[r].extractor : r \in Recorded(s)}
    BY ProjectionIs
  <1> QED
    BY <1>1, <1>2, <1>4, <1>5, ProjectionIs

LEMMA RowsSamePredicates ==
    ASSUME NEW s, RowsSame(s)
    PROVE  /\ \A r \in RunsOf(s) : NonTerminal(r)' <=> NonTerminal(r)
           /\ Finished(s)' = Finished(s)
           /\ Locked(s)' <=> Locked(s)
  <1> USE DEF RunsOf, NonTerminal, Pending, Running
  <1>1. \A r \in RunsOf(s) : NonTerminal(r)' <=> NonTerminal(r)
    BY DEF RowsSame
  <1>2. Finished(s)' = Finished(s)
    BY DEF RowsSame, Finished
  <1>3. Locked(s)' <=> Locked(s)
    BY DEF RowsSame, Locked
  <1> QED
    BY <1>1, <1>2, <1>3

LEMMA Elsewhere ==
    ASSUME HeldInv, Holds, DataTypes, NEW s \in snapshots, SyncAt(s),
           RowsSame(s), DiskSame(s), RequestsSame(s), WorkersSame(s)
    PROVE  SyncAt(s)'
  <1>1. Projection(s)' = Projection(s)
    BY ProjectionSame DEF RowsSame, HeldInv, DataTypes
  <1>2. /\ \A r \in RunsOf(s) : NonTerminal(r)' <=> NonTerminal(r)
        /\ Finished(s)' = Finished(s)
        /\ Locked(s)' <=> Locked(s)
    BY RowsSamePredicates
  <1>3. DirKept(s)'
    BY <1>2 DEF SyncAt, DirKept, DiskSame, WorkersSame, Working
  <1>4. Loaded(s)'
    <2> SUFFICES ASSUME NEW w \in Workers, wsnap'[w] = s
                 PROVE  /\ pc'[w] \notin {"idle", "claimed", "down"} /\ s \notin disturbed' =>
                             job'[w].title = title'[s]
                        /\ Working(w)' => \A r \in todo'[w] : Known(w, r)'
                        /\ Executing(w)' => Known(w, cur[w])'
      BY DEF Loaded
    <2>1. /\ wsnap[w] = s /\ pc'[w] = pc[w] /\ todo'[w] \subseteq todo[w]
          /\ cur'[w] = cur[w] /\ job'[w] = job[w]
      BY DEF WorkersSame
    <2>2. \A r \in RunsOf(s) : Known(w, r) => Known(w, r)'
      BY <2>1 DEF Known, RowsSame
    <2> QED
      BY <2>1, <2>2 DEF SyncAt, Loaded, DiskSame, RequestsSame, Working, Executing, Holds, Known
  <1>5. ASSUME Followed(s) PROVE Followed(s)'
    <2> USE <1>1, <1>2, <1>5 DEF Followed, DiskSame, RequestsSame
    <2>1. Exclusive(s)'
      BY DEF Exclusive, RowsSame
    <2>2. RequestKnows(s)'
      BY DEF RequestKnows
    <2>3. WorkerKnows(s)'
      BY DEF WorkerKnows, WorkersSame, InSync
    <2>4. Settled(s)' /\ TornHeld(s)'
      BY DEF Settled, TornHeld, InSync
    <2>5. Indexed(s)'
      BY DEF Indexed, RowsSame, RecordedSame
    <2>6. Saved(s)'
      BY DEF Saved, RowsSame, RecordedSame
    <2> QED
      BY <2>1, <2>2, <2>3, <2>4, <2>5, <2>6
  <1> QED
    BY <1>3, <1>4, <1>5 DEF SyncAt, RequestsSame

LEMMA SnapshotsNumbered ==
    ASSUME TypeOK
    PROVE  \A s \in snapshots : s \in SnapshotIds /\ s # None
  BY ConstantsAssumption DEF TypeOK, TablesOK, SnapshotIds, None

\* A snapshot's deletion, to its end.
LEMMA DeletionSync ==
    ASSUME HeldInv, Holds, DataTypes, Sync, NEW d \in SnapshotIds,
           Delete(d) \/ RemoveEntry(d) \/ RemoveSnapshot(d) \/ RemoveFails(d)
    PROVE  Sync'
  <1>1. /\ UNCHANGED <<title, req, job, disturbed, wsnap, pc, todo, cur>>
        /\ snapshots' \subseteq snapshots
    BY DEF Delete, DeleteSnapshot, RemoveEntry, RemoveSnapshot, RemoveFails, vars, tables, memory,
           requests
  <1> SUFFICES ASSUME NEW s \in snapshots, s \in snapshots' PROVE SyncAt(s)'
    BY <1>1 DEF Sync
  <1>2. RequestsSame(s) /\ WorkersSame(s)
    BY <1>1 DEF RequestsSame, WorkersSame, Deleting
  <1>3. CASE Delete(d)
    <2>1. s # d
      BY <1>3 DEF Delete, DeleteSnapshot
    <2>2. /\ runs' = [r \in DOMAIN runs \ RunsOf(d) |-> runs[r]]
          /\ outputs' = [r \in DOMAIN outputs \ RunsOf(d) |-> outputs[r]]
          /\ UNCHANGED disk
      BY <1>3 DEF Delete, DeleteSnapshot
    <2>3. DiskSame(s)
      BY <1>1, <2>2 DEF DiskSame, disk
    <2>4. RowsSame(s)
      BY <2>1, <2>2 DEF RowsSame, RecordedSame, Recorded, RunsOf
    <2> QED
      BY <1>2, <2>3, <2>4, Elsewhere DEF Sync
  <1>4. CASE RemoveEntry(d) \/ RemoveSnapshot(d) \/ RemoveFails(d)
    <2>1. UNCHANGED <<runs, outputs>>
      BY <1>4 DEF RemoveEntry, RemoveSnapshot, RemoveFails, vars, tables
    <2>2. RowsSame(s)
      BY <2>1 DEF RowsSame, RecordedSame, Recorded, RunsOf
    <2>3. d \in removing => s # d
      BY DEF DataTypes, RestOK
    <2>4. DiskSame(s)
      <3>1. s \in SnapshotIds
        BY SnapshotsNumbered DEF HeldInv
      <3>2. \/ UNCHANGED disk
            \/ /\ s # d
               /\ dirs' \in {dirs, dirs \ {d}}
               /\ files' = files \/ \E fs : files' = [files EXCEPT ![d] = fs]
               /\ index' = index \/ index' = [index EXCEPT ![d] = NoIndex]
        BY <1>4, <2>3 DEF RemoveEntry, RemoveSnapshot, RemoveFails
      <3> QED
        BY <1>1, <3>1, <3>2 DEF DiskSame, disk, DataTypes, DiskOK
    <2> QED
      BY <1>2, <2>2, <2>4, Elsewhere DEF Sync
  <1> QED
    BY <1>3, <1>4

\* A crash interrupts requests, and they count as disturbed; of a worker it
\* leaves its lock.
LEMMA ProcessSync ==
    ASSUME HeldInv, Holds, DataTypes, DataTypes', Sync, ProcessStops \/ ProcessStarts
    PROVE  Sync'
  <1>1. /\ UNCHANGED <<snapshots, runs, outputs, title, dirs, files, index>>
        /\ \A w \in Workers : pc'[w] \in {"idle", "down"}
    BY DEF ProcessStops, ProcessStarts, Crash, Restart, data, disk, tables
  <1> SUFFICES ASSUME NEW s \in snapshots PROVE SyncAt(s)'
    BY <1>1 DEF Sync
  <1>2. RowsSame(s) /\ DiskSame(s)
    BY <1>1 DEF RowsSame, RecordedSame, Recorded, RunsOf, DiskSame
  <1>3. /\ Projection(s)' = Projection(s)
        /\ Finished(s)' = Finished(s)
        /\ Locked(s)' <=> Locked(s)
    BY <1>2, ProjectionSame, RowsSamePredicates DEF RowsSame, HeldInv, DataTypes
  <1>4. DirKept(s)' /\ Loaded(s)'
    BY <1>1, <1>3 DEF Sync, SyncAt, DirKept, Loaded, Working, Executing
  <1>5. ASSUME s \notin disturbed' PROVE Followed(s)'
    <2>1. s \notin disturbed /\ RequestsSame(s)
      <3>1. s \in SnapshotIds /\ s # None
        BY SnapshotsNumbered DEF HeldInv
      <3>2. CASE ProcessStops
        <4>1. s \notin disturbed /\ Deleting(s) = {}
          BY <1>5, <3>1, <3>2 DEF ProcessStops
        <4>2. Deleting(s)' = {}
          BY <3>1, <3>2, NoTypes DEF ProcessStops, Deleting
        <4> QED
          BY <4>1, <4>2 DEF RequestsSame
      <3>3. CASE ProcessStarts
        BY <1>5, <3>3 DEF ProcessStarts, data, requests, RequestsSame, Deleting
      <3> QED
        BY <3>2, <3>3
    <2>2. Followed(s)
      BY <2>1 DEF Sync, SyncAt
    <2> USE <1>2, <1>3, <2>1, <2>2 DEF Followed, DiskSame, RequestsSame
    <2>3. Exclusive(s)' /\ RequestKnows(s)'
      BY RowsSamePredicates DEF Exclusive, RequestKnows, RowsSame
    <2>4. WorkerKnows(s)'
      BY <1>1 DEF WorkerKnows, DataTypes, JobsOK, WritingSteps
    <2>5. Settled(s)' /\ TornHeld(s)'
      BY DEF Settled, TornHeld, InSync
    <2>6. Indexed(s)' /\ Saved(s)'
      BY DEF Indexed, Saved, RowsSame, RecordedSame
    <2> QED
      BY <2>3, <2>4, <2>5, <2>6
  <1> QED
    BY <1>4, <1>5 DEF SyncAt

\* New runs change nothing that is on disk; a delete-file request under way is
\* disturbed by them.
LEMMA SubmitSync ==
    ASSUME HeldInv, Holds, DataTypes, DataTypes', Sync, Submit
    PROVE  Sync'
  <1>1. /\ UNCHANGED <<title, outputs, dirs, files, index, job, req>>
        /\ disturbed' = disturbed \cup
              {s \in SnapshotIds : Deleting(s) # {} /\ RunsOf(s)' # RunsOf(s)}
    BY DEF Submit, disk
  <1>2. Handlers /\ UNCHANGED <<pc, wsnap, todo, cur>>
    BY SubmitSteps, HandlersEffect DEF memory, HeldInv
  <1>3. ASSUME NEW s \in snapshots', s \notin snapshots PROVE SyncAt(s)'
    <2>1. s = lastSnapshot + 1 /\ lastSnapshot \in Nat
      BY <1>2, <1>3, HandlersAt DEF HeldInv
    <2>2. s \in SnapshotIds
      BY <1>3, SubmitSteps, HandlersEffect, ConstantsAssumption DEF HeldInv, TypeOK, TablesOK, SnapshotIds
    <2>3. s \notin dirs /\ index[s] = NoIndex
      BY <2>1, <2>2 DEF DataTypes, DiskOK
    <2>4. Deleting(s) = {}
      BY <2>1 DEF Deleting, DataTypes, RequestsOK, None
    <2>5. RunsOf(s) = {} /\ Recorded(s)' = {}
      BY <1>1, <1>2, <1>3, HandlersAt DEF RunsOf, HeldInv, TypeOK, Recorded, DataTypes, OutputsOK
    <2>6. Finished(s)' = {}
      BY <1>2, <2>5, HandlersAt DEF Finished, RunsOf, NonTerminal, HeldInv
    <2>7. \A w \in Workers : pc[w] \notin {"idle", "down"} => wsnap[w] # s
      BY <2>1 DEF DataTypes, ClaimedOK
    <2>8. \A w \in Workers : job[w].at \in WritingSteps => wsnap[w] # s
      BY <2>7 DEF DataTypes, JobsOK
    <2>9. Deleting(s)' = {} /\ index'[s] # Torn
      BY <1>1, <2>3, <2>4 DEF Deleting, NoIndex, Torn
    <2>10. DirKept(s)' /\ Loaded(s)'
      BY <1>2, <2>6, <2>7 DEF DirKept, Loaded, Working, Executing
    <2>11. Followed(s)'
      BY <1>1, <1>2, <2>5, <2>6, <2>8, <2>9 DEF Followed, Exclusive, RequestKnows, WorkerKnows,
         WritingSteps, Settled, TornHeld, Indexed, Saved
    <2> QED
      BY <2>10, <2>11 DEF SyncAt
  <1>4. ASSUME NEW s \in snapshots, s \in snapshots' PROVE SyncAt(s)'
    <2>1. SyncAt(s)
      BY DEF Sync
    <2>2. \A r \in RunsOf(s) : r \in RunsOf(s)' /\ runs'[r] = runs[r]
      BY <1>2, <1>4, HandlersAt DEF HeldInv
    <2>3. \A r \in RunsOf(s)' :
                \/ r \in RunsOf(s) /\ runs'[r] = runs[r]
                \/ r \notin DOMAIN runs /\ Pending(r)'
      BY <1>2, HandlersAt DEF HeldInv
    <2>4. RecordedSame(s)
      BY <1>1, <2>2, <2>3 DEF RecordedSame, Recorded, DataTypes, OutputsOK
    <2>5. DiskSame(s) /\ RequestsSame(s) /\ WorkersSame(s)
      BY <1>1, <1>2 DEF DiskSame, RequestsSame, Deleting, WorkersSame
    <2>6. CASE RunsOf(s)' = RunsOf(s)
      <3>1. RowsSame(s)
        BY <2>2, <2>4, <2>6 DEF RowsSame
      <3> QED
        BY <2>1, <2>5, <3>1, Elsewhere
    <2>7. CASE RunsOf(s)' # RunsOf(s)
      <3>1. Projection(s)' = Projection(s)
        BY <2>4, ProjectionSame DEF HeldInv, DataTypes
      <3>2. Finished(s)' = Finished(s)
        BY <2>2, <2>3 DEF Finished, RunsOf, NonTerminal, Pending, Running
      <3>3. Locked(s)' <=> Locked(s)
        BY <2>2, <2>3 DEF Locked, RunsOf, Pending, Running
      <3>4. DirKept(s)'
        BY <1>1, <1>2, <2>1, <3>2 DEF SyncAt, DirKept, Working
      <3>5. Loaded(s)'
        <4>1. \A w \in Workers : \A r \in RunsOf(s) : Known(w, r) => Known(w, r)'
          BY <1>1, <2>2 DEF Known
        <4> QED
          BY <1>1, <1>2, <2>1, <4>1 DEF SyncAt, Loaded, Working, Executing, Holds, Known
      <3>6. ASSUME s \notin disturbed' PROVE Followed(s)'
        <4>1. Deleting(s) = {} /\ Deleting(s)' = {} /\ Followed(s)
          BY <1>1, <2>1, <2>5, <2>7, <3>6, ConstantsAssumption
          DEF SyncAt, RequestsSame, HeldInv, TypeOK, TablesOK, SnapshotIds
        <4> USE <1>1, <1>2, <3>1, <3>2, <3>3, <4>1 DEF Followed
        <4>2. Exclusive(s)' /\ RequestKnows(s)'
          BY DEF Exclusive, RequestKnows
        <4>3. WorkerKnows(s)'
          BY DEF WorkerKnows, InSync
        <4>4. Settled(s)' /\ TornHeld(s)'
          BY DEF Settled, TornHeld, InSync
        <4>5. Indexed(s)' /\ Saved(s)'
          BY <2>4 DEF Indexed, Saved, RecordedSame
        <4> QED
          BY <4>2, <4>3, <4>4, <4>5
      <3> QED
        BY <3>4, <3>5, <3>6 DEF SyncAt
    <2> QED
      BY <2>6, <2>7
  <1> QED
    BY <1>3, <1>4 DEF Sync

----------------------------------------------------------------------------
(* Delete-file requests.                                                   *)

\* A worker that has claimed a snapshot, or executes one of its runs, has
\* locked it.
LEMMA Locking ==
    ASSUME HeldInv, Holds, NEW w \in Workers, wsnap[w] \in snapshots,
           pc[w] \in {"claimed", "listing"} \/ Executing(w)
    PROVE  Locked(wsnap[w])
  <1>1. CASE Executing(w)
    <2>1. cur[w] \in RunsOf(wsnap[w])
      BY <1>1 DEF Holds
    <2>2. Running(cur[w])
      BY <1>1, <2>1 DEF HeldInv, LockHeldWhileIndexing, Executing, RunsOf
    <2> QED
      BY <2>1, <2>2 DEF Locked
  <1>2. CASE pc[w] \in {"claimed", "listing"}
    BY <1>2 DEF Holds
  <1> QED
    BY <1>1, <1>2

LEMMA LockExcludes ==
    ASSUME NEW s, Exclusive(s), Locked(s)
    PROVE  Deleting(s) = {}
  BY DEF Exclusive, Locked, NonTerminal

LEMMA NobodyWrites ==
    ASSUME HeldInv, Holds, DataTypes, NEW s \in snapshots, Exclusive(s), Deleting(s) # {}
    PROVE  \A w \in Workers : wsnap[w] = s => job[w].at \notin WritingSteps
  <1> SUFFICES ASSUME NEW w \in Workers, wsnap[w] = s, job[w].at \in WritingSteps
               PROVE  FALSE
    OBVIOUS
  <1>1. Executing(w)
    BY DEF DataTypes, JobsOK, Executing
  <1> QED
    BY <1>1, Locking, LockExcludes

LEMMA RequestSync ==
    ASSUME HeldInv, Holds, DataTypes, DataTypes', Sync, NEW q \in Requests,
           DeleteFile(q) \/ CutShort(q)
    PROVE  Sync'
  <1>1. /\ UNCHANGED <<snapshots, runs, pc, wsnap, todo, cur, title, job, dirs>>
        /\ disturbed \subseteq disturbed'
    BY RequestSteps DEF DeleteFile, OpenRequest, Guard, RemoveFile, DropOutputs, RequestReads,
          RequestTruncates, RequestFills, CutShort, disk, vars, tables, memory
  <1>2. req \in [Requests -> Request]
    BY DEF DataTypes, RequestsOK
  <1> SUFFICES ASSUME NEW s \in snapshots PROVE SyncAt(s)'
    BY <1>1 DEF Sync
  <1>3. s \in SnapshotIds /\ s # None /\ SyncAt(s)
    BY SnapshotsNumbered DEF HeldInv, Sync
  <1>4. WorkersSame(s) /\ RunsOf(s)' = RunsOf(s) /\ Finished(s)' = Finished(s)
    BY <1>1 DEF WorkersSame, RunsOf, Finished, NonTerminal, Pending, Running
  <1>5. Locked(s)' <=> Locked(s)
    BY <1>1 DEF Locked, RunsOf, Running
  <1>6. DirKept(s)' /\ Loaded(s)'
    BY <1>1, <1>3, <1>4 DEF SyncAt, DirKept, Loaded, Known, Working, Executing
  <1>7. CASE \E t \in SnapshotIds, e \in Extractors : OpenRequest(q, t, e)
    <2>1. /\ req[q].at = "none" /\ UNCHANGED <<outputs, disk, disturbed>>
          /\ \E new : new.at = "guard" /\ req' = [req EXCEPT ![q] = new]
      BY <1>7 DEF OpenRequest
    <2>2. RequestsSame(s)
      BY <1>2, <1>3, <2>1 DEF RequestsSame, Deleting, DataTypes, RequestsOK
    <2>3. RowsSame(s) /\ DiskSame(s)
      BY <1>1, <1>4, <2>1 DEF RowsSame, RecordedSame, Recorded, DiskSame, disk
    <2> QED
      BY <1>3, <1>4, <2>2, <2>3, Elsewhere
  <1>8. CASE s # req[q].snapshot /\ ~\E t \in SnapshotIds, e \in Extractors : OpenRequest(q, t, e)
    <2>1. \/ req' = [req EXCEPT ![q] = NoRequest]
          \/ \E at : req' = [req EXCEPT ![q].at = at]
          \/ \E at, steps : req' = [req EXCEPT ![q].at = at, ![q].steps = steps]
      <3>1. CASE Guard(q) \/ RequestFills(q) \/ CutShort(q)
        BY <3>1 DEF Guard, RequestFills, CutShort
      <3>2. CASE RemoveFile(q) \/ DropOutputs(q) \/ RequestReads(q) \/ RequestTruncates(q)
        BY <3>2 DEF RemoveFile, DropOutputs, RequestReads, RequestTruncates
      <3> QED
        BY <1>8, <3>1, <3>2 DEF DeleteFile
    <2>2. /\ \A p \in Requests : p # q => req'[p] = req[p]
          /\ req'[q].snapshot \in {None, req[q].snapshot}
      <3>1. CASE req' = [req EXCEPT ![q] = NoRequest]
        BY <1>2, <3>1, NoTypes
      <3>2. CASE \E at : req' = [req EXCEPT ![q].at = at]
        BY <1>2, <3>2 DEF Request
      <3>3. CASE \E at, steps : req' = [req EXCEPT ![q].at = at, ![q].steps = steps]
        <4>1. PICK at, steps : req' = [req EXCEPT ![q].at = at, ![q].steps = steps]
          BY <3>3
        <4>2. req'[q].snapshot = req[q].snapshot
          BY <1>2, <4>1 DEF Request
        <4>3. \A p \in Requests : p # q => req'[p] = req[p]
          BY <1>2, <4>1
        <4> QED
          BY <4>2, <4>3
      <3> QED
        BY <2>1, <3>1, <3>2, <3>3
    <2>3. RequestsSame(s)
      BY <1>1, <1>3, <1>8, <2>2 DEF RequestsSame, Deleting
    <2>4. DiskSame(s)
      <3>1. CASE RemoveFile(q)
        BY <1>1, <1>3, <1>8, <3>1 DEF RemoveFile, DiskSame, DataTypes, DiskOK
      <3>2. CASE RequestTruncates(q) \/ RequestFills(q)
        <4>1. index' = index \/ \E doc : index' = [index EXCEPT ![req[q].snapshot] = doc]
          BY <3>2 DEF RequestTruncates, TruncateIndex, RequestFills, FillIndex
        <4>2. UNCHANGED files
          BY <3>2 DEF RequestTruncates, RequestFills
        <4> QED
          BY <1>1, <1>3, <1>8, <4>1, <4>2 DEF DiskSame, DataTypes, DiskOK
      <3>3. CASE UNCHANGED disk
        BY <1>1, <3>3 DEF DiskSame, disk
      <3> QED
        BY <1>8, <3>1, <3>2, <3>3 DEF DeleteFile, Guard, DropOutputs, RequestReads, CutShort
    <2>5. \/ UNCHANGED outputs
          \/ outputs' = [r \in DOMAIN outputs \ {x \in RunsOf(req[q].snapshot) :
                             runs[x].extractor = req[q].file} |-> outputs[r]]
      <3>1. CASE DropOutputs(q)
        BY <3>1 DEF DropOutputs
      <3>2. CASE ~DropOutputs(q)
        BY <1>8, <3>2 DEF DeleteFile, Guard, RemoveFile, RequestReads, RequestTruncates,
                          RequestFills, CutShort
      <3> QED
        BY <3>1, <3>2
    <2>6. RowsSame(s)
      BY <1>1, <1>4, <1>8, <2>5 DEF RowsSame, RecordedSame, Recorded, RunsOf
    <2> QED
      BY <1>3, <1>4, <2>3, <2>4, <2>6, Elsewhere
  <1>9. CASE s = req[q].snapshot /\ req[q].at = "guard" /\ Guard(q)
    <2>1. RowsSame(s) /\ DiskSame(s)
      BY <1>1, <1>4, <1>9 DEF Guard, RowsSame, RecordedSame, Recorded, DiskSame, disk
    <2>2. CASE \E r \in RunsOf(s) : NonTerminal(r)
      <3>1. req' = [req EXCEPT ![q] = NoRequest] /\ UNCHANGED disturbed
        BY <1>9, <2>2 DEF Guard
      <3>2. RequestsSame(s)
        BY <1>2, <1>3, <1>9, <3>1, NoTypes DEF RequestsSame, Deleting
      <3> QED
        BY <1>3, <1>4, <2>1, <3>2, Elsewhere
    <2>3. CASE ~\E r \in RunsOf(s) : NonTerminal(r)
      <3>1. /\ req' = [req EXCEPT ![q].at = "remove"]
            /\ disturbed' = IF Deleting(s) = {} /\ req[q].title = title[s]
                             THEN disturbed ELSE disturbed \cup {s}
        BY <1>9, <2>3 DEF Guard
      <3>2. ASSUME s \notin disturbed' PROVE Followed(s)'
        <4>1. Deleting(s) = {} /\ req[q].title = title[s] /\ s \notin disturbed
          BY <3>1, <3>2
        <4>2. req'[q].at = "remove" /\ req'[q].title = title[s] /\ req'[q].snapshot = s
          BY <1>2, <1>9, <3>1, <4>1 DEF Request
        <4>3. Deleting(s)' = {q}
          BY <1>2, <3>1, <4>1, <4>2 DEF Deleting
        <4>4. Projection(s)' = Projection(s)
          BY <2>1, ProjectionSame DEF RowsSame, HeldInv, DataTypes
        <4>5. Followed(s)
          BY <1>3, <4>1 DEF SyncAt
        <4> USE <4>1, <4>2, <4>3, <4>5 DEF Followed
        <4>6. Exclusive(s)'
          BY <1>1, <2>3 DEF Exclusive, RunsOf, NonTerminal, Pending, Running
        <4>7. RequestKnows(s)' /\ Settled(s)' /\ TornHeld(s)' /\ Indexed(s)'
          BY DEF RequestKnows, Settled, TornHeld, Indexed
        <4>8. WorkerKnows(s)'
          BY <1>1, <2>1, <4>4 DEF WorkerKnows, DiskSame, InSync
        <4>9. Saved(s)'
          BY <1>1, <2>1 DEF Saved, RowsSame, RecordedSame, DiskSame
        <4> QED
          BY <4>6, <4>7, <4>8, <4>9
      <3> QED
        BY <1>6, <3>2 DEF SyncAt
    <2> QED
      BY <2>2, <2>3
  <1>10. CASE s = req[q].snapshot /\ req[q].at \notin {"none", "guard"} /\ s \notin disturbed'
    <2>1. s \notin disturbed /\ Followed(s) /\ q \in Deleting(s)
      BY <1>1, <1>3, <1>10 DEF SyncAt, Deleting
    <2>2. Deleting(s) = {q} /\ req[q].title = title[s] /\ \A r \in RunsOf(s) : ~NonTerminal(r)
      BY <2>1 DEF Followed, Exclusive
    <2>3. ~CutShort(q)
      BY <1>10 DEF CutShort
    <2>4. ~Locked(s) /\ ~Locked(s)'
      BY <1>5, <2>2 DEF Locked, NonTerminal
    <2>5. WorkerKnows(s)'
      BY <1>1, <2>1, <2>2, NobodyWrites DEF WorkerKnows, WritingSteps, Followed
    <2>6. CASE ~RequestFills(q)
      <3>1. /\ \E at : /\ at \in {"outputs", "read", "truncate", "fill"}
                       /\ \/ req' = [req EXCEPT ![q].at = at]
                          \/ req' = [req EXCEPT ![q].at = at, ![q].steps = Projection(s)]
        BY <1>10, <2>3, <2>6 DEF DeleteFile, OpenRequest, Guard, RemoveFile, DropOutputs, RequestReads,
                  RequestTruncates
      <3>2. /\ \A p \in Requests : p # q => req'[p] = req[p]
            /\ req'[q].snapshot = s /\ req'[q].title = title[s] /\ req'[q].file = req[q].file
            /\ req'[q].at \in {"outputs", "read", "truncate", "fill"}
        BY <1>2, <1>10, <2>2, <3>1 DEF Request
      <3>3. Deleting(s)' = {q}
        BY <2>2, <3>2 DEF Deleting
      <3>4. Exclusive(s)'
        BY <1>1, <2>2, <3>2, <3>3 DEF Exclusive, RunsOf, NonTerminal, Pending, Running
      <3>5. Settled(s)' /\ TornHeld(s)' /\ Indexed(s)'
        BY <3>3 DEF Settled, TornHeld, Indexed
      <3>6. CASE RemoveFile(q)
        <4>1. /\ req[q].at = "remove" /\ req' = [req EXCEPT ![q].at = "outputs"]
              /\ DOMAIN files'[s] = DOMAIN files[s] \ {req[q].file}
              /\ UNCHANGED outputs
          BY <1>3, <1>10, <3>6 DEF RemoveFile, DataTypes, DiskOK
        <4>2. req'[q].at = "outputs"
          BY <1>2, <4>1
        <4>3. RequestKnows(s)'
          BY <3>3, <4>2 DEF RequestKnows
        <4>4. Saved(s)'
          BY <1>1, <2>1, <2>2, <3>2, <3>3, <4>1, <4>2 DEF Followed, Saved, Recorded, RunsOf
        <4> QED
          BY <1>6, <2>5, <3>4, <3>5, <4>3, <4>4 DEF SyncAt, Followed
      <3>7. CASE DropOutputs(q)
        <4>1. /\ req' = [req EXCEPT ![q].at = "read"] /\ UNCHANGED disk
              /\ outputs' = [r \in DOMAIN outputs \ {x \in RunsOf(s) : runs[x].extractor = req[q].file}
                               |-> outputs[r]]
          BY <1>10, <3>7 DEF DropOutputs
        <4>2. req'[q].at = "read"
          BY <1>2, <4>1
        <4>3. RequestKnows(s)'
          BY <3>3, <4>2 DEF RequestKnows
        <4>4. Saved(s)'
          BY <1>1, <2>1, <2>2, <4>1 DEF Followed, Saved, Recorded, RunsOf, disk
        <4> QED
          BY <1>6, <2>5, <3>4, <3>5, <4>3, <4>4 DEF SyncAt, Followed
      <3>8. CASE RequestReads(q) \/ RequestTruncates(q)
        <4>1. UNCHANGED <<outputs, files>>
          BY <3>8 DEF RequestReads, RequestTruncates, disk
        <4>2. RecordedSame(s) /\ req[q].at \in {"read", "truncate"}
          BY <1>1, <3>8, <4>1 DEF RecordedSame, Recorded, RunsOf, RequestReads, RequestTruncates
        <4>3. Projection(s)' = Projection(s)
          BY <4>2, ProjectionSame DEF HeldInv, DataTypes
        <4>4. Saved(s)'
          BY <1>1, <2>1, <2>2, <4>1, <4>2 DEF Followed, Saved, Recorded, RunsOf
        <4>5. CASE RequestReads(q)
          <5>1. req' = [req EXCEPT ![q].at = "truncate", ![q].steps = Projection(s)]
            BY <1>10, <4>5 DEF RequestReads
          <5>2. req'[q].at = "truncate" /\ req'[q].steps = Projection(s)
            BY <1>2, <5>1
          <5>3. RequestKnows(s)'
            BY <3>3, <4>3, <5>2 DEF RequestKnows
          <5> QED
            BY <1>6, <2>5, <3>4, <3>5, <4>4, <5>3 DEF SyncAt, Followed
        <4>6. CASE RequestTruncates(q)
          <5>1. req[q].at = "truncate" /\ req' = [req EXCEPT ![q].at = "fill"] /\ TruncateIndex(s)
            BY <1>10, <4>6 DEF RequestTruncates
          <5>2. req'[q].at = "fill" /\ req'[q].steps = req[q].steps
            BY <1>2, <5>1
          <5>3. req[q].steps = Projection(s)
            BY <2>1, <2>2, <5>1 DEF Followed, RequestKnows
          <5>4. s \in dirs => index'[s] = Torn
            BY <1>3, <5>1 DEF TruncateIndex, DataTypes, DiskOK
          <5>5. RequestKnows(s)'
            BY <1>1, <3>3, <4>3, <5>2, <5>3, <5>4 DEF RequestKnows
          <5> QED
            BY <1>6, <2>5, <3>4, <3>5, <4>4, <5>5 DEF SyncAt, Followed
        <4> QED
          BY <3>8, <4>5, <4>6
      <3> QED
        BY <1>10, <2>3, <2>6, <3>6, <3>7, <3>8 DEF DeleteFile, OpenRequest, Guard
    <2>7. CASE RequestFills(q)
      <3>1. /\ req[q].at = "fill" /\ req' = [req EXCEPT ![q] = NoRequest]
            /\ FillIndex(s, title[s], req[q].steps)
            /\ UNCHANGED <<outputs, files>>
        BY <1>10, <2>2, <2>7 DEF RequestFills
      <3>2. Deleting(s)' = {}
        BY <1>2, <1>3, <2>2, <3>1, NoTypes DEF Deleting
      <3>3. req[q].steps = Projection(s) /\ (s \in dirs => index[s] = Torn)
        BY <2>1, <2>2, <3>1 DEF Followed, RequestKnows
      <3>4. RecordedSame(s)
        BY <1>1, <3>1 DEF RecordedSame, Recorded, RunsOf
      <3>5. Projection(s)' = Projection(s)
        BY <3>4, ProjectionSame DEF HeldInv, DataTypes
      <3>6. s \in dirs => index'[s] = Index(title[s], Projection(s))
        BY <1>3, <3>1, <3>3 DEF FillIndex, DataTypes, DiskOK, Torn, NoIndex
      <3>7. s \notin dirs => index'[s] = NoIndex
        BY <1>3, <3>1 DEF FillIndex, DataTypes, DiskOK
      <3>8. Finished(s) # {} => s \in dirs
        BY <1>3 DEF SyncAt, DirKept
      <3>9. Exclusive(s)' /\ RequestKnows(s)'
        BY <3>2 DEF Exclusive, RequestKnows
      <3>10. Settled(s)'
        BY <1>1, <1>4, <3>5, <3>6, <3>8 DEF Settled, InSync
      <3>11. TornHeld(s)'
        BY <3>6, <3>7 DEF TornHeld, Index, Torn, NoIndex
      <3>12. Indexed(s)'
        <4> SUFFICES ASSUME NEW r \in Recorded(s), r \in Finished(s)
                     PROVE  index'[s] # NoIndex /\ runs[r].extractor \in DOMAIN index'[s].latest
          BY <1>1, <1>4, <3>4 DEF Indexed, RecordedSame
        <4>1. index'[s] = Index(title[s], Projection(s))
          BY <3>6, <3>8
        <4>2. runs[r].extractor \in DOMAIN Projection(s)
          BY ProjectionIs
        <4> QED
          BY <4>1, <4>2 DEF Index, NoIndex
      <3>13. Saved(s)'
        BY <1>1, <2>1, <2>2, <3>1, <3>4 DEF Followed, Saved, RecordedSame
      <3> QED
        BY <1>6, <2>5, <3>9, <3>10, <3>11, <3>12, <3>13 DEF SyncAt, Followed
    <2> QED
      BY <2>6, <2>7
  <1>11. CASE s \in disturbed'
    BY <1>6, <1>11 DEF SyncAt
  <1> QED
    BY <1>7, <1>8, <1>9, <1>10, <1>11 DEF DeleteFile, Guard, RemoveFile, DropOutputs, RequestReads,
          RequestTruncates, RequestFills, CutShort

----------------------------------------------------------------------------
(* The worker.                                                             *)

Locks ==
    \A w \in Workers :
      wsnap[w] \in snapshots /\ (pc[w] \in {"claimed", "listing"} \/ Executing(w)) =>
        Locked(wsnap[w])

LEMMA LocksNow == HeldInv /\ Holds => Locks
  BY Locking DEF Locks

LEMMA LocksNext == (HeldInv /\ Holds => Locks)'
  BY LocksNow, PTL

\* What a worker changes of the tables and of the disk belongs to its snapshot.
LEMMA WorkerElsewhere ==
    ASSUME OneWorker, HeldInv, Holds, DataTypes, Sync, NEW w \in Workers,
           DWork(w) \/ TitleFails(w) \/ IndexFails(w) \/ WriteFails(w),
           NEW s \in snapshots, wsnap'[w] # s
    PROVE  SyncAt(s)'
  <1>1. s \in SnapshotIds /\ SyncAt(s)
    BY SnapshotsNumbered DEF HeldInv, Sync
  <1>2. UNCHANGED req /\ disturbed \subseteq disturbed'
    BY DEF DWork, Load, Mkdir, List, Bookkeeping, Leave, Extracted, Record, FindTitle, TitleSaved,
           SaveTitle, ReadOutputs, Truncate, Fill, Finish, TitleFails, IndexFails, WriteFails, Disturb,
           data, requests
  <1>3. WorkersSame(s) /\ RequestsSame(s)
    BY <1>2 DEF OneWorker, WorkersSame, RequestsSame, Deleting
  <1>4. CASE Bookkeeping(w) \/ Leave(w) \/ Load(w) \/ List(w) \/ Mkdir(w)
    <2>1. UNCHANGED <<outputs, title, files, index>>
      BY <1>4 DEF Bookkeeping, Leave, Load, List, Mkdir, data, disk
    <2>2. \/ UNCHANGED dirs
          \/ dirs' = dirs \cup {wsnap[w]} /\ UNCHANGED wsnap
      BY <1>4 DEF Bookkeeping, Leave, Load, List, Mkdir, data, disk, vars, memory
    <2>3. DiskSame(s)
      BY <2>1, <2>2 DEF DiskSame
    <2>4. CASE ClaimNextSnapshot(w)
      <3>1. PICK r \in DOMAIN runs :
              SetStatus(r, "running") /\ wsnap' = [wsnap EXCEPT ![w] = runs[r].snapshot]
        BY <2>4 DEF ClaimNextSnapshot
      <3>2. runs[r].snapshot # s
        BY <3>1 DEF HeldInv, TypeOK, MemoryOK
      <3>3. /\ DOMAIN runs' = DOMAIN runs
            /\ \A x \in DOMAIN runs : x # r => runs'[x] = runs[x]
            /\ \A x \in DOMAIN runs : runs'[x].snapshot = runs[x].snapshot
        BY <3>1, SetStatusEffect, ConstantsAssumption DEF Status, HeldInv, TypeOK
      <3>4. RowsSame(s)
        BY <2>1, <3>2, <3>3 DEF RowsSame, RecordedSame, Recorded, RunsOf
      <3> QED
        BY <1>1, <1>3, <2>3, <3>4, Elsewhere
    <2>5. CASE StartRun(w)
      <3>1. PICK r \in todo[w] : Pending(r) /\ SetStatus(r, "running") /\ UNCHANGED wsnap /\ pc[w] = "loop"
        BY <2>5 DEF StartRun, Take
      <3>2. runs[r].snapshot # s /\ r \in DOMAIN runs
        BY <3>1 DEF HeldInv, LoadedOK, Working, Pending
      <3>3. /\ DOMAIN runs' = DOMAIN runs
            /\ \A x \in DOMAIN runs : x # r => runs'[x] = runs[x]
            /\ \A x \in DOMAIN runs : runs'[x].snapshot = runs[x].snapshot
        BY <3>1, <3>2, SetStatusEffect, ConstantsAssumption DEF Status, HeldInv, TypeOK
      <3>4. RowsSame(s)
        BY <2>1, <3>2, <3>3 DEF RowsSame, RecordedSame, Recorded, RunsOf
      <3> QED
        BY <1>1, <1>3, <2>3, <3>4, Elsewhere
    <2>6. CASE UNCHANGED runs
      <3>1. RowsSame(s)
        BY <2>1, <2>6 DEF RowsSame, RecordedSame, Recorded, RunsOf
      <3> QED
        BY <1>1, <1>3, <2>3, <3>1, Elsewhere
    <2> QED
      BY <1>4, <2>4, <2>5, <2>6 DEF Bookkeeping, Leave, Load, List, Mkdir, SnapshotGone, RunHeld, SkipRun,
         StartFails, ExtractorHangs, LoadFails, LoopDone, LoadSnapshot, ListRuns, vars, tables
  <1>5. CASE ~(Bookkeeping(w) \/ Leave(w) \/ Load(w) \/ List(w) \/ Mkdir(w))
    <2>1. /\ UNCHANGED <<wsnap, dirs>> /\ Executing(w)
      BY <1>5 DEF DWork, Extracted, Extract, Record, FindTitle, TitleSaved, SaveTitle, ReadOutputs,
         Truncate, Fill, Finish, FinishRun, FinishFails, TitleFails, IndexFails, WriteFails, At, vars, memory,
         disk, Executing
    <2>2. wsnap[w] # s /\ (cur[w] \in DOMAIN runs => runs[cur[w]].snapshot # s)
      BY <2>1 DEF HeldInv, LockHeldWhileIndexing, Executing
    <2>3. DiskSame(s)
      <3>1. \/ UNCHANGED title
            \/ \E t : title' = [title EXCEPT ![wsnap[w]] = t]
        <4>1. CASE TitleSaved(w) \/ TitleFails(w)
          BY <4>1 DEF TitleSaved, TitleFails, SaveTitle
        <4>2. CASE ~(TitleSaved(w) \/ TitleFails(w))
          BY <1>5, <4>2 DEF DWork, Extracted, Record, FindTitle, ReadOutputs, Truncate, Fill, Finish,
             IndexFails, WriteFails
        <4> QED
          BY <4>1, <4>2
      <3>2. \/ UNCHANGED files
            \/ \E fs : files' = [files EXCEPT ![wsnap[w]] = fs]
        <4>1. CASE Extracted(w)
          BY <4>1 DEF Extracted
        <4>2. CASE ~Extracted(w)
          BY <1>5, <4>2 DEF DWork, Record, FindTitle, TitleSaved, SaveTitle, ReadOutputs, Truncate, Fill,
             Finish, TitleFails, IndexFails, WriteFails, disk
        <4> QED
          BY <4>1, <4>2
      <3>3. \/ UNCHANGED index
            \/ \E doc : index' = [index EXCEPT ![wsnap[w]] = doc]
        <4>1. CASE Truncate(w) \/ Fill(w)
          BY <4>1 DEF Truncate, TruncateIndex, Fill, FillIndex
        <4>2. CASE ~(Truncate(w) \/ Fill(w))
          BY <1>5, <4>2 DEF DWork, Extracted, Record, FindTitle, TitleSaved, SaveTitle, ReadOutputs,
             Finish, TitleFails, IndexFails, WriteFails, disk
        <4> QED
          BY <4>1, <4>2
      <3> QED
        BY <1>1, <2>1, <2>2, <3>1, <3>2, <3>3 DEF DiskSame, DataTypes, DiskOK, RestOK
    <2>4. RunsOf(s)' = RunsOf(s) /\ \A r \in RunsOf(s) : runs'[r] = runs[r]
      <3>1. CASE FinishRun(w) /\ cur[w] \in DOMAIN runs
        <4>1. PICK st \in Terminal : SetStatus(cur[w], st)
          BY <3>1, ConstantsAssumption DEF FinishRun, Outcomes
        <4>2. /\ DOMAIN runs' = DOMAIN runs
              /\ \A x \in DOMAIN runs : x # cur[w] => runs'[x] = runs[x]
              /\ \A x \in DOMAIN runs : runs'[x].snapshot = runs[x].snapshot
          BY <3>1, <4>1, SetStatusEffect DEF Status, HeldInv, TypeOK
        <4> QED
          BY <2>2, <4>2 DEF RunsOf
      <3>2. CASE UNCHANGED runs
        BY <3>2 DEF RunsOf
      <3> QED
        BY <1>5, <3>1, <3>2 DEF DWork, Extracted, Extract, Record, FindTitle, TitleSaved, SaveTitle,
           ReadOutputs, Truncate, Fill, Finish, FinishRun, FinishFails, TitleFails, IndexFails, WriteFails,
           vars, tables
    <2>5. Recorded(s)' = Recorded(s) /\ \A r \in Recorded(s) : outputs'[r] = outputs[r]
      <3>1. CASE Record(w)
        <4>1. \A r \in RunsOf(s) : r # cur[w]
          BY <2>2 DEF RunsOf
        <4> QED
          BY <2>4, <3>1, <4>1, RecordEffect DEF Recorded, DataTypes
      <3>2. CASE ~Record(w)
        <4>1. UNCHANGED outputs
          BY <1>5, <3>2 DEF DWork, Extracted, FindTitle, TitleSaved, SaveTitle, ReadOutputs, Truncate, Fill,
             Finish, TitleFails, IndexFails, WriteFails
        <4> QED
          BY <2>4, <4>1 DEF Recorded
      <3> QED
        BY <3>1, <3>2
    <2>6. RowsSame(s)
      BY <2>4, <2>5 DEF RowsSame, RecordedSame, Recorded
    <2> QED
      BY <1>1, <1>3, <2>3, <2>6, Elsewhere
  <1> QED
    BY <1>4, <1>5

\* While its snapshot is locked, a worker's step owes the rows and the files
\* only: nobody else works there.
LEMMA LockedFollowed ==
    ASSUME NEW s, Deleting(s) = {}, Locked(s), WorkerKnows(s), Indexed(s), Saved(s)
    PROVE  Followed(s)
  BY DEF Followed, Exclusive, RequestKnows, Settled, TornHeld

LEMMA LockedFollowedNext ==
    ASSUME NEW s
    PROVE  (Deleting(s) = {} /\ Locked(s) /\ WorkerKnows(s) /\ Indexed(s) /\ Saved(s) => Followed(s))'
  BY LockedFollowed DEF Followed, Exclusive, RequestKnows, Settled, TornHeld

\* The steps between the claim and the extractor.
LEMMA QueueSync ==
    ASSUME OneWorker, HeldInv, Holds, DataTypes, DataTypes', Locks', Sync, NEW w \in Workers,
           Load(w) \/ Mkdir(w) \/ List(w) \/ Bookkeeping(w),
           NEW s \in snapshots, wsnap'[w] = s, snapshots' = snapshots
    PROVE  SyncAt(s)'
  <1>1. s \in SnapshotIds /\ s # None /\ SyncAt(s)
    BY SnapshotsNumbered DEF HeldInv, Sync
  <1>2. /\ UNCHANGED <<req, disturbed, title, outputs, files, index>>
        /\ dirs \subseteq dirs'
    BY DEF Load, Mkdir, List, Bookkeeping, data, disk, requests
  <1>3. \A v \in Workers : v = w
    BY DEF OneWorker
  <1>4. /\ DOMAIN runs' = DOMAIN runs
        /\ \A r \in DOMAIN runs : /\ runs'[r].snapshot = runs[r].snapshot
                                 /\ runs'[r].extractor = runs[r].extractor
    <2>1. Work(w) \/ WorkerFault(w) \/ UNCHANGED vars
      BY WorkerSteps DEF DWork
    <2> QED
      BY <2>1, OneMoves DEF HeldInv, vars, tables
  <1>5. RunsOf(s)' = RunsOf(s) /\ RecordedSame(s)
    BY <1>2, <1>4 DEF RunsOf, RecordedSame, Recorded
  <1>6. job \in [Workers -> Job] /\ \A v \in Workers : job[v] \in Job
    BY DEF DataTypes, JobsOK
  <1>7. SnapshotGone(w) => FALSE
    BY <1>1 DEF SnapshotGone, Forget, HeldInv, TypeOK, MemoryOK
  <1>8. CASE SkipRun(w) \/ StartFails(w)
    <2>1. UNCHANGED <<runs, wsnap, pc, cur>> /\ todo'[w] \subseteq todo[w]
      BY <1>8 DEF SkipRun, StartFails, Take, tables, HeldInv, TypeOK, MemoryOK
    <2>2. UNCHANGED <<dirs, job>>
      BY <1>8, <2>1 DEF Load, LoadSnapshot, Mkdir, At, List, ListRuns, Bookkeeping, data, disk,
         SkipRun, StartFails, Take, Goto, HeldInv, TypeOK, MemoryOK
    <2>3. WorkersSame(s) /\ RowsSame(s) /\ DiskSame(s) /\ RequestsSame(s)
      BY <1>2, <1>3, <1>5, <2>1, <2>2 DEF WorkersSame, RowsSame, DiskSame, RequestsSame, Deleting
    <2> QED
      BY <1>1, <2>3, Elsewhere
  <1>9. CASE ~(SkipRun(w) \/ StartFails(w))
    <2>1. /\ \E r \in RunsOf(s) : NonTerminal(r)
          /\ \A r \in RunsOf(s) : NonTerminal(r)' <=> NonTerminal(r)
          /\ UNCHANGED runs \/ pc'[w] \in {"claimed", "exec"}
      <3>1. CASE ClaimNextSnapshot(w)
        <4>1. PICK r \in DOMAIN runs : /\ Oldest(r, Claimable) /\ SetStatus(r, "running")
                                       /\ wsnap' = [wsnap EXCEPT ![w] = runs[r].snapshot]
          BY <3>1 DEF ClaimNextSnapshot
        <4>2. Pending(r) /\ r \in RunsOf(s)
          BY <4>1 DEF Oldest, Claimable, RunsOf, HeldInv, TypeOK, MemoryOK
        <4>3. \A q \in RunsOf(s) : NonTerminal(q)' <=> NonTerminal(q)
          BY <4>1, <4>2, SetStatusPredicates DEF NonTerminal, Status, HeldInv, TypeOK
        <4>4. pc'[w] = "claimed"
          BY <3>1 DEF ClaimNextSnapshot, Goto, HeldInv, TypeOK, MemoryOK
        <4> QED
          BY <4>2, <4>3, <4>4 DEF NonTerminal
      <3>2. CASE StartRun(w)
        <4>1. PICK r \in todo[w] : Pending(r) /\ SetStatus(r, "running") /\ pc[w] = "loop" /\ UNCHANGED wsnap
          BY <3>2 DEF StartRun, Take
        <4>2. Pending(r) /\ r \in RunsOf(s) /\ r \in DOMAIN runs
          BY <4>1 DEF Holds, Working, Pending
        <4>3. \A q \in RunsOf(s) : NonTerminal(q)' <=> NonTerminal(q)
          BY <4>1, <4>2, SetStatusPredicates DEF NonTerminal, Status, HeldInv, TypeOK
        <4>4. pc'[w] = "exec"
          BY <3>2 DEF StartRun, Execute, Goto, HeldInv, TypeOK, MemoryOK
        <4> QED
          BY <4>2, <4>3, <4>4 DEF NonTerminal
      <3>3. CASE RunHeld(w)
        <4>1. PICK r \in todo[w] : r \in held[w] /\ pc[w] = "loop" /\ UNCHANGED <<wsnap, runs>>
          BY <3>3 DEF RunHeld, Take, tables
        <4>2. r \in RunsOf(s) /\ Running(r)
          BY <4>1 DEF Holds, Working, HeldInv, LoadedOK, RunsOf
        <4> QED
          BY <4>1, <4>2 DEF NonTerminal, Pending, Running
      <3>4. CASE Load(w) \/ Mkdir(w) \/ List(w) \/ ExtractorHangs(w)
        <4>1. /\ UNCHANGED <<runs, wsnap>>
              /\ pc[w] \in {"claimed", "listing"} \/ Executing(w)
          BY <3>4 DEF Load, LoadSnapshot, Mkdir, At, List, ListRuns, ExtractorHangs, Executing,
             vars, tables, memory
        <4>2. Locked(s)
          BY <4>1, Locking
        <4> QED
          BY <4>1, <4>2 DEF Locked, NonTerminal, Pending, Running
      <3> QED
        BY <1>7, <1>9, <3>1, <3>2, <3>3, <3>4 DEF Bookkeeping
    <2>2. Locked(s)'
      <3>1. CASE List(w)
        <4>1. UNCHANGED <<runs, wsnap>> /\ pc[w] = "listing"
          BY <3>1 DEF List, ListRuns, tables
        <4>2. Locked(s)
          BY <4>1, Locking
        <4> QED
          BY <4>1, <4>2 DEF Locked, RunsOf, Running
      <3>2. CASE ~List(w)
        <4>1. pc'[w] \in {"claimed", "listing", "exec", "hung"}
          BY <1>7, <1>9, <3>2 DEF Load, LoadSnapshot, Mkdir, At, Bookkeeping, ClaimNextSnapshot,
             RunHeld, StartRun, ExtractorHangs, Execute, Goto, vars, HeldInv, TypeOK, MemoryOK
        <4> QED
          BY <4>1 DEF Locks, Executing
      <3> QED
        BY <3>1, <3>2
    <2>3. Finished(s)' = Finished(s)
      BY <1>5, <2>1 DEF Finished
    <2>4. DirKept(s)'
      <3>1. Working(w)' \/ (pc'[w] = "listing" /\ job'[w].at # "mkdir") => s \in dirs'
        <4>1. CASE ClaimNextSnapshot(w)
          BY <4>1 DEF ClaimNextSnapshot, Goto, Working, HeldInv, TypeOK, MemoryOK
        <4>2. CASE Load(w)
          BY <1>6, <4>2 DEF Load, LoadSnapshot, Goto, Working, HeldInv, TypeOK, MemoryOK, Job
        <4>3. CASE Mkdir(w)
          BY <4>3 DEF Mkdir, vars, memory
        <4>4. CASE List(w)
          <5>1. pc[w] = "listing" /\ job[w].at = "none" /\ UNCHANGED wsnap
            BY <4>4 DEF List, ListRuns
          <5> QED
            BY <1>1, <1>2, <5>1 DEF SyncAt, DirKept
        <4>5. CASE RunHeld(w) \/ StartRun(w) \/ ExtractorHangs(w)
          <5>1. Working(w) /\ UNCHANGED wsnap
            BY <4>5 DEF RunHeld, StartRun, ExtractorHangs, Take, Working, memory
          <5> QED
            BY <1>1, <1>2, <5>1 DEF SyncAt, DirKept
        <4> QED
          BY <1>7, <1>9, <4>1, <4>2, <4>3, <4>4, <4>5 DEF Bookkeeping
      <3> QED
        BY <1>1, <1>2, <1>3, <2>3, <3>1 DEF SyncAt, DirKept
    <2>5. Loaded(s)'
      <3> SUFFICES /\ pc'[w] \notin {"idle", "claimed", "down"} /\ s \notin disturbed =>
                        job'[w].title = title'[s]
                   /\ Working(w)' => \A r \in todo'[w] : Known(w, r)'
                   /\ Executing(w)' => Known(w, cur[w])'
        BY <1>2, <1>3 DEF Loaded
      <3>1. CASE ClaimNextSnapshot(w)
        BY <3>1 DEF ClaimNextSnapshot, Goto, Working, Executing, HeldInv, TypeOK, MemoryOK
      <3>2. CASE Load(w)
        <4>1. pc'[w] = "listing" /\ wsnap[w] = s /\ job' = [job EXCEPT ![w].at = "mkdir", ![w].title = title[s]]
          BY <3>2 DEF Load, LoadSnapshot, Goto, memory, HeldInv, TypeOK, MemoryOK
        <4>2. job'[w].title = title[s]
          BY <1>6, <4>1 DEF Job
        <4> QED
          BY <1>2, <4>1, <4>2 DEF Working, Executing
      <3>3. CASE Mkdir(w)
        <4>1. pc[w] = "listing" /\ pc'[w] = "listing" /\ wsnap[w] = s /\ job'[w].title = job[w].title
          BY <1>6, <3>3 DEF Mkdir, At, vars, memory, Job
        <4> QED
          BY <1>1, <1>2, <4>1 DEF SyncAt, Loaded, Working, Executing
      <3>4. CASE List(w)
        <4>1. /\ pc[w] = "listing" /\ pc'[w] = "loop" /\ wsnap[w] = s
              /\ todo'[w] \subseteq RunsOf(s)
              /\ job' = [job EXCEPT ![w].names = [r \in RunsOf(s) |-> runs[r].extractor]]
          BY <3>4 DEF List, ListRuns, Goto, HeldInv, TypeOK, MemoryOK
        <4>2. job'[w].title = job[w].title /\ job'[w].names = [r \in RunsOf(s) |-> runs[r].extractor]
          BY <1>6, <4>1 DEF Job
        <4>3. \A r \in todo'[w] : Known(w, r)'
          BY <1>4, <4>1, <4>2 DEF Known, RunsOf
        <4> QED
          BY <1>1, <1>2, <4>1, <4>2, <4>3 DEF SyncAt, Loaded, Executing
      <3>5. CASE RunHeld(w) \/ StartRun(w) \/ ExtractorHangs(w)
        <4>1. /\ Working(w) /\ wsnap[w] = s /\ todo'[w] \subseteq todo[w] /\ UNCHANGED job
              /\ cur'[w] \in todo[w] \/ (cur'[w] = cur[w] /\ Executing(w))
          BY <3>5 DEF RunHeld, StartRun, ExtractorHangs, Take, Execute, Working, Executing, memory,
             Bookkeeping, data, HeldInv, TypeOK, MemoryOK, Load, LoadSnapshot, List, ListRuns, Mkdir, At, Goto
        <4>2. \A r \in RunsOf(s) : Known(w, r) => Known(w, r)'
          BY <1>4, <4>1 DEF Known, RunsOf
        <4>3. todo[w] \subseteq RunsOf(s) /\ (Executing(w) => cur[w] \in RunsOf(s))
          BY <4>1 DEF Holds
        <4>4. /\ \A r \in todo[w] : Known(w, r)
              /\ Executing(w) => Known(w, cur[w])
              /\ s \notin disturbed => job[w].title = title[s]
          BY <1>1, <4>1 DEF SyncAt, Loaded, Working
        <4>5. \A r : r \in RunsOf(s) /\ Known(w, r) => r \in DOMAIN job'[w].names /\ job'[w].names[r] = runs'[r].extractor
          BY <4>2 DEF Known
        <4>6. Known(w, cur[w])'
          BY <4>1, <4>3, <4>4, <4>5 DEF Known
        <4> QED
          BY <1>2, <4>1, <4>2, <4>3, <4>4, <4>6
      <3> QED
        BY <1>7, <1>9, <3>1, <3>2, <3>3, <3>4, <3>5 DEF Bookkeeping
    <2>6. ASSUME s \notin disturbed PROVE Followed(s)'
      <3>1. Followed(s) /\ Deleting(s) = {}
        BY <1>1, <2>1, <2>6 DEF SyncAt, Followed, Exclusive
      <3>2. Deleting(s)' = {}
        BY <1>2, <3>1 DEF Deleting
      <3>3. WorkerKnows(s)'
        <4>1. pc'[w] # "indexing"
          BY <1>9 DEF Load, LoadSnapshot, Mkdir, At, List, ListRuns, Bookkeeping, ClaimNextSnapshot,
             SnapshotGone, RunHeld, StartRun, ExtractorHangs, Take, Execute, Goto, vars,
             HeldInv, TypeOK, MemoryOK
        <4> QED
          BY <1>3, <4>1 DEF WorkerKnows, WritingSteps, DataTypes, JobsOK
      <3>4. Indexed(s)' /\ Saved(s)'
        BY <1>2, <1>5, <2>3, <3>1, <3>2 DEF Followed, Indexed, Saved, RecordedSame
      <3> QED
        BY <2>2, <3>2, <3>3, <3>4, LockedFollowedNext
    <2> QED
      BY <1>2, <2>4, <2>5, <2>6 DEF SyncAt
  <1> QED
    BY <1>8, <1>9

\* The extractor, and what follows it up to FinishRun.
LEMMA InnerSync ==
    ASSUME OneWorker, HeldInv, Holds, DataTypes, DataTypes', Sync, NEW w \in Workers,
           \/ Extracted(w) \/ Record(w) \/ FindTitle(w) \/ TitleSaved(w)
           \/ ReadOutputs(w) \/ Truncate(w) \/ Fill(w),
           NEW s \in snapshots, wsnap[w] = s
    PROVE  SyncAt(s)'
  <1>1. s \in SnapshotIds /\ s # None /\ SyncAt(s)
    BY SnapshotsNumbered DEF HeldInv, Sync
  <1>2. /\ UNCHANGED <<runs, snapshots, wsnap, todo, cur, req, disturbed, dirs>>
        /\ pc'[w] = "indexing" /\ Executing(w)
    BY DEF Extracted, Extract, Goto, Record, FindTitle, TitleSaved, SaveTitle, ReadOutputs, Truncate, Fill,
           At, vars, tables, memory, disk, requests, Executing, HeldInv, TypeOK, MemoryOK
  <1>3. \A v \in Workers : v = w
    BY DEF OneWorker
  <1>4. /\ job \in [Workers -> Job] /\ job[w] \in Job
        /\ title \in [SnapshotIds -> AnyTitle] /\ files \in [SnapshotIds -> FileMap]
        /\ index \in [SnapshotIds -> Document]
    BY DEF DataTypes, JobsOK, RestOK, DiskOK
  <1>5. s \in dirs
    BY <1>1, <1>2 DEF SyncAt, DirKept, Working, Executing
  <1>6. cur[w] \in RunsOf(s) /\ Running(cur[w]) /\ Locked(s) /\ Locked(s)'
    <2>1. cur[w] \in RunsOf(s)
      BY <1>2 DEF Holds
    <2>2. Running(cur[w])
      BY <1>2, <2>1 DEF HeldInv, LockHeldWhileIndexing, Executing, RunsOf
    <2> QED
      BY <1>2, <2>1, <2>2 DEF Locked, RunsOf, Running
  <1>7. /\ s \notin disturbed => job[w].title = title[s]
        /\ Known(w, cur[w])
        /\ \A r \in todo[w] : Known(w, r)
    BY <1>1, <1>2 DEF SyncAt, Loaded, Working, Executing
  <1>8. job'[w].names = job[w].names
    BY <1>4 DEF Extracted, Record, FindTitle, TitleSaved, SaveTitle, ReadOutputs, Truncate, Fill, Job
  <1>9. s \notin disturbed => job'[w].title = title'[s]
    <2>1. CASE TitleSaved(w)
      <3> DEFINE new == job[w].best # NoTitle /\ job[w].best # job[w].title
      <3>1. /\ title' = IF new THEN [title EXCEPT ![s] = job[w].best] ELSE title
            /\ job' = [job EXCEPT ![w].at = "read", ![w].best = NoTitle,
                                  ![w].title = IF new THEN job[w].best ELSE @]
        BY <2>1 DEF TitleSaved, SaveTitle
      <3>2. job'[w].title = IF new THEN job[w].best ELSE job[w].title
        BY <1>4, <3>1 DEF Job
      <3>3. title'[s] = IF new THEN job[w].best ELSE title[s]
        BY <1>1, <1>4, <3>1
      <3> QED
        BY <1>7, <3>2, <3>3
    <2>2. CASE ~TitleSaved(w)
      <3>1. UNCHANGED title /\ job'[w].title = job[w].title
        BY <1>4, <2>2 DEF Extracted, Record, FindTitle, ReadOutputs, Truncate, Fill, Job
      <3> QED
        BY <1>7, <3>1
    <2> QED
      BY <2>1, <2>2
  <1>10. Finished(s)' = Finished(s) /\ RunsOf(s)' = RunsOf(s) /\ cur[w] \notin Finished(s)
    BY <1>2, <1>6 DEF Finished, RunsOf, NonTerminal, Pending, Running
  <1>11. DirKept(s)'
    BY <1>2, <1>5 DEF DirKept
  <1>12. Loaded(s)'
    BY <1>2, <1>3, <1>7, <1>8, <1>9 DEF Loaded, Known
  <1>13. ASSUME s \notin disturbed PROVE Followed(s)'
    <2>1. Followed(s) /\ Deleting(s) = {}
      BY <1>1, <1>6, <1>13, LockExcludes DEF SyncAt, Followed
    <2>2. Deleting(s)' = {}
      BY <1>2, <2>1 DEF Deleting
    <2>3. WorkerKnows(s)' /\ Indexed(s)' /\ Saved(s)'
      <3>1. CASE Extracted(w)
        <4>1. UNCHANGED <<outputs, index>>
          BY <3>1 DEF Extracted
        <4>2. CASE job[w].names[cur[w]] \in Registered
          <5> DEFINE e == job[w].names[cur[w]]
          <5>0. PICK outcome \in Terminal : \E fs \in FilesAfter(s, e, outcome) :
                  /\ files' = [files EXCEPT ![s] = fs]
                  /\ job' = [job EXCEPT ![w].at = "record", ![w].result = outcome]
            BY <3>1, <4>2 DEF Extracted
          <5>1. PICK fs \in FilesAfter(s, e, outcome) :
                  /\ files' = [files EXCEPT ![s] = fs]
                  /\ job' = [job EXCEPT ![w].at = "record", ![w].result = outcome]
            BY <5>0
          <5>2. e \in Extractors
            BY <4>2, RegisteredExtractors DEF HeldInv, TypeOK
          <5>3. DOMAIN files[s] \subseteq DOMAIN fs /\ (outcome = "succeeded" => e \in DOMAIN fs)
            BY <1>1, <5>1, <5>2, FilesAfterTypes DEF DataTypes
          <5>4. job'[w].at = "record" /\ job'[w].result = outcome /\ files'[s] = fs
            BY <1>1, <1>4, <5>1 DEF Job
          <5>5. WorkerKnows(s)'
            BY <1>2, <1>3, <1>8, <5>3, <5>4 DEF WorkerKnows
          <5>6. Indexed(s)' /\ Saved(s)'
            BY <1>2, <1>10, <2>1, <2>2, <4>1, <5>3, <5>4 DEF Followed, Indexed, Saved, Recorded
          <5> QED
            BY <5>5, <5>6
        <4>3. CASE job[w].names[cur[w]] \notin Registered
          <5>1. job'[w].at = "title" /\ UNCHANGED files
            BY <1>4, <3>1, <4>3 DEF Extracted, Job
          <5>2. WorkerKnows(s)'
            BY <1>3, <5>1 DEF WorkerKnows
          <5>3. Indexed(s)' /\ Saved(s)'
            BY <1>2, <1>10, <2>1, <2>2, <4>1, <5>1 DEF Followed, Indexed, Saved, Recorded
          <5> QED
            BY <5>2, <5>3
        <4> QED
          BY <4>2, <4>3
      <3>2. CASE Record(w)
        <4>1. UNCHANGED <<files, index>> /\ job[w].at = "record"
          BY <3>2 DEF Record, At, disk
        <4>2. job'[w].at = "title"
          BY <1>4, <3>2 DEF Record, Job
        <4>3. WorkerKnows(s)'
          BY <1>3, <4>2 DEF WorkerKnows
        <4>4. \A r \in Recorded(s)' : \/ r = cur[w] /\ outputs'[r] = job[w].result
                                      \/ r \in Recorded(s) /\ outputs'[r] = outputs[r]
          BY <1>10, <3>2, RecordEffect DEF Recorded, DataTypes
        <4>5. Indexed(s)'
          BY <1>2, <1>10, <2>1, <2>2, <4>1, <4>4 DEF Followed, Indexed
        <4>6. job[w].result = "succeeded" => runs[cur[w]].extractor \in DOMAIN files[s]
          BY <1>7, <2>1, <4>1 DEF Followed, WorkerKnows, Known
        <4>7. Saved(s)'
          BY <1>2, <2>1, <2>2, <4>1, <4>4, <4>6 DEF Followed, Saved
        <4> QED
          BY <4>3, <4>5, <4>7
      <3>3. CASE FindTitle(w) \/ TitleSaved(w)
        <4>1. UNCHANGED <<outputs, files, index>> /\ job'[w].at \in {"save", "read"}
          BY <1>4, <3>3 DEF FindTitle, TitleSaved, SaveTitle, disk, Job
        <4>2. WorkerKnows(s)'
          BY <1>3, <4>1 DEF WorkerKnows
        <4>3. Indexed(s)' /\ Saved(s)'
          BY <1>2, <1>10, <2>1, <2>2, <4>1 DEF Followed, Indexed, Saved, Recorded
        <4> QED
          BY <4>2, <4>3
      <3>4. CASE ReadOutputs(w) \/ Truncate(w) \/ Fill(w)
        <4>1. UNCHANGED <<outputs, files, title>>
          BY <3>4 DEF ReadOutputs, Truncate, Fill, disk
        <4>2. RecordedSame(s)
          BY <1>2, <4>1 DEF RecordedSame, Recorded, RunsOf
        <4>3. Projection(s)' = Projection(s)
          BY <4>2, ProjectionSame DEF HeldInv, DataTypes
        <4>4. Saved(s)'
          BY <1>2, <2>1, <2>2, <4>1, <4>2 DEF Followed, Saved, RecordedSame
        <4>5. CASE ReadOutputs(w)
          <5>1. job'[w].at = "truncate" /\ job'[w].steps = Projection(s) /\ UNCHANGED index
            BY <1>4, <4>5 DEF ReadOutputs, disk, Job
          <5>2. WorkerKnows(s)'
            BY <1>3, <4>3, <5>1 DEF WorkerKnows
          <5>3. Indexed(s)'
            BY <1>2, <1>10, <2>1, <2>2, <4>2, <5>1 DEF Followed, Indexed, RecordedSame
          <5> QED
            BY <4>4, <5>2, <5>3
        <4>6. CASE Truncate(w)
          <5>1. job'[w].at = "fill" /\ job'[w].steps = job[w].steps /\ index'[s] = Torn /\ job[w].at = "truncate"
            BY <1>1, <1>4, <1>5, <4>6 DEF Truncate, TruncateIndex, At, Job
          <5>2. job[w].steps = Projection(s)
            BY <2>1, <5>1 DEF Followed, WorkerKnows
          <5>3. WorkerKnows(s)'
            BY <1>3, <4>3, <5>1, <5>2 DEF WorkerKnows
          <5>4. Indexed(s)'
            BY <5>1 DEF Indexed
          <5> QED
            BY <4>4, <5>3, <5>4
        <4>7. CASE Fill(w)
          <5>1. job'[w].at = "done" /\ job[w].at = "fill" /\ FillIndex(s, job[w].title, job[w].steps)
            BY <1>4, <4>7 DEF Fill, At, Job
          <5>2. job[w].steps = Projection(s) /\ index[s] = Torn
            BY <2>1, <5>1 DEF Followed, WorkerKnows
          <5>3. index'[s] = Index(title[s], Projection(s))
            BY <1>1, <1>4, <1>5, <1>7, <1>13, <5>1, <5>2 DEF FillIndex, Torn, NoIndex
          <5>4. WorkerKnows(s)'
            BY <1>3, <4>1, <4>3, <5>1, <5>3 DEF WorkerKnows, InSync
          <5>5. \A r \in Recorded(s) : runs[r].extractor \in DOMAIN Projection(s)
            BY ProjectionIs
          <5>6. Indexed(s)'
            BY <4>2, <5>3, <5>5 DEF Indexed, RecordedSame, Index, NoIndex
          <5> QED
            BY <4>4, <5>4, <5>6
        <4> QED
          BY <3>4, <4>5, <4>6, <4>7
      <3> QED
        BY <3>1, <3>2, <3>3, <3>4
    <2> QED
      BY <1>6, <2>2, <2>3, LockedFollowedNext
  <1> QED
    BY <1>2, <1>11, <1>12, <1>13 DEF SyncAt

LEMMA FinishSync ==
    ASSUME OneWorker, HeldInv, Holds, DataTypes, DataTypes', Sync, NEW w \in Workers, Finish(w),
           NEW s \in snapshots, wsnap[w] = s
    PROVE  SyncAt(s)'
  <1>1. s \in SnapshotIds /\ s # None /\ SyncAt(s)
    BY SnapshotsNumbered DEF HeldInv, Sync
  <1>2. /\ UNCHANGED <<snapshots, wsnap, todo, req, disturbed, title, outputs, dirs, files, index>>
        /\ pc'[w] = "loop" /\ pc[w] = "indexing" /\ Executing(w) /\ job[w].at = "done"
        /\ job' = [job EXCEPT ![w] = [NoJob EXCEPT !.names = job[w].names, !.title = job[w].title]]
    BY DEF Finish, FinishRun, FinishFails, Goto, tables, disk, requests, Executing, HeldInv, TypeOK, MemoryOK
  <1>3. \A v \in Workers : v = w
    BY DEF OneWorker
  <1>4. job'[w].at = "none" /\ job'[w].names = job[w].names /\ job'[w].title = job[w].title
    BY <1>2 DEF NoJob, DataTypes, JobsOK
  <1>5. s \in dirs
    BY <1>1, <1>2 DEF SyncAt, DirKept, Working, Executing
  <1>6. cur[w] \in RunsOf(s) /\ Locked(s)
    <2>1. cur[w] \in RunsOf(s)
      BY <1>2 DEF Holds
    <2> QED
      BY <1>2, <2>1, Locking
  <1>7. /\ DOMAIN runs' = DOMAIN runs
        /\ \A r \in DOMAIN runs : /\ runs'[r].snapshot = runs[r].snapshot
                                 /\ runs'[r].extractor = runs[r].extractor
    <2>1. Work(w) \/ WorkerFault(w)
      BY DEF Finish, Work, WorkerFault
    <2> QED
      BY <2>1, OneMoves DEF HeldInv
  <1>8. RunsOf(s)' = RunsOf(s) /\ RecordedSame(s)
    BY <1>2, <1>7 DEF RunsOf, RecordedSame, Recorded
  <1>9. Projection(s)' = Projection(s)
    BY <1>8, ProjectionSame DEF HeldInv, DataTypes
  <1>10. DirKept(s)'
    BY <1>2, <1>5 DEF DirKept
  <1>11. Loaded(s)'
    <2>1. \A r \in todo[w] : Known(w, r)'
      BY <1>1, <1>2, <1>4, <1>7 DEF SyncAt, Loaded, Working, Known, Holds, RunsOf
    <2> QED
      BY <1>1, <1>2, <1>3, <1>4, <2>1 DEF SyncAt, Loaded, Executing
  <1>12. ASSUME s \notin disturbed PROVE Followed(s)'
    <2>1. Followed(s) /\ Deleting(s) = {}
      BY <1>1, <1>6, <1>12, LockExcludes DEF SyncAt, Followed
    <2>2. Deleting(s)' = {}
      BY <1>2, <2>1 DEF Deleting
    <2>3. index'[s] = Index(title[s], Projection(s))
      BY <1>2, <2>1 DEF Followed, WorkerKnows, InSync
    <2>4. Exclusive(s)' /\ RequestKnows(s)' /\ WorkerKnows(s)'
      BY <1>2, <1>3, <1>4, <2>2 DEF Exclusive, RequestKnows, WorkerKnows
    <2>5. Settled(s)' /\ TornHeld(s)'
      BY <1>2, <1>9, <2>3 DEF Settled, InSync, TornHeld, Index, Torn
    <2>6. Indexed(s)'
      <3>1. \A r \in Recorded(s) : runs[r].extractor \in DOMAIN Projection(s)
        BY ProjectionIs
      <3> QED
        BY <1>8, <2>3, <3>1 DEF Indexed, RecordedSame, Index, NoIndex
    <2>7. Saved(s)'
      BY <1>2, <1>8, <2>1, <2>2 DEF Followed, Saved, RecordedSame
    <2> QED
      BY <2>4, <2>5, <2>6, <2>7 DEF Followed
  <1> QED
    BY <1>2, <1>10, <1>11, <1>12 DEF SyncAt

\* A failure that keeps index.json from following the tables disturbs the
\* snapshot: what is owed is the directory and the extractors' names.
LEMMA FaultSync ==
    ASSUME OneWorker, HeldInv, Holds, DataTypes, Sync, NEW w \in Workers,
           TitleFails(w) \/ IndexFails(w) \/ WriteFails(w),
           NEW s \in snapshots, wsnap[w] = s
    PROVE  SyncAt(s)'
  <1>1. SyncAt(s)
    BY DEF Sync
  <1>2. /\ UNCHANGED <<runs, wsnap, pc, todo, cur, dirs>>
        /\ s \in disturbed'
        /\ pc[w] = "indexing"
    BY DEF TitleFails, SaveTitle, IndexFails, WriteFails, At, Disturb, vars, tables, memory, disk
  <1>3. \A v \in Workers : v = w
    BY DEF OneWorker
  <1>4. job'[w].names = job[w].names
    BY DEF TitleFails, SaveTitle, IndexFails, WriteFails, DataTypes, JobsOK, Job
  <1>5. DirKept(s)'
    <2>1. s \in dirs
      BY <1>1, <1>2 DEF SyncAt, DirKept, Working
    <2> QED
      BY <1>2, <2>1 DEF DirKept
  <1>6. Loaded(s)'
    <2>1. /\ \A r \in todo[w] : Known(w, r)
          /\ Known(w, cur[w])
      BY <1>1, <1>2 DEF SyncAt, Loaded, Working, Executing
    <2> QED
      BY <1>2, <1>3, <1>4, <2>1 DEF Loaded, Known
  <1> QED
    BY <1>2, <1>5, <1>6 DEF SyncAt

LEMMA WorkerSync ==
    ASSUME OneWorker, HeldInv, Holds, HeldInv', Holds', DataTypes, DataTypes', Sync,
           NEW w \in Workers, DWork(w) \/ TitleFails(w) \/ IndexFails(w) \/ WriteFails(w)
    PROVE  Sync'
  <1>1. snapshots' = snapshots
    BY WorkerSteps, OneMoves DEF HeldInv, vars, tables
  <1> SUFFICES ASSUME NEW s \in snapshots PROVE SyncAt(s)'
    BY <1>1 DEF Sync
  <1>2. CASE wsnap'[w] # s
    BY <1>2, WorkerElsewhere
  <1>3. CASE wsnap'[w] = s
    <2>1. CASE Load(w) \/ Mkdir(w) \/ List(w) \/ Bookkeeping(w)
      BY <1>1, <1>3, <2>1, LocksNext, QueueSync
    <2>2. CASE \/ Extracted(w) \/ Record(w) \/ FindTitle(w) \/ TitleSaved(w)
               \/ ReadOutputs(w) \/ Truncate(w) \/ Fill(w)
      <3>1. wsnap' = wsnap
        BY <2>2 DEF Extracted, Extract, Record, FindTitle, TitleSaved, SaveTitle, ReadOutputs, Truncate,
           Fill, vars, memory
      <3> QED
        BY <1>3, <2>2, <3>1, InnerSync
    <2>3. CASE Finish(w)
      <3>1. wsnap' = wsnap
        BY <2>3 DEF Finish, FinishRun, FinishFails
      <3> QED
        BY <1>3, <2>3, <3>1, FinishSync
    <2>4. CASE Leave(w)
      <3>1. wsnap'[w] = None
        BY <2>4 DEF Leave, LoadFails, LoopDone, Forget, HeldInv, TypeOK, MemoryOK
      <3> QED
        BY <1>3, <3>1, SnapshotsNumbered DEF HeldInv
    <2>5. CASE TitleFails(w) \/ IndexFails(w) \/ WriteFails(w)
      <3>1. wsnap' = wsnap
        BY <2>5 DEF TitleFails, SaveTitle, IndexFails, WriteFails, vars, memory
      <3> QED
        BY <1>3, <2>5, <3>1, FaultSync
    <2> QED
      BY <2>1, <2>2, <2>3, <2>4, <2>5 DEF DWork
  <1> QED
    BY <1>2, <1>3

----------------------------------------------------------------------------
(* What the index shows.                                                   *)

LEMMA SyncInit == DInit => Base /\ Sync
  <1> SUFFICES ASSUME DInit PROVE Base /\ Sync
    OBVIOUS
  <1>1. HeldInv /\ DataTypes
    BY InitHeldInv, TypesInit DEF DInit
  <1>2. snapshots = {}
    BY DEF DInit, Init
  <1> QED
    BY <1>1, <1>2 DEF Base, Holds, Sync

LEMMA SyncStep ==
    ASSUME OneWorker, Base, Sync, [DNext]_dvars
    PROVE  Base' /\ Sync'
  <1>1. [Next]_vars
    BY StepIsQueueStep
  <1>2. HeldInv' /\ Holds' /\ DataTypes'
    BY <1>1, NextHeldInv, HoldsStep, TypesStep DEF Base, HeldInv, DataTypes
  <1>3. CASE \E w \in Workers :
               DWork(w) \/ TitleFails(w) \/ IndexFails(w) \/ WriteFails(w)
    BY <1>2, <1>3, WorkerSync DEF Base
  <1>4. CASE \E q \in Requests : DeleteFile(q) \/ CutShort(q)
    BY <1>2, <1>4, RequestSync DEF Base
  <1>5. CASE \E s \in SnapshotIds : Delete(s) \/ RemoveEntry(s) \/ RemoveSnapshot(s) \/ RemoveFails(s)
    BY <1>2, <1>5, DeletionSync DEF Base
  <1>6. CASE Submit
    BY <1>2, <1>6, SubmitSync DEF Base
  <1>7. CASE ProcessStops \/ ProcessStarts
    BY <1>2, <1>7, ProcessSync DEF Base
  <1>8. CASE UNCHANGED dvars
    <2>1. UNCHANGED vars /\ UNCHANGED <<title, outputs, dirs, files, index, job, req, removing, disturbed>>
      BY <1>8 DEF dvars, data, disk, requests
    <2> SUFFICES ASSUME NEW s \in snapshots PROVE SyncAt(s)'
      BY <1>2, <2>1 DEF Sync, Base, vars, tables
    <2>2. RowsSame(s) /\ DiskSame(s) /\ RequestsSame(s) /\ WorkersSame(s)
      BY <2>1 DEF vars, tables, memory, RowsSame, RecordedSame, Recorded, RunsOf, DiskSame, RequestsSame,
         Deleting, WorkersSame
    <2> QED
      BY <2>2, Elsewhere DEF Base, Sync
  <1> QED
    BY <1>2, <1>3, <1>4, <1>5, <1>6, <1>7, <1>8 DEF Base, DNext, DFault

LEMMA SyncCorrect ==
    ASSUME OneWorker
    PROVE  DSpec => [](Base /\ Sync)
  <1>1. Base /\ Sync /\ [DNext]_dvars => (Base /\ Sync)'
    BY SyncStep
  <1> QED
    BY <1>1, SyncInit, PTL DEF DSpec

LEMMA QuietInSync ==
    ASSUME Sync, NEW s \in SnapshotIds, Quiet(s), s \notin disturbed
    PROVE  s \in snapshots /\ Followed(s) /\ Deleting(s) = {} /\ InSync(s)
  <1>1. s \in snapshots /\ Followed(s)
    BY DEF Quiet, Sync, SyncAt
  <1>2. Deleting(s) = {}
    BY DEF Quiet, Deleting
  <1>3. Finished(s) # {} /\ ~Locked(s)
    BY DEF Quiet, Finished, Locked, NonTerminal
  <1> QED
    BY <1>1, <1>2, <1>3 DEF Followed, Settled

\* With one worker, index.json shows what the tables hold whenever a snapshot's
\* runs are done, whatever crashes, statements that fail and reruns there were,
\* unless a delete-file request overlapped with other work on the snapshot or
\* was cut short, or saving its title or writing index.json failed.
THEOREM IndexFollows ==
    ASSUME OneWorker
    PROVE  DSpec => []IndexInSync
  <1>1. Sync => IndexInSync
    BY QuietInSync DEF IndexInSync
  <1> QED
    BY <1>1, SyncCorrect, PTL

\* A finished run's output is in the index, or the index is being written.
THEOREM FinishedIndexed ==
    ASSUME OneWorker
    PROVE  DSpec => []FinishedIsIndexed
  <1>1. Base /\ Sync => FinishedIsIndexed
    <2> SUFFICES ASSUME Base, Sync, NEW r \in DOMAIN outputs, ~NonTerminal(r),
                        runs[r].snapshot \notin disturbed, Deleting(runs[r].snapshot) = {}
                 PROVE  LET s == runs[r].snapshot
                        IN  \/ index[s] = Torn
                            \/ index[s] # NoIndex /\ runs[r].extractor \in DOMAIN index[s].latest
      BY DEF FinishedIsIndexed
    <2> DEFINE s == runs[r].snapshot
    <2>1. r \in DOMAIN runs
      BY DEF Base, DataTypes, OutputsOK
    <2>2. s \in snapshots
      BY <2>1 DEF Base, HeldInv, TypeOK
    <2>3. r \in Recorded(s) \cap Finished(s)
      BY <2>1 DEF Recorded, Finished, RunsOf
    <2>4. Indexed(s)
      BY <2>2 DEF Sync, SyncAt, Followed
    <2> HIDE DEF s
    <2> QED
      BY <2>3, <2>4 DEF Indexed, s
  <1> QED
    BY <1>1, SyncCorrect, PTL

\* A torn index.json is left only where a running row or a delete-file request
\* says that it is not yet written.
THEOREM TornIsLocked ==
    ASSUME OneWorker
    PROVE  DSpec => []TornOnlyWhileLocked
  <1>1. Sync => TornOnlyWhileLocked
    BY DEF Sync, SyncAt, Followed, TornHeld, TornOnlyWhileLocked
  <1> QED
    BY <1>1, SyncCorrect, PTL

\* What the index says succeeded is on disk.
THEOREM FilesAreThere ==
    ASSUME OneWorker
    PROVE  DSpec => []NoDanglingFile
  <1>1. Base /\ Sync => NoDanglingFile
    <2> SUFFICES ASSUME Base, Sync, NEW s \in SnapshotIds, Quiet(s), s \notin disturbed,
                        NEW e \in DOMAIN index[s].latest, index[s].latest[e] = "succeeded"
                 PROVE  e \in DOMAIN files[s]
      BY DEF NoDanglingFile
    <2>1. Followed(s) /\ Deleting(s) = {} /\ index[s] = Index(title[s], Projection(s))
      BY QuietInSync DEF InSync
    <2>2. index[s].latest = Projection(s)
      BY <2>1 DEF Index
    <2> DEFINE r == Last(By(s, e))
    <2>3. e \in DOMAIN Projection(s) /\ Projection(s)[e] = "succeeded"
      BY <2>2
    <2>4. r \in Recorded(s) /\ runs[r].extractor = e /\ outputs[r] = "succeeded"
      BY <2>3, ProjectionValue DEF By, Base, HeldInv, DataTypes
    <2> HIDE DEF r
    <2> QED
      BY <2>1, <2>4 DEF Followed, Saved
  <1> QED
    BY <1>1, SyncCorrect, PTL
=============================================================================
