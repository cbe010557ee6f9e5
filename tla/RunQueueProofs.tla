--------------------------- MODULE RunQueueProofs ---------------------------
(***************************************************************************)
(* Theorems about RunQueue, for any number of snapshots, runs, extractors  *)
(* and faults.  Type correctness holds as it is; the snapshot lock and the *)
(* order in which runs start hold with one worker, which is what server.Run*)
(* starts, as long as no FinishRun (and, for the order, no StartRun)       *)
(* statement fails.  What several workers guarantee all the same is in     *)
(* OnlyForward, ClaimExclusive and RunningHasWorker.                       *)
(***************************************************************************)
EXTENDS RunQueue, TLAPS

Working(w)   == pc[w] \in {"loop", "exec", "hung", "indexing"}
Executing(w) == pc[w] \in {"exec", "hung", "indexing"}

----------------------------------------------------------------------------
(* What the statements do to the table of runs.                            *)

\* A function is typed by its values.
LEMMA FunctionType ==
    ASSUME NEW f, NEW S, f = [q \in DOMAIN f |-> f[q]],
           \A q \in DOMAIN f : f[q] \in S
    PROVE  f \in [DOMAIN f -> S]
  OBVIOUS

\* An UPDATE of one row's status changes that field of that row alone.
LEMMA SetStatusEffect ==
    ASSUME TablesOK, NEW r \in DOMAIN runs, NEW st \in Status, SetStatus(r, st)
    PROVE  /\ DOMAIN runs' = DOMAIN runs
           /\ runs' \in [DOMAIN runs' -> RunRow]
           /\ runs'[r] = [runs[r] EXCEPT !.status = st]
           /\ \A q \in DOMAIN runs : q # r => runs'[q] = runs[q]
           /\ \A q \in DOMAIN runs : runs'[q].snapshot = runs[q].snapshot
           /\ runs'[r].status = st
  <1>1. runs[r] \in RunRow
    BY DEF TablesOK
  <1>2. [runs[r] EXCEPT !.status = st] \in RunRow
    BY <1>1 DEF RunRow
  <1>3. runs' = [runs EXCEPT ![r] = [runs[r] EXCEPT !.status = st]]
    BY DEF SetStatus
  <1>4. [runs[r] EXCEPT !.status = st].snapshot = runs[r].snapshot
    BY <1>1 DEF RunRow
  <1>5. [runs[r] EXCEPT !.status = st].status = st
    BY <1>1 DEF RunRow
  <1> QED
    BY <1>1, <1>2, <1>3, <1>4, <1>5 DEF TablesOK

\* The handlers leave the rows that stay as they were, and add only pending
\* rows with ids never used before.
Grows ==
    /\ lastRun' >= lastRun
    /\ \A q \in DOMAIN runs' \cap DOMAIN runs : runs'[q] = runs[q]
    /\ \A q \in DOMAIN runs' \ DOMAIN runs :
         q > lastRun /\ runs'[q].status = "pending"

\* A batch insert grows the table and keeps it well-typed.
LEMMA InsertEffect ==
    ASSUME TablesOK, NEW s \in SnapshotIds, NEW names, InsertRows(s, names),
           Len(names) \in Nat,
           \A i \in 1..Len(names) : names[i] \in Extractors
    PROVE  /\ Grows
           /\ lastRun' \in 0..MaxRuns
           /\ DOMAIN runs' \subseteq 1..lastRun'
           /\ runs' \in [DOMAIN runs' -> RunRow]
           /\ \A q \in DOMAIN runs' \ DOMAIN runs :
                runs'[q].snapshot = s /\ s \in snapshots
  <1>1. CASE s \notin snapshots
    BY <1>1 DEF InsertRows, TablesOK, Grows
  <1>2. CASE s \in snapshots
    <2>1. /\ lastRun' = lastRun + Len(names)
          /\ lastRun' <= MaxRuns
          /\ DOMAIN runs' = DOMAIN runs \cup (lastRun + 1)..lastRun'
          /\ \A q \in DOMAIN runs : runs'[q] = runs[q]
          /\ \A q \in DOMAIN runs' \ DOMAIN runs :
               runs'[q] = [snapshot  |-> s,
                           extractor |-> names[q - lastRun],
                           status    |-> "pending"]
      BY <1>2 DEF InsertRows
    <2>2. \A q \in DOMAIN runs' \ DOMAIN runs : q - lastRun \in 1..Len(names)
      BY <2>1 DEF TablesOK
    <2>3. ASSUME NEW q \in DOMAIN runs' \ DOMAIN runs
          PROVE  runs'[q] \in RunRow
      <3>1. names[q - lastRun] \in Extractors
        BY <2>2
      <3>2. "pending" \in Status
        BY DEF Status
      <3>3. [snapshot |-> s, extractor |-> names[q - lastRun], status |-> "pending"]
              \in RunRow
        BY <3>1, <3>2 DEF RunRow
      <3> QED
        BY <2>1, <3>3
    <2>4. \A q \in DOMAIN runs : runs'[q] \in RunRow
      BY <2>1 DEF TablesOK
    <2>5. runs' = [q \in DOMAIN runs' |-> runs'[q]]
      BY <1>2 DEF InsertRows
    <2>6. runs' \in [DOMAIN runs' -> RunRow]
      BY <2>3, <2>4, <2>5, FunctionType
    <2>7. ASSUME NEW q \in DOMAIN runs' \ DOMAIN runs
          PROVE  runs'[q].snapshot = s /\ runs'[q].status = "pending"
      <3>1. runs'[q] = [snapshot  |-> s,
                        extractor |-> names[q - lastRun],
                        status    |-> "pending"]
        BY <2>1
      <3> QED
        BY <3>1
    <2>8. lastRun' >= lastRun /\ lastRun' \in 0..MaxRuns
      BY <2>1 DEF TablesOK
    <2>9. DOMAIN runs' \subseteq 1..lastRun'
      BY <2>1, <2>8 DEF TablesOK
    <2>10. \A q \in DOMAIN runs' \ DOMAIN runs : q > lastRun
      BY <2>1 DEF TablesOK
    <2> QED
      BY <1>2, <2>1, <2>6, <2>7, <2>8, <2>9, <2>10 DEF Grows
  <1> QED
    BY <1>1, <1>2

\* The names a process can enqueue are extractor names.
LEMMA RegisteredExtractors ==
    ASSUME pipeline \in Pipelines
    PROVE  /\ Len(pipeline) \in Nat
           /\ Registered \subseteq Extractors
           /\ \A i \in 1..Len(pipeline) : pipeline[i] \in Extractors
  BY ConstantsAssumption DEF Registered, Extractors

\* Every statement of the handlers keeps the tables well-typed.
LEMMA HandlersEffect ==
    ASSUME TypeOK, Handlers
    PROVE  TypeOK' /\ Grows /\ UNCHANGED <<pc, memory>>
  <1> USE ConstantsAssumption DEF TypeOK
  <1>1. CASE CreateSnapshot
    BY <1>1 DEF CreateSnapshot, Grows, TablesOK, MemoryOK, memory, SnapshotIds
  <1>2. ASSUME NEW s \in SnapshotIds, InsertPendingRuns(s)
        PROVE  TypeOK' /\ Grows /\ UNCHANGED <<pc, memory>>
    <2>1. InsertRows(s, pipeline)
      BY <1>2 DEF InsertPendingRuns
    <2>2. /\ Grows
          /\ lastRun' \in 0..MaxRuns
          /\ DOMAIN runs' \subseteq 1..lastRun'
          /\ runs' \in [DOMAIN runs' -> RunRow]
          /\ \A q \in DOMAIN runs' \ DOMAIN runs :
               runs'[q].snapshot = s /\ s \in snapshots
      BY <2>1, InsertEffect, RegisteredExtractors
    <2> QED
      BY <1>2, <2>2
      DEF InsertPendingRuns, TablesOK, MemoryOK, memory, Grows
  <1>3. ASSUME NEW s \in SnapshotIds, EnqueueFails(s)
        PROVE  TypeOK' /\ Grows /\ UNCHANGED <<pc, memory>>
    BY <1>3 DEF EnqueueFails, Fault, tables, memory, TablesOK, MemoryOK, Grows
  <1>4. ASSUME NEW s \in SnapshotIds, DeleteSnapshot(s)
        PROVE  TypeOK' /\ Grows /\ UNCHANGED <<pc, memory>>
    <2>1. /\ DOMAIN runs' = DOMAIN runs \ RunsOf(s)
          /\ \A q \in DOMAIN runs' : runs'[q] = runs[q]
          /\ runs' = [q \in DOMAIN runs' |-> runs'[q]]
      BY <1>4 DEF DeleteSnapshot
    <2>2. runs' \in [DOMAIN runs' -> RunRow]
      BY <2>1, FunctionType DEF TablesOK
    <2> QED
      BY <1>4, <2>1, <2>2
      DEF DeleteSnapshot, RunsOf, TablesOK, MemoryOK, memory, Grows
  <1>5. ASSUME NEW s \in SnapshotIds, NEW e \in Extractors, Rerun(s, e)
        PROVE  TypeOK' /\ Grows /\ UNCHANGED <<pc, memory>>
    <2>1. InsertRows(s, <<e>>)
      BY <1>5 DEF Rerun
    <2>2. Len(<<e>>) = 1 /\ <<e>>[1] = e
      OBVIOUS
    <2>3. \A i \in 1..Len(<<e>>) : <<e>>[i] \in Extractors
      BY <2>2
    <2>4. /\ Grows
          /\ lastRun' \in 0..MaxRuns
          /\ DOMAIN runs' \subseteq 1..lastRun'
          /\ runs' \in [DOMAIN runs' -> RunRow]
          /\ \A q \in DOMAIN runs' \ DOMAIN runs :
               runs'[q].snapshot = s /\ s \in snapshots
      BY <2>1, <2>2, <2>3, InsertEffect
    <2> QED
      BY <1>5, <2>4 DEF Rerun, TablesOK, MemoryOK, memory, Grows
  <1> QED
    BY <1>1, <1>2, <1>3, <1>4, <1>5 DEF Handlers

----------------------------------------------------------------------------
(* Type correctness.                                                       *)

LEMMA InitTypeOK == Init => TypeOK
  BY ConstantsAssumption DEF Init, TypeOK, TablesOK, MemoryOK, PC, RunIds, None

\* A status update is all the worker ever does to the tables.
LEMMA StatusStepTypeOK ==
    ASSUME TypeOK, NEW r \in DOMAIN runs, NEW st \in Status, SetStatus(r, st),
           UNCHANGED <<snapshots, lastSnapshot, lastRun, pipeline, adding, faults>>,
           MemoryOK'
    PROVE  TypeOK'
  BY SetStatusEffect DEF TypeOK, TablesOK

LEMMA WorkTypeOK ==
    ASSUME TypeOK, NEW w \in Workers, Work(w)
    PROVE  TypeOK'
  <1> USE DEF TypeOK
  <1>1. CASE ClaimNextSnapshot(w)
    <2>1. PICK r \in DOMAIN runs :
            /\ SetStatus(r, "running")
            /\ wsnap' = [wsnap EXCEPT ![w] = runs[r].snapshot]
      BY <1>1 DEF ClaimNextSnapshot
    <2>2. runs[r].snapshot \in SnapshotIds
      BY DEF TablesOK, RunRow
    <2>3. MemoryOK'
      BY <1>1, <2>1, <2>2 DEF ClaimNextSnapshot, Goto, MemoryOK, PC
    <2> QED
      BY <1>1, <2>1, <2>3, StatusStepTypeOK DEF ClaimNextSnapshot, Status
  <1>2. CASE LoadSnapshot(w)
    BY <1>2 DEF LoadSnapshot, Goto, tables, memory, TablesOK, MemoryOK, PC
  <1>3. CASE SnapshotGone(w)
    BY <1>3 DEF SnapshotGone, Goto, Forget, tables, TablesOK, MemoryOK, PC
  <1>4. CASE ListRuns(w)
    <2> DEFINE T == {r \in RunsOf(wsnap[w]) : NonTerminal(r)}
               H == {r \in RunsOf(wsnap[w]) : Running(r)}
    <2>1. T \in SUBSET RunIds /\ H \in SUBSET RunIds
      <3>1. DOMAIN runs \subseteq RunIds
        BY ConstantsAssumption DEF TablesOK, RunIds
      <3> QED
        BY <3>1 DEF RunsOf
    <2>2. /\ todo' = [todo EXCEPT ![w] = T]
          /\ held' = [held EXCEPT ![w] = H]
          /\ pc' = [pc EXCEPT ![w] = "loop"]
          /\ UNCHANGED <<snapshots, lastSnapshot, runs, lastRun, pipeline,
                         adding, wsnap, cur, faults>>
      BY <1>4 DEF ListRuns, Goto, tables
    <2> HIDE DEF T, H
    <2>3. MemoryOK'
      BY <2>1, <2>2 DEF MemoryOK, PC
    <2> QED
      BY <2>2, <2>3 DEF TablesOK
  <1>5. CASE RunHeld(w)
    <2>1. PICK r \in todo[w] : Take(w, r) /\ Execute(w, r)
      BY <1>5 DEF RunHeld
    <2>2. MemoryOK'
      BY <1>5, <2>1 DEF RunHeld, Take, Execute, Goto, MemoryOK, PC
    <2> QED
      BY <1>5, <2>2 DEF RunHeld, tables, TablesOK
  <1>6. CASE StartRun(w)
    <2>1. PICK r \in todo[w] \ held[w] :
            Pending(r) /\ SetStatus(r, "running") /\ Take(w, r) /\ Execute(w, r)
      BY <1>6 DEF StartRun
    <2>2. MemoryOK'
      BY <1>6, <2>1 DEF StartRun, Take, Execute, Goto, MemoryOK, PC
    <2> QED
      BY <1>6, <2>1, <2>2, StatusStepTypeOK DEF StartRun, Pending, Status
  <1>7. CASE SkipRun(w)
    BY <1>7 DEF SkipRun, Take, tables, TablesOK, MemoryOK, PC
  <1>8. CASE Extract(w)
    BY <1>8 DEF Extract, Goto, tables, memory, TablesOK, MemoryOK, PC
  <1>9. CASE FinishRun(w)
    <2>1. MemoryOK'
      BY <1>9 DEF FinishRun, Goto, MemoryOK, PC
    <2>2. CASE cur[w] \notin DOMAIN runs
      BY <1>9, <2>1, <2>2 DEF FinishRun, TablesOK
    <2>3. CASE cur[w] \in DOMAIN runs
      <3>1. PICK st \in Outcomes(cur[w]) : SetStatus(cur[w], st)
        BY <1>9, <2>3 DEF FinishRun
      <3>2. st \in Status
        BY ConstantsAssumption DEF Outcomes, Status
      <3> QED
        BY <1>9, <2>1, <2>3, <3>1, <3>2, StatusStepTypeOK DEF FinishRun
    <2> QED
      BY <2>2, <2>3
  <1>10. CASE LoopDone(w)
    BY <1>10 DEF LoopDone, Goto, Forget, tables, TablesOK, MemoryOK, PC
  <1> QED
    BY <1>1, <1>2, <1>3, <1>4, <1>5, <1>6, <1>7, <1>8, <1>9, <1>10 DEF Work

LEMMA FaultTypeOK ==
    ASSUME TypeOK,
           \/ \E w \in Workers : WorkerFault(w)
           \/ Crash
           \/ Restart
    PROVE  TypeOK'
  <1> USE ConstantsAssumption DEF TypeOK, Fault, TablesOK, MemoryOK, tables
  <1>1. ASSUME NEW w \in Workers, LoadFails(w) PROVE TypeOK'
    BY <1>1 DEF LoadFails, Goto, Forget, PC
  <1>2. ASSUME NEW w \in Workers, StartFails(w) PROVE TypeOK'
    BY <1>2 DEF StartFails, Take
  <1>3. ASSUME NEW w \in Workers, ExtractorHangs(w) PROVE TypeOK'
    BY <1>3 DEF ExtractorHangs, Goto, memory, PC
  <1>4. ASSUME NEW w \in Workers, FinishFails(w) PROVE TypeOK'
    BY <1>4 DEF FinishFails, Goto, PC
  <1>5. CASE Crash
    BY <1>5 DEF Crash, PC, RunIds
  <1>6. CASE Restart
    BY <1>6 DEF Restart, memory, PC
  <1> QED
    BY <1>1, <1>2, <1>3, <1>4, <1>5, <1>6 DEF WorkerFault

LEMMA NextTypeOK == TypeOK /\ [Next]_vars => TypeOK'
  <1> SUFFICES ASSUME TypeOK, [Next]_vars PROVE TypeOK'
    OBVIOUS
  <1>1. CASE UNCHANGED vars
    BY <1>1 DEF vars, tables, memory, TypeOK, TablesOK, MemoryOK
  <1>2. CASE Next
    BY <1>2, HandlersEffect, WorkTypeOK, FaultTypeOK DEF Next
  <1> QED
    BY <1>1, <1>2

\* Whatever fails, every table and every worker's memory stays well-formed, and
\* no run outlives its snapshot (the foreign key with ON DELETE CASCADE).
THEOREM TypeCorrect == Spec => []TypeOK
  BY InitTypeOK, NextTypeOK, PTL DEF Spec

----------------------------------------------------------------------------
(* The snapshot lock.  SingleRunning is not inductive: it says nothing of  *)
(* the runs a worker remembers.  The strengthening relates the table to    *)
(* the worker's copy of it, at each place where the worker can be.         *)

OneWorker == \A v, w \in Workers : v = w

\* What the worker still has to look at: runs of its snapshot, none of them
\* newer than the table, and those it loaded as running still run.
LoadedOK ==
    \A w \in Workers : Working(w) =>
        /\ todo[w] \subseteq 1..lastRun
        /\ cur[w] \notin todo[w]
        /\ \A r \in todo[w] \cap DOMAIN runs :
             runs[r].snapshot = wsnap[w] /\ (r \in held[w] => Running(r))

\* There is a current run while one is executed, and at no other time.
CurOK ==
    \A w \in Workers :
        IF Executing(w) THEN cur[w] \in 1..lastRun ELSE cur[w] = None

\* Before the list is loaded, the running run is the one that was claimed: the
\* oldest of the snapshot's non-terminal runs.
ClaimOK ==
    \A w \in Workers : pc[w] \in {"claimed", "listing"} =>
        \A q, r \in RunsOf(wsnap[w]) : Running(r) /\ NonTerminal(q) => r <= q

\* Between two runs, a running run is first in the list and was loaded as such.
LoopOK ==
    \A w \in Workers : pc[w] = "loop" =>
        \A r \in RunsOf(wsnap[w]) : Running(r) =>
            r \in todo[w] \cap held[w] /\ \A q \in todo[w] : r <= q

\* While a run is executed, no other run of its snapshot is running.
ExecOK ==
    \A w \in Workers : Executing(w) =>
        \A r \in RunsOf(wsnap[w]) : Running(r) => r = cur[w]

\* Runs the worker did not load, because they came later, are newer than those
\* it did.
NewerLast ==
    \A w \in Workers : Working(w) =>
        \A q \in RunsOf(wsnap[w]) \ todo[w] : NonTerminal(q) /\ q # cur[w] =>
            \A r \in todo[w] : r < q

HeldInv  == TypeOK /\ LoadedOK /\ CurOK /\ LockHeldWhileIndexing
LockInv  == HeldInv /\ SingleRunning /\ ClaimOK /\ LoopOK /\ ExecOK
OrderInv == LockInv /\ NewerLast

\* SetStatusEffect, in terms of the predicates the invariants use.
LEMMA SetStatusPredicates ==
    ASSUME TablesOK, NEW r \in DOMAIN runs, NEW st \in Status, SetStatus(r, st)
    PROVE  /\ DOMAIN runs' = DOMAIN runs
           /\ \A q \in DOMAIN runs : runs'[q].snapshot = runs[q].snapshot
           /\ \A s : RunsOf(s)' = RunsOf(s)
           /\ \A q : q # r => /\ Running(q)' <=> Running(q)
                              /\ Pending(q)' <=> Pending(q)
           /\ Running(r)' <=> st = "running"
           /\ Pending(r)' <=> st = "pending"
  BY SetStatusEffect DEF RunsOf, Running, Pending

\* Grows, in terms of the predicates the invariants use.
LEMMA GrowsPredicates ==
    ASSUME TablesOK, TablesOK', Grows
    PROVE  /\ \A s : RunsOf(s)' \cap DOMAIN runs \subseteq RunsOf(s)
           /\ \A q : Running(q)' => q \in DOMAIN runs /\ Running(q)
           /\ \A q \in DOMAIN runs : Running(q) /\ q \in DOMAIN runs' => Running(q)'
           /\ \A q : NonTerminal(q)' =>
                \/ q \in DOMAIN runs /\ NonTerminal(q)
                \/ q \notin DOMAIN runs /\ q > lastRun
           /\ \A q \in DOMAIN runs' \cap DOMAIN runs :
                runs'[q].snapshot = runs[q].snapshot
           /\ \A q \in DOMAIN runs' : q <= lastRun => q \in DOMAIN runs
  <1>1. \A q \in DOMAIN runs' : q <= lastRun => q \in DOMAIN runs
    BY DEF Grows, TablesOK
  <1>2. \A q \in DOMAIN runs' \cap DOMAIN runs : runs'[q] = runs[q]
    BY DEF Grows
  <1>3. \A q \in DOMAIN runs' \ DOMAIN runs :
          q > lastRun /\ runs'[q].status = "pending"
    BY DEF Grows
  <1>4. \A s : RunsOf(s)' \cap DOMAIN runs \subseteq RunsOf(s)
    BY <1>2 DEF RunsOf
  <1>5. \A q : Running(q)' => q \in DOMAIN runs /\ Running(q)
    BY <1>2, <1>3 DEF Running
  <1>6. \A q : Pending(q)' => Pending(q) \/ (q \notin DOMAIN runs /\ q > lastRun)
    BY <1>2, <1>3 DEF Pending
  <1>7. \A q \in DOMAIN runs : Running(q) /\ q \in DOMAIN runs' => Running(q)'
    BY <1>2 DEF Running
  <1> QED
    BY <1>1, <1>2, <1>4, <1>5, <1>6, <1>7 DEF NonTerminal, Pending

\* The handlers do not disturb what the workers remember.
LEMMA HandlersHeldInv ==
    ASSUME HeldInv, Handlers
    PROVE  HeldInv'
  <1> USE DEF HeldInv
  <1>1. TypeOK' /\ Grows /\ UNCHANGED <<pc, memory>>
    BY HandlersEffect
  <1>2. LoadedOK'
    <2> SUFFICES ASSUME NEW w \in Workers, Working(w)'
                 PROVE  /\ todo'[w] \subseteq 1..lastRun'
                        /\ cur'[w] \notin todo'[w]
                        /\ \A r \in todo'[w] \cap DOMAIN runs' :
                             /\ runs'[r].snapshot = wsnap'[w]
                             /\ r \in held'[w] => Running(r)'
      BY DEF LoadedOK
    <2>1. /\ todo[w] \subseteq 1..lastRun
          /\ cur[w] \notin todo[w]
          /\ \A r \in todo[w] \cap DOMAIN runs :
               runs[r].snapshot = wsnap[w] /\ (r \in held[w] => Running(r))
      BY <1>1 DEF LoadedOK, Working, memory
    <2>2. lastRun \in Nat /\ lastRun' \in Nat /\ lastRun <= lastRun'
      BY <1>1 DEF TypeOK, TablesOK, Grows
    <2>3. UNCHANGED <<wsnap, todo, held, cur>>
      BY <1>1 DEF memory
    <2>4. ASSUME NEW r \in todo[w] \cap DOMAIN runs'
          PROVE  /\ runs'[r].snapshot = wsnap[w]
                 /\ r \in held[w] => Running(r)'
      <3>1. r \in DOMAIN runs
        BY <1>1, <2>1, GrowsPredicates DEF TypeOK
      <3> QED
        BY <1>1, <2>1, <3>1, GrowsPredicates DEF TypeOK
    <2> QED
      BY <2>1, <2>2, <2>3, <2>4
  <1>3. LockHeldWhileIndexing'
    <2> SUFFICES ASSUME NEW w \in Workers, Executing(w), cur[w] \in DOMAIN runs'
                 PROVE  Running(cur[w])' /\ runs'[cur[w]].snapshot = wsnap[w]
      BY <1>1 DEF LockHeldWhileIndexing, Executing, memory, Running
    <2>1. cur[w] <= lastRun
      BY DEF CurOK, TypeOK, TablesOK
    <2>2. cur[w] \in DOMAIN runs
      BY <1>1, <2>1, GrowsPredicates DEF TypeOK
    <2>3. Running(cur[w]) /\ runs[cur[w]].snapshot = wsnap[w]
      BY <2>2 DEF LockHeldWhileIndexing, Executing
    <2>4. runs'[cur[w]] = runs[cur[w]] /\ cur' = cur
      BY <1>1, <2>2 DEF Grows, memory
    <2> QED
      BY <2>3, <2>4 DEF Running
  <1>4. CurOK'
    <2>1. lastRun \in Nat /\ lastRun' \in Nat /\ lastRun <= lastRun'
      BY <1>1 DEF TypeOK, TablesOK, Grows
    <2> QED
      BY <1>1, <2>1 DEF CurOK, Executing, memory
  <1> QED
    BY <1>1, <1>2, <1>3, <1>4

\* A worker that is not in the middle of a list has nothing to remember.
LEMMA IdleHeldInv ==
    ASSUME OneWorker, TypeOK', NEW w \in Workers,
           pc'[w] \in {"idle", "claimed", "listing", "down"}, cur'[w] = None
    PROVE  HeldInv'
  BY DEF OneWorker, HeldInv, LoadedOK, CurOK, LockHeldWhileIndexing, Working,
         Executing

LEMMA WorkHeldInv ==
    ASSUME OneWorker, HeldInv, NEW w \in Workers, Work(w)
    PROVE  HeldInv'
  <1> USE DEF HeldInv
  <1>1. TypeOK'
    BY WorkTypeOK
  <1>2. /\ pc \in [Workers -> PC]
        /\ wsnap \in [Workers -> SnapshotIds \cup {None}]
        /\ todo \in [Workers -> SUBSET RunIds]
        /\ held \in [Workers -> SUBSET RunIds]
        /\ cur \in [Workers -> RunIds \cup {None}]
    BY DEF TypeOK, MemoryOK
  <1>3. lastRun \in Nat /\ DOMAIN runs \subseteq 1..lastRun /\ TablesOK
    BY DEF TypeOK, TablesOK
  <1>4. CASE ClaimNextSnapshot(w) \/ LoadSnapshot(w) \/ SnapshotGone(w) \/ LoopDone(w)
    <2>1. pc'[w] \in {"idle", "claimed", "listing", "down"}
      BY <1>2, <1>4
      DEF ClaimNextSnapshot, LoadSnapshot, SnapshotGone, LoopDone, Goto
    <2>2. cur'[w] = None
      BY <1>2, <1>4
      DEF ClaimNextSnapshot, LoadSnapshot, SnapshotGone, LoopDone, Forget,
          memory, CurOK, Executing
    <2> QED
      BY <1>1, <2>1, <2>2, IdleHeldInv
  <1>5. CASE ListRuns(w)
    <2>1. /\ todo'[w] = {r \in RunsOf(wsnap[w]) : NonTerminal(r)}
          /\ held'[w] = {r \in RunsOf(wsnap[w]) : Running(r)}
          /\ UNCHANGED <<runs, lastRun, wsnap, cur>>
      BY <1>2, <1>5 DEF ListRuns, tables
    <2>2. pc[w] = "listing" /\ pc'[w] = "loop"
      BY <1>2, <1>5 DEF ListRuns, Goto
    <2>3. cur[w] = None
      BY <2>2 DEF CurOK, Executing
    <2>4. todo'[w] \subseteq DOMAIN runs
      BY <2>1 DEF RunsOf
    <2>5. \A r \in todo'[w] \cap DOMAIN runs' :
            runs'[r].snapshot = wsnap'[w] /\ (r \in held'[w] => Running(r)')
      BY <2>1 DEF RunsOf, Running
    <2>6. cur'[w] = None /\ None \notin todo'[w]
      BY <1>3, <2>1, <2>3, <2>4 DEF None
    <2> QED
      BY <1>1, <1>3, <2>1, <2>2, <2>4, <2>5, <2>6
      DEF OneWorker, LoadedOK, CurOK, LockHeldWhileIndexing, Executing
  <1>6. CASE RunHeld(w)
    <2>1. PICK r \in todo[w] : r \in held[w] /\ Take(w, r) /\ Execute(w, r)
      BY <1>6 DEF RunHeld
    <2>2. /\ pc[w] = "loop" /\ pc'[w] = "exec" /\ cur'[w] = r
          /\ todo'[w] = todo[w] \ {r}
          /\ UNCHANGED <<runs, lastRun, wsnap, held>>
      BY <1>2, <1>6, <2>1 DEF RunHeld, Take, Execute, Goto, tables
    <2>3. /\ todo[w] \subseteq 1..lastRun
          /\ \A q \in todo[w] \cap DOMAIN runs :
               runs[q].snapshot = wsnap[w] /\ (q \in held[w] => Running(q))
      BY <2>2 DEF LoadedOK, Working
    <2>4. \A q : Running(q)' <=> Running(q)
      BY <2>2 DEF Running
    <2>5. LoadedOK'
      BY <2>2, <2>3, <2>4 DEF OneWorker, LoadedOK
    <2>6. LockHeldWhileIndexing'
      BY <2>1, <2>2, <2>3 DEF OneWorker, LockHeldWhileIndexing, Running
    <2> QED
      BY <1>1, <2>2, <2>3, <2>5, <2>6 DEF OneWorker, CurOK, Executing
  <1>7. CASE StartRun(w)
    <2>1. PICK r \in todo[w] \ held[w] :
            Pending(r) /\ SetStatus(r, "running") /\ Take(w, r) /\ Execute(w, r)
      BY <1>7 DEF StartRun
    <2>2. /\ pc[w] = "loop" /\ pc'[w] = "exec" /\ cur'[w] = r
          /\ todo'[w] = todo[w] \ {r}
          /\ UNCHANGED <<lastRun, wsnap, held>>
      BY <1>2, <1>7, <2>1 DEF StartRun, Take, Execute, Goto
    <2>3. /\ todo[w] \subseteq 1..lastRun
          /\ \A q \in todo[w] \cap DOMAIN runs :
               runs[q].snapshot = wsnap[w] /\ (q \in held[w] => Running(q))
      BY <2>2 DEF LoadedOK, Working
    <2>4. /\ DOMAIN runs' = DOMAIN runs /\ r \in DOMAIN runs
          /\ \A q \in DOMAIN runs : runs'[q].snapshot = runs[q].snapshot
          /\ \A q : q # r => (Running(q)' <=> Running(q))
          /\ Running(r)'
      BY <1>3, <2>1, SetStatusPredicates DEF Pending, Status
    <2>5. LoadedOK'
      BY <2>2, <2>3, <2>4 DEF OneWorker, LoadedOK
    <2>6. LockHeldWhileIndexing'
      BY <2>1, <2>2, <2>3, <2>4 DEF OneWorker, LockHeldWhileIndexing, Running
    <2> QED
      BY <1>1, <2>2, <2>3, <2>5, <2>6 DEF OneWorker, CurOK, Executing
  <1>8. CASE SkipRun(w)
    <2>1. /\ todo'[w] \subseteq todo[w]
          /\ pc[w] = "loop" /\ pc'[w] = "loop"
          /\ UNCHANGED <<runs, lastRun, wsnap, held, cur>>
      BY <1>2, <1>8 DEF SkipRun, Take, tables
    <2> QED
      BY <1>1, <2>1
      DEF OneWorker, LoadedOK, Working, CurOK, Executing, LockHeldWhileIndexing,
          Running
  <1>9. CASE Extract(w)
    <2>1. /\ pc[w] = "exec" /\ pc'[w] = "indexing"
          /\ UNCHANGED <<runs, lastRun, wsnap, todo, held, cur>>
      BY <1>2, <1>9 DEF Extract, Goto, tables, memory
    <2> QED
      BY <1>1, <2>1
      DEF OneWorker, LoadedOK, Working, CurOK, Executing, LockHeldWhileIndexing,
          Running
  <1>10. CASE FinishRun(w)
    <2>1. /\ pc[w] = "indexing" /\ pc'[w] = "loop"
          /\ cur'[w] = None
          /\ UNCHANGED <<lastRun, wsnap, todo, held>>
      BY <1>2, <1>10 DEF FinishRun, Goto
    <2>2. /\ DOMAIN runs' = DOMAIN runs
          /\ \A q \in DOMAIN runs : runs'[q].snapshot = runs[q].snapshot
          /\ \A q : q # cur[w] => (Running(q)' <=> Running(q))
      <3>1. CASE cur[w] \notin DOMAIN runs
        BY <1>10, <3>1 DEF FinishRun, Running
      <3>2. CASE cur[w] \in DOMAIN runs
        <4>1. PICK c \in DOMAIN runs : c = cur[w]
          BY <3>2
        <4>2. PICK st \in Outcomes(c) : SetStatus(c, st)
          BY <1>10, <4>1 DEF FinishRun
        <4>3. st \in Status
          BY ConstantsAssumption DEF Outcomes, Status
        <4> QED
          BY <1>3, <4>1, <4>2, <4>3, SetStatusPredicates
      <3> QED
        BY <3>1, <3>2
    <2>3. /\ todo[w] \subseteq 1..lastRun
          /\ cur[w] \notin todo[w]
          /\ \A q \in todo[w] \cap DOMAIN runs :
               runs[q].snapshot = wsnap[w] /\ (q \in held[w] => Running(q))
      BY <2>1 DEF LoadedOK, Working
    <2>4. None \notin todo[w]
      BY <1>3, <2>3 DEF None
    <2>5. LoadedOK'
      BY <2>1, <2>2, <2>3, <2>4 DEF OneWorker, LoadedOK
    <2> QED
      BY <1>1, <2>1, <2>5
      DEF OneWorker, CurOK, Executing, LockHeldWhileIndexing
  <1> QED
    BY <1>4, <1>5, <1>6, <1>7, <1>8, <1>9, <1>10 DEF Work

LEMMA FaultHeldInv ==
    ASSUME OneWorker, HeldInv,
           \/ \E w \in Workers : WorkerFault(w)
           \/ Crash
           \/ Restart
    PROVE  HeldInv'
  <1> USE DEF HeldInv
  <1>1. TypeOK'
    BY FaultTypeOK
  <1>2. PICK w \in Workers : WorkerFault(w) \/ Crash \/ Restart
    BY ConstantsAssumption
  <1>3. /\ pc \in [Workers -> PC]
        /\ cur \in [Workers -> RunIds \cup {None}]
        /\ todo \in [Workers -> SUBSET RunIds]
        /\ lastRun \in Nat
    BY DEF TypeOK, TablesOK, MemoryOK
  <1>4. CASE LoadFails(w) \/ Crash \/ Restart
    <2>1. pc'[w] \in {"idle", "down"}
      BY <1>3, <1>4 DEF LoadFails, Crash, Restart, Goto
    <2>2. CASE Restart
      <3>1. pc[w] = "down"
        BY <2>2 DEF Restart, Up, OneWorker
      <3> QED
        BY <1>1, <2>1, <2>2, <3>1, IdleHeldInv
        DEF Restart, memory, CurOK, Executing
    <2>3. CASE LoadFails(w) \/ Crash
      <3>1. cur'[w] = None
        BY <1>3, <2>3 DEF LoadFails, Crash, Forget
      <3> QED
        BY <1>1, <2>1, <3>1, IdleHeldInv
    <2> QED
      BY <1>4, <2>2, <2>3
  <1>5. CASE StartFails(w)
    <2>1. /\ todo'[w] \subseteq todo[w]
          /\ pc[w] = "loop" /\ pc'[w] = "loop"
          /\ UNCHANGED <<runs, lastRun, wsnap, held, cur>>
      BY <1>3, <1>5 DEF StartFails, Take, tables
    <2> QED
      BY <1>1, <2>1
      DEF OneWorker, LoadedOK, Working, CurOK, Executing, LockHeldWhileIndexing,
          Running
  <1>6. CASE ExtractorHangs(w)
    <2>1. /\ pc[w] = "exec" /\ pc'[w] = "hung"
          /\ UNCHANGED <<runs, lastRun, wsnap, todo, held, cur>>
      BY <1>3, <1>6 DEF ExtractorHangs, Goto, tables, memory
    <2> QED
      BY <1>1, <2>1
      DEF OneWorker, LoadedOK, Working, CurOK, Executing, LockHeldWhileIndexing,
          Running
  <1>7. CASE FinishFails(w)
    <2>1. /\ pc[w] = "indexing" /\ pc'[w] = "loop" /\ cur'[w] = None
          /\ UNCHANGED <<runs, lastRun, wsnap, todo, held>>
      BY <1>3, <1>7 DEF FinishFails, Goto, tables
    <2>2. None \notin todo[w]
      BY <1>3, <2>1 DEF LoadedOK, Working, None
    <2> QED
      BY <1>1, <2>1, <2>2
      DEF OneWorker, LoadedOK, Working, CurOK, Executing, LockHeldWhileIndexing,
          Running
  <1> QED
    BY <1>2, <1>4, <1>5, <1>6, <1>7 DEF WorkerFault

LEMMA InitHeldInv == Init => HeldInv
  BY InitTypeOK
  DEF Init, HeldInv, LoadedOK, CurOK, LockHeldWhileIndexing, Working, Executing

LEMMA NextHeldInv ==
    ASSUME OneWorker
    PROVE  HeldInv /\ [Next]_vars => HeldInv'
  <1> SUFFICES ASSUME HeldInv, [Next]_vars PROVE HeldInv'
    OBVIOUS
  <1>1. CASE UNCHANGED vars
    BY <1>1, NextTypeOK
    DEF vars, tables, memory, HeldInv, LoadedOK, CurOK, LockHeldWhileIndexing,
        Working, Executing, Running
  <1>2. CASE Next
    BY <1>2, HandlersHeldInv, WorkHeldInv, FaultHeldInv DEF Next
  <1> QED
    BY <1>1, <1>2

\* With one worker, and whatever fails, an extractor runs and index.json is
\* written only while the run it is for is "running" (ingest.go:277).
THEOREM LockHeld ==
    ASSUME OneWorker
    PROVE  Spec => []LockHeldWhileIndexing
  <1>1. HeldInv => LockHeldWhileIndexing
    BY DEF HeldInv
  <1> QED
    BY <1>1, InitHeldInv, NextHeldInv, PTL DEF Spec

----------------------------------------------------------------------------

LEMMA HandlersLockInv ==
    ASSUME LockInv, Handlers
    PROVE  LockInv'
  <1> USE DEF LockInv
  <1>1. HeldInv' /\ Grows /\ UNCHANGED <<pc, memory>>
    BY HandlersHeldInv, HandlersEffect DEF HeldInv
  <1>2. UNCHANGED <<pc, wsnap, todo, held, cur>>
    BY <1>1 DEF memory
  <1>3. /\ TablesOK /\ TablesOK'
        /\ lastRun \in Nat
        /\ DOMAIN runs \subseteq 1..lastRun /\ DOMAIN runs' \subseteq Nat
    BY <1>1 DEF HeldInv, TypeOK, TablesOK
  <1>4. /\ \A s : RunsOf(s)' \cap DOMAIN runs \subseteq RunsOf(s)
        /\ \A q : Running(q)' => q \in DOMAIN runs /\ Running(q)
        /\ \A q : NonTerminal(q)' =>
             \/ q \in DOMAIN runs /\ NonTerminal(q)
             \/ q \notin DOMAIN runs /\ q > lastRun
        /\ \A q \in DOMAIN runs' \cap DOMAIN runs :
             runs'[q].snapshot = runs[q].snapshot
    BY <1>1, <1>3, GrowsPredicates
  <1>5. SingleRunning'
    BY <1>4 DEF SingleRunning
  <1>6. ClaimOK'
    <2> SUFFICES ASSUME NEW w \in Workers, pc[w] \in {"claimed", "listing"},
                        NEW q \in RunsOf(wsnap[w])', NEW r \in RunsOf(wsnap[w])',
                        Running(r)', NonTerminal(q)'
                 PROVE  r <= q
      BY <1>2 DEF ClaimOK, RunsOf
    <2>1. r \in RunsOf(wsnap[w]) /\ Running(r)
      BY <1>2, <1>4
    <2>2. q \in DOMAIN runs => q \in RunsOf(wsnap[w]) /\ NonTerminal(q)
      BY <1>2, <1>3, <1>4
    <2>3. q \in Nat /\ r \in 1..lastRun
      BY <1>3, <2>1 DEF RunsOf
    <2> QED
      BY <1>3, <1>4, <2>1, <2>2, <2>3 DEF ClaimOK
  <1>7. LoopOK'
    <2> SUFFICES ASSUME NEW w \in Workers, pc[w] = "loop",
                        NEW r \in RunsOf(wsnap[w])', Running(r)'
                 PROVE  r \in todo[w] \cap held[w] /\ \A q \in todo[w] : r <= q
      BY <1>2 DEF LoopOK, RunsOf
    <2> QED
      BY <1>2, <1>4 DEF LoopOK
  <1>8. ExecOK'
    <2> SUFFICES ASSUME NEW w \in Workers, Executing(w),
                        NEW r \in RunsOf(wsnap[w])', Running(r)'
                 PROVE  r = cur[w]
      BY <1>2 DEF ExecOK, Executing, RunsOf
    <2> QED
      BY <1>2, <1>4 DEF ExecOK
  <1> QED
    BY <1>1, <1>5, <1>6, <1>7, <1>8

\* A worker that has let go of its snapshot: only the rows matter.
LEMMA IdleLockInv ==
    ASSUME OneWorker, LockInv, HeldInv', UNCHANGED runs, NEW w \in Workers,
           pc'[w] \in {"idle", "down"}
    PROVE  LockInv'
  BY DEF OneWorker, LockInv, SingleRunning, ClaimOK, LoopOK, ExecOK, Executing,
         Running

\* Claiming locks an unlocked snapshot, by its oldest pending run.
LEMMA ClaimLockInv ==
    ASSUME OneWorker, LockInv, NEW w \in Workers, ClaimNextSnapshot(w)
    PROVE  LockInv'
  <1> USE DEF LockInv
  <1>1. HeldInv'
    BY WorkHeldInv DEF Work
  <1>2. PICK c \in DOMAIN runs :
          /\ Oldest(c, Claimable)
          /\ SetStatus(c, "running")
          /\ wsnap' = [wsnap EXCEPT ![w] = runs[c].snapshot]
    BY DEF ClaimNextSnapshot
  <1>3. Pending(c) /\ ~Locked(runs[c].snapshot)
    BY <1>2 DEF Oldest, Claimable
  <1>4. /\ wsnap'[w] = runs[c].snapshot
        /\ pc'[w] = "claimed"
    BY <1>2 DEF HeldInv, TypeOK, MemoryOK, ClaimNextSnapshot, Goto
  <1>5. /\ DOMAIN runs' = DOMAIN runs
        /\ \A q \in DOMAIN runs : runs'[q].snapshot = runs[q].snapshot
        /\ \A s : RunsOf(s)' = RunsOf(s)
        /\ \A q : q # c => /\ Running(q)' <=> Running(q)
                           /\ Pending(q)' <=> Pending(q)
    BY <1>2, SetStatusPredicates DEF HeldInv, TypeOK, Status
  <1>6. \A q \in RunsOf(runs[c].snapshot) : ~Running(q)
    BY <1>3 DEF Locked
  <1>7. SingleRunning'
    <2> SUFFICES ASSUME NEW q \in DOMAIN runs, NEW r \in DOMAIN runs,
                        Running(q)', Running(r)', q # r,
                        runs[q].snapshot = runs[r].snapshot
                 PROVE  FALSE
      BY <1>5 DEF SingleRunning
    <2>1. CASE q # c /\ r # c
      BY <1>5, <2>1 DEF SingleRunning
    <2>2. CASE q = c
      BY <1>5, <1>6, <2>2 DEF RunsOf
    <2>3. CASE r = c
      BY <1>5, <1>6, <2>3 DEF RunsOf
    <2> QED
      BY <2>1, <2>2, <2>3
  <1>8. \A q, r \in RunsOf(runs[c].snapshot) :
          Running(r)' /\ NonTerminal(q)' => r <= q
    <2> SUFFICES ASSUME NEW q \in RunsOf(runs[c].snapshot),
                        NEW r \in RunsOf(runs[c].snapshot),
                        Running(r)', NonTerminal(q)'
                 PROVE  r <= q
      OBVIOUS
    <2>1. r = c
      BY <1>5, <1>6
    <2>2. CASE q = c
      BY <2>1, <2>2 DEF HeldInv, TypeOK, TablesOK
    <2>3. CASE q # c
      <3>1. Pending(q)
        BY <1>5, <1>6, <2>3 DEF NonTerminal
      <3>2. q \in Claimable
        BY <1>3, <3>1 DEF Claimable, RunsOf
      <3> QED
        BY <1>2, <2>1, <3>2 DEF Oldest
    <2> QED
      BY <2>2, <2>3
  <1>9. RunsOf(wsnap[w])' = RunsOf(runs[c].snapshot)
    BY <1>4, <1>5 DEF RunsOf
  <1>10. ClaimOK'
    BY <1>8, <1>9 DEF OneWorker, ClaimOK
  <1>11. LoopOK' /\ ExecOK'
    BY <1>4 DEF OneWorker, LoopOK, ExecOK, Executing
  <1> QED
    BY <1>1, <1>7, <1>10, <1>11

\* The loaded list holds every non-terminal run of the snapshot, so that its
\* first run is the one that was claimed.
LEMMA ListLockInv ==
    ASSUME OneWorker, LockInv, NEW w \in Workers, ListRuns(w)
    PROVE  LockInv'
  <1> USE DEF LockInv
  <1>1. HeldInv'
    BY WorkHeldInv DEF Work
  <1>2. /\ pc[w] = "listing" /\ pc'[w] = "loop"
        /\ todo'[w] = {r \in RunsOf(wsnap[w]) : NonTerminal(r)}
        /\ held'[w] = {r \in RunsOf(wsnap[w]) : Running(r)}
        /\ UNCHANGED <<runs, wsnap>>
    BY DEF HeldInv, TypeOK, MemoryOK, ListRuns, Goto, tables
  <1>3. \A q, r \in RunsOf(wsnap[w]) : Running(r) /\ NonTerminal(q) => r <= q
    BY <1>2 DEF ClaimOK
  <1>4. LoopOK'
    <2>1. \A r \in RunsOf(wsnap[w]) : Running(r) =>
            r \in todo'[w] \cap held'[w] /\ \A q \in todo'[w] : r <= q
      BY <1>2, <1>3 DEF NonTerminal
    <2>2. \A r : Running(r)' <=> Running(r)
      BY <1>2 DEF Running
    <2> QED
      BY <1>2, <2>1, <2>2 DEF OneWorker, LoopOK, RunsOf
  <1>5. SingleRunning' /\ ClaimOK' /\ ExecOK'
    BY <1>2 DEF OneWorker, SingleRunning, ClaimOK, ExecOK, Executing, Running
  <1> QED
    BY <1>1, <1>4, <1>5

\* Taking a run off the list to execute it.
LEMMA TakeLockInv ==
    ASSUME OneWorker, LockInv, NEW w \in Workers, RunHeld(w) \/ StartRun(w)
    PROVE  LockInv'
  <1> USE DEF LockInv
  <1>1. HeldInv'
    BY WorkHeldInv DEF Work
  <1>2. PICK c \in todo[w] :
          /\ Take(w, c) /\ Execute(w, c)
          /\ \/ c \in held[w] /\ UNCHANGED runs
             \/ c \notin held[w] /\ Pending(c) /\ SetStatus(c, "running")
    BY DEF RunHeld, StartRun, tables
  <1>3. /\ pc[w] = "loop" /\ pc'[w] = "exec" /\ cur'[w] = c
        /\ wsnap' = wsnap
        /\ \A q \in todo[w] : c <= q
        /\ todo[w] \subseteq Nat
    BY <1>2
    DEF RunHeld, StartRun, Take, Execute, Goto, Oldest, HeldInv, TypeOK,
        MemoryOK, RunIds
  <1>4. \A r \in RunsOf(wsnap[w]) : Running(r) => r = c /\ c \in held[w]
    <2> SUFFICES ASSUME NEW r \in RunsOf(wsnap[w]), Running(r)
                 PROVE  r = c /\ c \in held[w]
      OBVIOUS
    <2>1. r \in todo[w] \cap held[w] /\ r <= c
      BY <1>3 DEF LoopOK
    <2> QED
      BY <1>3, <2>1
  <1>5. /\ DOMAIN runs' = DOMAIN runs
        /\ \A q \in DOMAIN runs : runs'[q].snapshot = runs[q].snapshot
        /\ \A s : RunsOf(s)' = RunsOf(s)
        /\ \A q : q # c => (Running(q)' <=> Running(q))
    <2>1. CASE UNCHANGED runs
      BY <2>1 DEF RunsOf, Running
    <2>2. CASE c \notin held[w] /\ Pending(c) /\ SetStatus(c, "running")
      BY <2>2, SetStatusPredicates DEF Pending, Status, HeldInv, TypeOK
    <2> QED
      BY <1>2, <2>1, <2>2
  <1>6. SingleRunning'
    <2>1. CASE UNCHANGED runs
      BY <2>1 DEF SingleRunning, Running
    <2>2. CASE c \notin held[w] /\ Pending(c) /\ SetStatus(c, "running")
      <3> SUFFICES ASSUME NEW q \in DOMAIN runs, NEW r \in DOMAIN runs,
                          Running(q)', Running(r)', q # r,
                          runs[q].snapshot = runs[r].snapshot
                   PROVE  FALSE
        BY <1>5 DEF SingleRunning
      <3>1. runs[c].snapshot = wsnap[w]
        BY <1>3, <2>2 DEF HeldInv, LoadedOK, Working, Pending
      <3>2. \A p \in RunsOf(wsnap[w]) : ~Running(p)
        BY <1>4, <2>2
      <3>3. CASE q # c /\ r # c
        BY <1>5, <3>3 DEF SingleRunning
      <3>4. CASE q = c \/ r = c
        BY <1>5, <3>1, <3>2, <3>4 DEF RunsOf
      <3> QED
        BY <3>3, <3>4
    <2> QED
      BY <1>2, <2>1, <2>2
  <1>7. ExecOK'
    <2>1. \A r \in RunsOf(wsnap[w]) : Running(r)' => r = c
      BY <1>4, <1>5
    <2>2. RunsOf(wsnap[w])' = RunsOf(wsnap[w])
      BY <1>3, <1>5 DEF RunsOf
    <2> QED
      BY <1>3, <2>1, <2>2 DEF OneWorker, ExecOK
  <1>8. ClaimOK' /\ LoopOK'
    BY <1>3 DEF OneWorker, ClaimOK, LoopOK
  <1> QED
    BY <1>1, <1>6, <1>7, <1>8

\* A run taken off the list without being executed was not running.
LEMMA SkipLockInv ==
    ASSUME OneWorker, LockInv, NEW w \in Workers, SkipRun(w) \/ StartFails(w)
    PROVE  LockInv'
  <1> USE DEF LockInv
  <1>1. HeldInv'
    BY WorkHeldInv, FaultHeldInv DEF Work, WorkerFault
  <1>2. PICK c \in todo[w] \ held[w] : Take(w, c)
    BY DEF SkipRun, StartFails
  <1>3. /\ pc[w] = "loop" /\ pc'[w] = "loop"
        /\ todo'[w] = todo[w] \ {c}
        /\ UNCHANGED <<runs, wsnap, held>>
    BY <1>2
    DEF SkipRun, StartFails, Take, HeldInv, TypeOK, MemoryOK, tables
  <1>4. \A r : Running(r)' <=> Running(r)
    BY <1>3 DEF Running
  <1>5. LoopOK'
    BY <1>2, <1>3, <1>4 DEF OneWorker, LoopOK, RunsOf
  <1>6. SingleRunning' /\ ClaimOK' /\ ExecOK'
    BY <1>3 DEF OneWorker, SingleRunning, ClaimOK, ExecOK, Executing, Running
  <1> QED
    BY <1>1, <1>5, <1>6

\* Once the executed run is terminal, its snapshot has no running run.
LEMMA FinishLockInv ==
    ASSUME OneWorker, LockInv, NEW w \in Workers, FinishRun(w)
    PROVE  LockInv'
  <1> USE DEF LockInv
  <1>1. HeldInv'
    BY WorkHeldInv DEF Work
  <1>2. pc[w] = "indexing" /\ pc'[w] = "loop" /\ wsnap' = wsnap
    BY DEF FinishRun, Goto, HeldInv, TypeOK, MemoryOK
  <1>3. /\ DOMAIN runs' = DOMAIN runs
        /\ \A q \in DOMAIN runs : runs'[q].snapshot = runs[q].snapshot
        /\ \A s : RunsOf(s)' = RunsOf(s)
        /\ \A q : Running(q)' => Running(q) /\ q # cur[w]
    <2>1. CASE cur[w] \notin DOMAIN runs
      BY <2>1 DEF FinishRun, Running, RunsOf
    <2>2. CASE cur[w] \in DOMAIN runs
      <3>1. PICK c \in DOMAIN runs : c = cur[w]
        BY <2>2
      <3>2. PICK st \in Outcomes(c) : SetStatus(c, st)
        BY <3>1 DEF FinishRun
      <3>3. st \in Status /\ st # "running"
        BY ConstantsAssumption DEF Outcomes, Status
      <3> QED
        BY <3>1, <3>2, <3>3, SetStatusPredicates DEF HeldInv, TypeOK
    <2> QED
      BY <2>1, <2>2
  <1>4. \A r \in RunsOf(wsnap[w]) : ~Running(r)'
    BY <1>2, <1>3 DEF ExecOK, Executing
  <1>5. LoopOK'
    <2>1. RunsOf(wsnap[w])' = RunsOf(wsnap[w])
      BY <1>2, <1>3 DEF RunsOf
    <2> QED
      BY <1>4, <2>1 DEF OneWorker, LoopOK
  <1>6. SingleRunning'
    BY <1>3 DEF SingleRunning
  <1>7. ClaimOK' /\ ExecOK'
    BY <1>2 DEF OneWorker, ClaimOK, ExecOK, Executing
  <1> QED
    BY <1>1, <1>5, <1>6, <1>7

\* Steps that change neither a row nor the list.
LEMMA MoveLockInv ==
    ASSUME OneWorker, LockInv, NEW w \in Workers,
           LoadSnapshot(w) \/ Extract(w) \/ ExtractorHangs(w)
    PROVE  LockInv'
  <1>1. HeldInv'
    BY WorkHeldInv, FaultHeldInv DEF LockInv, Work, WorkerFault
  <1>2. /\ UNCHANGED <<runs, wsnap, cur>>
        /\ \/ pc[w] = "claimed" /\ pc'[w] = "listing"
           \/ Executing(w) /\ Executing(w)'
    BY DEF LoadSnapshot, Extract, ExtractorHangs, Goto, LockInv, HeldInv, TypeOK,
           MemoryOK, tables, memory, Executing
  <1>3. /\ \A r : Running(r)' <=> Running(r)
        /\ \A r : NonTerminal(r)' <=> NonTerminal(r)
        /\ RunsOf(wsnap[w])' = RunsOf(wsnap[w])
    BY <1>2 DEF Running, Pending, NonTerminal, RunsOf
  <1>4. SingleRunning'
    BY <1>2 DEF LockInv, SingleRunning, Running
  <1>5. ClaimOK' /\ LoopOK' /\ ExecOK'
    BY <1>2, <1>3
    DEF OneWorker, LockInv, ClaimOK, LoopOK, ExecOK, Executing
  <1> QED
    BY <1>1, <1>4, <1>5 DEF LockInv

LEMMA NextLockInv ==
    ASSUME OneWorker, "finish" \notin Faults
    PROVE  LockInv /\ [Next]_vars => LockInv'
  <1> SUFFICES ASSUME LockInv, [Next]_vars PROVE LockInv'
    OBVIOUS
  <1>1. CASE UNCHANGED vars
    <2>1. HeldInv'
      BY <1>1, NextHeldInv DEF LockInv
    <2> QED
      BY <1>1, <2>1
      DEF vars, tables, memory, LockInv, SingleRunning, ClaimOK, LoopOK, ExecOK,
          Executing, Running, NonTerminal, Pending, RunsOf
  <1>2. CASE Handlers
    BY <1>2, HandlersLockInv
  <1>3. ASSUME NEW w \in Workers, Work(w) \/ WorkerFault(w) \/ Crash \/ Restart
        PROVE  LockInv'
    <2>1. HeldInv'
      BY <1>3, WorkHeldInv, FaultHeldInv DEF LockInv
    <2>2. CASE SnapshotGone(w) \/ LoadFails(w) \/ LoopDone(w) \/ Crash \/ Restart
      <3>1. UNCHANGED runs /\ pc'[w] \in {"idle", "down"}
        BY <2>2
        DEF SnapshotGone, LoadFails, LoopDone, Crash, Restart, Goto, LockInv,
            HeldInv, TypeOK, MemoryOK, tables
      <3> QED
        BY <2>1, <3>1, IdleLockInv
    <2>3. ~FinishFails(w)
      BY DEF FinishFails, Fault
    <2> QED
      BY <1>3, <2>2, <2>3, ClaimLockInv, ListLockInv, TakeLockInv, SkipLockInv,
         FinishLockInv, MoveLockInv
      DEF Work, WorkerFault
  <1>4. \E w \in Workers : TRUE
    BY ConstantsAssumption
  <1> QED
    BY <1>1, <1>2, <1>3, <1>4 DEF Next

\* With one worker, and as long as no FinishRun statement fails, a snapshot
\* never has two running runs (jobs.go:39), whatever is submitted, deleted,
\* rerun, interrupted or left behind meanwhile.
THEOREM SnapshotLock ==
    ASSUME OneWorker, "finish" \notin Faults
    PROVE  Spec => []SingleRunning
  <1>1. Init => LockInv
    BY InitHeldInv
    DEF Init, LockInv, SingleRunning, ClaimOK, LoopOK, ExecOK, Executing
  <1>2. LockInv => SingleRunning
    BY DEF LockInv
  <1> QED
    BY <1>1, <1>2, NextLockInv, PTL DEF Spec

----------------------------------------------------------------------------
(* The order in which runs start.                                          *)

LEMMA HandlersNewerLast ==
    ASSUME OrderInv, Handlers
    PROVE  NewerLast'
  <1> USE DEF OrderInv, LockInv, HeldInv
  <1>1. HeldInv' /\ Grows /\ UNCHANGED <<pc, wsnap, todo, cur>>
    BY HandlersHeldInv, HandlersEffect DEF memory
  <1>2. TablesOK /\ TablesOK' /\ lastRun \in Nat /\ DOMAIN runs' \subseteq Nat
    BY <1>1 DEF TypeOK, TablesOK
  <1> SUFFICES ASSUME NEW w \in Workers, Working(w),
                      NEW q \in RunsOf(wsnap[w])' \ todo[w],
                      NonTerminal(q)', q # cur[w], NEW r \in todo[w]
               PROVE  r < q
    BY <1>1 DEF NewerLast, Working, RunsOf
  <1>3. r \in 1..lastRun
    BY DEF LoadedOK
  <1>4. CASE q \in DOMAIN runs
    <2>1. q \in RunsOf(wsnap[w]) /\ NonTerminal(q)
      BY <1>1, <1>2, <1>4, GrowsPredicates
    <2> QED
      BY <2>1 DEF NewerLast
  <1>5. CASE q \notin DOMAIN runs
    <2>1. q > lastRun /\ q \in Nat
      BY <1>1, <1>2, <1>5 DEF Grows, RunsOf
    <2> QED
      BY <1>2, <1>3, <2>1
  <1> QED
    BY <1>4, <1>5

LEMMA WorkNewerLast ==
    ASSUME OneWorker, OrderInv, NEW w \in Workers,
           Work(w) \/ LoadFails(w) \/ ExtractorHangs(w) \/ Crash \/ Restart
    PROVE  NewerLast'
  <1> USE DEF OrderInv, LockInv, HeldInv
  <1>1. /\ pc \in [Workers -> PC]
        /\ todo \in [Workers -> SUBSET RunIds]
        /\ held \in [Workers -> SUBSET RunIds]
        /\ cur \in [Workers -> RunIds \cup {None}]
        /\ TablesOK /\ DOMAIN runs \subseteq Nat \ {None}
    BY DEF TypeOK, MemoryOK, TablesOK, None
  <1>2. CASE \/ ClaimNextSnapshot(w) \/ LoadSnapshot(w) \/ SnapshotGone(w)
             \/ LoopDone(w) \/ LoadFails(w) \/ Crash \/ Restart
    <2>1. pc'[w] \in {"idle", "claimed", "listing", "down"}
      BY <1>1, <1>2
      DEF ClaimNextSnapshot, LoadSnapshot, SnapshotGone, LoopDone, LoadFails,
          Crash, Restart, Goto
    <2> QED
      BY <2>1 DEF OneWorker, NewerLast, Working
  <1>3. CASE ListRuns(w)
    <2>1. /\ todo'[w] = {r \in RunsOf(wsnap[w]) : NonTerminal(r)}
          /\ UNCHANGED <<runs, wsnap>>
      BY <1>1, <1>3 DEF ListRuns, tables
    <2>2. /\ \A q : NonTerminal(q)' <=> NonTerminal(q)
          /\ RunsOf(wsnap[w])' = RunsOf(wsnap[w])
      BY <2>1 DEF NonTerminal, Pending, Running, RunsOf
    <2> QED
      BY <2>1, <2>2 DEF OneWorker, NewerLast
  <1>4. CASE RunHeld(w) \/ StartRun(w)
    <2>1. PICK c \in todo[w] :
            /\ Take(w, c) /\ Execute(w, c)
            /\ UNCHANGED runs \/ (Pending(c) /\ SetStatus(c, "running"))
      BY <1>4 DEF RunHeld, StartRun, tables
    <2>2. /\ pc[w] = "loop" /\ wsnap' = wsnap /\ cur'[w] = c
          /\ todo'[w] = todo[w] \ {c} /\ cur[w] = None
      BY <1>1, <1>4, <2>1
      DEF RunHeld, StartRun, Take, Execute, CurOK, Executing
    <2>3. /\ \A q : q # c => (NonTerminal(q)' <=> NonTerminal(q))
          /\ RunsOf(wsnap[w])' = RunsOf(wsnap[w])
      <3>1. CASE UNCHANGED runs
        BY <2>2, <3>1 DEF NonTerminal, Pending, Running, RunsOf
      <3>2. CASE Pending(c) /\ SetStatus(c, "running")
        <4>1. /\ \A s : RunsOf(s)' = RunsOf(s)
              /\ \A q : q # c => /\ Running(q)' <=> Running(q)
                                 /\ Pending(q)' <=> Pending(q)
          BY <1>1, <3>2, SetStatusPredicates DEF Pending, Status
        <4>2. /\ DOMAIN runs' = DOMAIN runs
              /\ \A q \in DOMAIN runs : runs'[q].snapshot = runs[q].snapshot
          BY <1>1, <3>2, SetStatusPredicates DEF Pending, Status
        <4>3. RunsOf(wsnap[w])' = RunsOf(wsnap[w])
          BY <2>2, <4>2 DEF RunsOf
        <4> QED
          BY <4>1, <4>3 DEF NonTerminal
      <3> QED
        BY <2>1, <3>1, <3>2
    <2>4. \A q \in RunsOf(wsnap[w]) \ todo[w] :
            NonTerminal(q) => \A r \in todo[w] : r < q
      BY <1>1, <2>2 DEF NewerLast, Working, RunsOf
    <2> QED
      BY <2>2, <2>3, <2>4 DEF OneWorker, NewerLast
  <1>5. CASE SkipRun(w)
    <2>1. PICK c \in todo[w] \ held[w] : ~Pending(c) /\ Take(w, c)
      BY <1>5 DEF SkipRun
    <2>2. /\ pc[w] = "loop" /\ todo'[w] = todo[w] \ {c}
          /\ UNCHANGED <<runs, wsnap, cur>>
      BY <1>1, <1>5, <2>1 DEF SkipRun, Take, tables
    <2>3. ~(c \in RunsOf(wsnap[w]) /\ NonTerminal(c))
      BY <2>1, <2>2 DEF LoopOK, NonTerminal
    <2>4. /\ \A q : NonTerminal(q)' <=> NonTerminal(q)
          /\ RunsOf(wsnap[w])' = RunsOf(wsnap[w])
      BY <2>2 DEF NonTerminal, Pending, Running, RunsOf
    <2>5. \A q \in RunsOf(wsnap[w]) \ todo[w] :
            NonTerminal(q) /\ q # cur[w] => \A r \in todo[w] : r < q
      BY <2>2 DEF NewerLast, Working
    <2> QED
      BY <2>2, <2>3, <2>4, <2>5 DEF OneWorker, NewerLast
  <1>6. CASE Extract(w) \/ ExtractorHangs(w)
    <2>1. Working(w) /\ UNCHANGED <<runs, wsnap, todo, cur>>
      BY <1>6 DEF Extract, ExtractorHangs, Working, tables, memory
    <2>2. /\ \A q : NonTerminal(q)' <=> NonTerminal(q)
          /\ RunsOf(wsnap[w])' = RunsOf(wsnap[w])
      BY <2>1 DEF NonTerminal, Pending, Running, RunsOf
    <2> QED
      BY <2>1, <2>2 DEF OneWorker, NewerLast
  <1>7. CASE FinishRun(w)
    <2>1. pc[w] = "indexing" /\ UNCHANGED <<wsnap, todo>>
      BY <1>7 DEF FinishRun
    <2>2. /\ \A q : NonTerminal(q)' => NonTerminal(q) /\ q # cur[w]
          /\ RunsOf(wsnap[w])' = RunsOf(wsnap[w])
      <3>1. CASE cur[w] \notin DOMAIN runs
        BY <1>7, <2>1, <3>1 DEF FinishRun, NonTerminal, Pending, Running, RunsOf
      <3>2. CASE cur[w] \in DOMAIN runs
        <4>1. PICK c \in DOMAIN runs : c = cur[w]
          BY <3>2
        <4>2. PICK st \in Outcomes(c) : SetStatus(c, st)
          BY <1>7, <4>1 DEF FinishRun
        <4>3. st \in Status \ {"pending", "running"}
          BY ConstantsAssumption DEF Outcomes, Status
        <4>4. /\ \A s : RunsOf(s)' = RunsOf(s)
              /\ \A q : q # c => /\ Running(q)' <=> Running(q)
                                 /\ Pending(q)' <=> Pending(q)
              /\ ~Running(c)' /\ ~Pending(c)'
          BY <1>1, <4>2, <4>3, SetStatusPredicates
        <4>5. RunsOf(wsnap[w])' = RunsOf(wsnap[w])
          BY <2>1, <4>4 DEF RunsOf
        <4> QED
          BY <4>1, <4>4, <4>5 DEF NonTerminal
      <3> QED
        BY <3>1, <3>2
    <2>3. \A q \in RunsOf(wsnap[w]) \ todo[w] :
            NonTerminal(q) /\ q # cur[w] => \A r \in todo[w] : r < q
      BY <2>1 DEF NewerLast, Working
    <2> QED
      BY <2>1, <2>2, <2>3 DEF OneWorker, NewerLast
  <1> QED
    BY <1>2, <1>3, <1>4, <1>5, <1>6, <1>7 DEF Work

LEMMA NextOrderInv ==
    ASSUME OneWorker, Faults \cap {"start", "finish"} = {}
    PROVE  OrderInv /\ [Next]_vars => OrderInv'
  <1> SUFFICES ASSUME OrderInv, [Next]_vars PROVE OrderInv'
    OBVIOUS
  <1>1. LockInv'
    BY NextLockInv DEF OrderInv
  <1>2. CASE UNCHANGED vars
    BY <1>1, <1>2
    DEF vars, tables, memory, OrderInv, NewerLast, Working, NonTerminal, Pending,
        Running, RunsOf
  <1>3. ~\E w \in Workers : StartFails(w) \/ FinishFails(w)
    BY DEF StartFails, FinishFails, Fault
  <1>4. \E w \in Workers : TRUE
    BY ConstantsAssumption
  <1> QED
    BY <1>1, <1>2, <1>3, <1>4, HandlersNewerLast, WorkNewerLast
    DEF Next, WorkerFault, OrderInv

----------------------------------------------------------------------------
(* What a step may do to the rows, and what follows from it.               *)

\* A step of the handlers appends rows to a snapshot, or deletes one's rows.
Appends(s) ==
    /\ lastRun < lastRun'
    /\ lastRun' \in Nat
    /\ DOMAIN runs' = DOMAIN runs \cup (lastRun + 1)..lastRun'
    /\ \A q \in DOMAIN runs : runs'[q] = runs[q]
    /\ \A q \in DOMAIN runs' \ DOMAIN runs :
         runs'[q].snapshot = s /\ runs'[q].status = "pending"

Deletes(s) ==
    /\ runs' = [r \in DOMAIN runs \ RunsOf(s) |-> runs[r]]
    /\ lastRun' = lastRun

\* A step of the worker starts a run whose turn it is, or ends the running one.
Starts(r) ==
    /\ Pending(r)
    /\ \A q \in RunsOf(runs[r].snapshot) : q < r => ~NonTerminal(q)
    /\ \A q \in RunsOf(runs[r].snapshot) : ~Running(q)
    /\ SetStatus(r, "running")
    /\ lastRun' = lastRun

Ends(r, st) ==
    /\ Running(r)
    /\ SetStatus(r, st)
    /\ lastRun' = lastRun

TableStep ==
    \/ UNCHANGED <<runs, lastRun>>
    \/ \E s \in SnapshotIds : Appends(s) \/ Deletes(s)
    \/ \E r \in DOMAIN runs : Starts(r) \/ \E st \in Terminal : Ends(r, st)

LEMMA InsertAppends ==
    ASSUME TablesOK, NEW s \in SnapshotIds, NEW names, InsertRows(s, names),
           Len(names) \in Nat \ {0}
    PROVE  UNCHANGED <<runs, lastRun>> \/ Appends(s)
  <1>1. CASE s \notin snapshots
    BY <1>1 DEF InsertRows
  <1>2. CASE s \in snapshots
    <2>1. /\ lastRun' = lastRun + Len(names)
          /\ DOMAIN runs' = DOMAIN runs \cup (lastRun + 1)..lastRun'
          /\ \A q \in DOMAIN runs : runs'[q] = runs[q]
          /\ \A q \in DOMAIN runs' \ DOMAIN runs :
               runs'[q] = [snapshot  |-> s,
                           extractor |-> names[q - lastRun],
                           status    |-> "pending"]
      BY <1>2 DEF InsertRows
    <2>2. lastRun < lastRun' /\ lastRun' \in Nat
      BY <2>1 DEF TablesOK
    <2>3. ASSUME NEW q \in DOMAIN runs' \ DOMAIN runs
          PROVE  runs'[q].snapshot = s /\ runs'[q].status = "pending"
      <3>1. runs'[q] = [snapshot  |-> s,
                        extractor |-> names[q - lastRun],
                        status    |-> "pending"]
        BY <2>1
      <3> QED
        BY <3>1
    <2> QED
      BY <2>1, <2>2, <2>3 DEF Appends
  <1> QED
    BY <1>1, <1>2

LEMMA HandlersTableStep ==
    ASSUME TypeOK, Handlers
    PROVE  TableStep
  <1>1. ASSUME NEW s \in SnapshotIds, InsertPendingRuns(s) PROVE TableStep
    <2>1. InsertRows(s, pipeline)
      BY <1>1 DEF InsertPendingRuns
    <2>2. Len(pipeline) \in Nat \ {0}
      BY ConstantsAssumption DEF TypeOK
    <2> QED
      BY <2>1, <2>2, InsertAppends DEF TypeOK, TableStep
  <1>2. ASSUME NEW s \in SnapshotIds, NEW e \in Extractors, Rerun(s, e)
        PROVE  TableStep
    <2>1. InsertRows(s, <<e>>)
      BY <1>2 DEF Rerun
    <2>2. Len(<<e>>) \in Nat \ {0}
      OBVIOUS
    <2> QED
      BY <2>1, <2>2, InsertAppends DEF TypeOK, TableStep
  <1>3. ASSUME NEW s \in SnapshotIds, DeleteSnapshot(s) PROVE TableStep
    BY <1>3 DEF DeleteSnapshot, Deletes, TableStep
  <1>4. ASSUME NEW s \in SnapshotIds, EnqueueFails(s) PROVE TableStep
    BY <1>4 DEF EnqueueFails, tables, TableStep
  <1>5. CASE CreateSnapshot
    BY <1>5 DEF CreateSnapshot, TableStep
  <1> QED
    BY <1>1, <1>2, <1>3, <1>4, <1>5 DEF Handlers

LEMMA WorkTableStep ==
    ASSUME OneWorker, OrderInv, NEW w \in Workers, Work(w)
    PROVE  TableStep
  <1> USE DEF OrderInv, LockInv, HeldInv
  <1>0. DOMAIN runs \subseteq Nat \ {None} /\ todo[w] \in SUBSET RunIds
    BY DEF TypeOK, TablesOK, MemoryOK, None
  <1>1. CASE ClaimNextSnapshot(w)
    <2>1. PICK c \in DOMAIN runs :
            /\ Oldest(c, Claimable)
            /\ SetStatus(c, "running")
            /\ lastRun' = lastRun
      BY <1>1 DEF ClaimNextSnapshot
    <2>2. Pending(c) /\ ~Locked(runs[c].snapshot)
      BY <2>1 DEF Oldest, Claimable
    <2>3. \A q \in RunsOf(runs[c].snapshot) : ~Running(q)
      BY <2>2 DEF Locked
    <2>4. ASSUME NEW q \in RunsOf(runs[c].snapshot), q < c PROVE ~Pending(q)
      <3>1. q \in DOMAIN runs /\ runs[q].snapshot = runs[c].snapshot
        BY DEF RunsOf
      <3>2. SUFFICES ASSUME Pending(q) PROVE FALSE
        OBVIOUS
      <3>3. q \in Claimable
        BY <2>2, <3>1, <3>2 DEF Claimable
      <3>4. c <= q
        BY <2>1, <3>3 DEF Oldest
      <3> QED
        BY <1>0, <2>4, <3>1, <3>4
    <2> QED
      BY <2>1, <2>2, <2>3, <2>4 DEF Starts, TableStep, NonTerminal
  <1>2. CASE StartRun(w)
    <2>1. PICK c \in todo[w] \ held[w] :
            Pending(c) /\ SetStatus(c, "running") /\ Take(w, c)
      BY <1>2 DEF StartRun
    <2>2. /\ pc[w] = "loop" /\ lastRun' = lastRun
          /\ \A q \in todo[w] : c <= q
      BY <1>2, <2>1 DEF StartRun, Take, Oldest
    <2>3. c \in DOMAIN runs /\ runs[c].snapshot = wsnap[w] /\ cur[w] = None
      BY <2>1, <2>2 DEF Pending, LoadedOK, Working, CurOK, Executing
    <2>4. ASSUME NEW q \in RunsOf(wsnap[w]) PROVE ~Running(q)
      <3>1. SUFFICES ASSUME Running(q) PROVE FALSE
        OBVIOUS
      <3>2. q \in todo[w] \cap held[w] /\ q <= c
        BY <2>1, <2>2, <3>1 DEF LoopOK
      <3>3. q \in Nat /\ c \in Nat
        BY <1>0, <2>3 DEF RunsOf
      <3> QED
        BY <2>1, <2>2, <3>2, <3>3
    <2>5. ASSUME NEW q \in RunsOf(wsnap[w]), q < c PROVE ~NonTerminal(q)
      <3>1. q \in Nat \ {None} /\ c \in Nat
        BY <1>0, <2>3 DEF RunsOf
      <3>2. q \notin todo[w]
        BY <2>2, <2>5, <3>1
      <3>3. NonTerminal(q) => c < q
        BY <2>1, <2>2, <2>3, <3>1, <3>2 DEF NewerLast, Working
      <3> QED
        BY <2>5, <3>1, <3>3
    <2> QED
      BY <2>1, <2>2, <2>3, <2>4, <2>5 DEF Starts, TableStep
  <1>3. CASE FinishRun(w)
    <2>1. CASE cur[w] \notin DOMAIN runs
      BY <1>3, <2>1 DEF FinishRun, TableStep
    <2>2. CASE cur[w] \in DOMAIN runs
      <3>1. PICK c \in DOMAIN runs : c = cur[w]
        BY <2>2
      <3>2. PICK st \in Outcomes(c) : SetStatus(c, st)
        BY <1>3, <3>1 DEF FinishRun
      <3>3. st \in Terminal
        BY ConstantsAssumption DEF Outcomes
      <3>4. Running(c)
        BY <1>3, <3>1 DEF FinishRun, LockHeldWhileIndexing
      <3> QED
        BY <1>3, <3>2, <3>3, <3>4 DEF FinishRun, Ends, TableStep
    <2> QED
      BY <2>1, <2>2
  <1>4. CASE \/ LoadSnapshot(w) \/ SnapshotGone(w) \/ ListRuns(w) \/ RunHeld(w)
             \/ SkipRun(w) \/ Extract(w) \/ LoopDone(w)
    BY <1>4
    DEF LoadSnapshot, SnapshotGone, ListRuns, RunHeld, SkipRun, Extract, LoopDone,
        tables, TableStep
  <1> QED
    BY <1>1, <1>2, <1>3, <1>4 DEF Work

LEMMA NextTableStep ==
    ASSUME OneWorker
    PROVE  OrderInv /\ [Next]_vars => TableStep
  <1> SUFFICES ASSUME OrderInv, [Next]_vars PROVE TableStep
    OBVIOUS
  <1>1. CASE UNCHANGED vars
    BY <1>1 DEF vars, tables, TableStep
  <1>2. CASE Handlers
    BY <1>2, HandlersTableStep DEF OrderInv, LockInv, HeldInv
  <1>3. CASE Crash \/ Restart \/ \E w \in Workers : WorkerFault(w)
    BY <1>3
    DEF Crash, Restart, WorkerFault, LoadFails, StartFails, ExtractorHangs,
        FinishFails, tables, TableStep
  <1> QED
    BY <1>1, <1>2, <1>3, WorkTableStep DEF Next

\* The rows of a table step, one by one.
LEMMA TableStepRows ==
    ASSUME TypeOK, TableStep, NEW r \in DOMAIN runs, r \in DOMAIN runs'
    PROVE  \/ runs'[r] = runs[r]
           \/ /\ Starts(r)
              /\ runs'[r] = [runs[r] EXCEPT !.status = "running"]
           \/ \E st \in Terminal :
                /\ Ends(r, st)
                /\ runs'[r] = [runs[r] EXCEPT !.status = st]
  <1>1. CASE UNCHANGED <<runs, lastRun>>
    BY <1>1
  <1>2. ASSUME NEW s \in SnapshotIds, Appends(s) \/ Deletes(s)
        PROVE  runs'[r] = runs[r]
    BY <1>2 DEF Appends, Deletes
  <1>3. ASSUME NEW c \in DOMAIN runs, NEW st, SetStatus(c, st)
        PROVE  runs'[r] = IF c = r THEN [runs[r] EXCEPT !.status = st] ELSE runs[r]
    BY <1>3 DEF SetStatus
  <1>4. ASSUME NEW c \in DOMAIN runs, Starts(c)
        PROVE  \/ runs'[r] = runs[r]
               \/ /\ Starts(r)
                  /\ runs'[r] = [runs[r] EXCEPT !.status = "running"]
    <2>1. SetStatus(c, "running")
      BY <1>4 DEF Starts
    <2> QED
      BY <1>3, <1>4, <2>1
  <1>5. ASSUME NEW c \in DOMAIN runs, NEW st \in Terminal, Ends(c, st)
        PROVE  \/ runs'[r] = runs[r]
               \/ /\ Ends(r, st)
                  /\ runs'[r] = [runs[r] EXCEPT !.status = st]
    <2>1. SetStatus(c, st)
      BY <1>5 DEF Ends
    <2> QED
      BY <1>3, <1>5, <2>1
  <1> QED
    BY <1>1, <1>2, <1>4, <1>5 DEF TableStep

LEMMA InitOrderInv == Init => OrderInv
  BY InitHeldInv
  DEF Init, OrderInv, LockInv, SingleRunning, ClaimOK, LoopOK, ExecOK, NewerLast,
      Executing, Working

\* With one worker, and as long as no StartRun or FinishRun statement fails, a
\* run starts only when every older run of its snapshot is terminal.
THEOREM InOrder ==
    ASSUME OneWorker, Faults \cap {"start", "finish"} = {}
    PROVE  Spec => StartsInOrder
  <1>1. OrderInv /\ [Next]_vars =>
          \A r \in DOMAIN runs : Pending(r) /\ Running(r)' =>
            \A q \in RunsOf(runs[r].snapshot) : q < r => ~NonTerminal(q)
    <2> SUFFICES ASSUME OrderInv, [Next]_vars, NEW r \in DOMAIN runs,
                        Pending(r), Running(r)'
                 PROVE  Starts(r)
      BY DEF Starts
    <2>1. TypeOK /\ TableStep
      BY NextTableStep DEF OrderInv, LockInv, HeldInv
    <2>2. runs'[r] # runs[r]
      BY DEF Pending, Running
    <2>3. ~\E st \in Terminal : Ends(r, st)
      BY DEF Ends, Pending, Running
    <2> QED
      BY <2>1, <2>2, <2>3, TableStepRows DEF Running
  <1> QED
    BY <1>1, InitOrderInv, NextOrderInv, PTL DEF Spec, StartsInOrder

\* The run that a worker is about to finish.
Ending(r) == \E w \in Workers : pc[w] = "indexing" /\ cur[w] = r

\* Whatever fails, and however many workers there are, one starts only pending
\* rows and ends only the row that it executes.
LEMMA RowStep ==
    ASSUME TypeOK, [Next]_vars
    PROVE  \/ \A q \in DOMAIN runs \cap DOMAIN runs' : runs'[q] = runs[q]
           \/ \E c \in DOMAIN runs, st \in Status :
                /\ SetStatus(c, st)
                /\ \/ Pending(c) /\ st = "running"
                   \/ Ending(c) /\ st \in Terminal
  <1> DEFINE Same == \A q \in DOMAIN runs \cap DOMAIN runs' : runs'[q] = runs[q]
             Moved == \E c \in DOMAIN runs, st \in Status :
                        /\ SetStatus(c, st)
                        /\ \/ Pending(c) /\ st = "running"
                           \/ Ending(c) /\ st \in Terminal
  <1> SUFFICES Same \/ Moved
    OBVIOUS
  <1>1. CASE UNCHANGED runs
    BY <1>1
  <1>2. CASE Handlers
    BY <1>2, HandlersEffect DEF Grows
  <1>3. ASSUME NEW w \in Workers, ClaimNextSnapshot(w)
        PROVE  Moved
    <2>1. PICK c \in DOMAIN runs : Oldest(c, Claimable) /\ SetStatus(c, "running")
      BY <1>3 DEF ClaimNextSnapshot
    <2> QED
      BY <2>1 DEF Oldest, Claimable, Status
  <1>4. ASSUME NEW w \in Workers, StartRun(w)
        PROVE  Moved
    <2>1. PICK c \in todo[w] : Pending(c) /\ SetStatus(c, "running")
      BY <1>4 DEF StartRun
    <2> QED
      BY <2>1 DEF Pending, Status
  <1>5. ASSUME NEW w \in Workers, FinishRun(w), cur[w] \in DOMAIN runs
        PROVE  Moved
    <2>1. PICK st \in Outcomes(cur[w]) : SetStatus(cur[w], st)
      BY <1>5 DEF FinishRun
    <2>2. st \in Terminal /\ st \in Status
      BY ConstantsAssumption DEF Outcomes, Status
    <2>3. Ending(cur[w])
      BY <1>5 DEF FinishRun, Ending
    <2> QED
      BY <1>5, <2>1, <2>2, <2>3
  <1>6. [Next]_vars =>
          \/ UNCHANGED runs
          \/ Handlers
          \/ \E w \in Workers :
               \/ ClaimNextSnapshot(w) \/ StartRun(w)
               \/ FinishRun(w) /\ cur[w] \in DOMAIN runs
    BY DEF Next, vars, tables, Work, WorkerFault, LoadSnapshot, SnapshotGone, ListRuns,
           RunHeld, SkipRun, Extract, FinishRun, LoopDone, LoadFails, StartFails,
           ExtractorHangs, FinishFails, Crash, Restart
  <1> HIDE DEF Same, Moved
  <1> QED
    BY <1>1, <1>2, <1>3, <1>4, <1>5, <1>6

\* However many processes there are, and whatever fails, a row goes from pending
\* to running to a terminal status and never back (StartRun updates only pending
\* rows, jobs.go:107): nothing that was started or has ended is queued again.
THEOREM OnlyForward ==
    Spec => [][\A r \in DOMAIN runs \cap DOMAIN runs' :
                 /\ ~NonTerminal(r) => ~NonTerminal(r)'
                 /\ Running(r) => ~Pending(r)']_vars
  <1>1. TypeOK /\ [Next]_vars =>
          \A r \in DOMAIN runs \cap DOMAIN runs' :
            /\ ~NonTerminal(r) => ~NonTerminal(r)'
            /\ Running(r) => ~Pending(r)'
    <2> SUFFICES ASSUME TypeOK, [Next]_vars, NEW r \in DOMAIN runs \cap DOMAIN runs'
                 PROVE  /\ ~NonTerminal(r) => ~NonTerminal(r)'
                        /\ Running(r) => ~Pending(r)'
      OBVIOUS
    <2>1. CASE runs'[r] = runs[r]
      BY <2>1 DEF NonTerminal, Running, Pending
    <2>2. ASSUME NEW c \in DOMAIN runs, NEW st \in Status, SetStatus(c, st),
                 \/ Pending(c) /\ st = "running"
                 \/ st \in Terminal
          PROVE  /\ ~NonTerminal(r) => ~NonTerminal(r)'
                 /\ Running(r) => ~Pending(r)'
      <3>1. TablesOK
        BY DEF TypeOK
      <3>2. /\ r # c => runs'[r] = runs[r]
            /\ r = c => runs'[r].status = st
        BY <2>2, <3>1, SetStatusEffect
      <3>3. st # "pending" /\ (st # "running" \/ Pending(c))
        BY <2>2, ConstantsAssumption
      <3> QED
        BY <2>1, <3>2, <3>3 DEF NonTerminal, Pending, Running
    <2> QED
      BY <2>1, <2>2, RowStep
  <1> QED
    BY <1>1, InitTypeOK, NextTypeOK, PTL DEF Spec

\* With one worker, and whatever fails, no run is ever executed twice, and the
\* result of a finished run is final (ListRuns' filter, ingest.go:171, and the
\* guard of StartRun).
THEOREM Once ==
    ASSUME OneWorker
    PROVE  Spec => ExecutedOnce
  <1>1. HeldInv /\ [Next]_vars =>
          \A r \in DOMAIN runs \cap DOMAIN runs' :
            /\ ~NonTerminal(r) => runs'[r] = runs[r]
            /\ Running(r) => ~Pending(r)'
    <2> SUFFICES ASSUME HeldInv, [Next]_vars,
                        NEW r \in DOMAIN runs \cap DOMAIN runs'
                 PROVE  /\ ~NonTerminal(r) => runs'[r] = runs[r]
                        /\ Running(r) => ~Pending(r)'
      OBVIOUS
    <2>1. CASE runs'[r] = runs[r]
      BY <2>1 DEF Running, Pending
    <2>2. ASSUME NEW c \in DOMAIN runs, NEW st \in Status, SetStatus(c, st),
                 \/ Pending(c) /\ st = "running"
                 \/ Running(c) /\ st \in Terminal
          PROVE  /\ ~NonTerminal(r) => runs'[r] = runs[r]
                 /\ Running(r) => ~Pending(r)'
      <3>1. TablesOK
        BY DEF HeldInv, TypeOK
      <3>2. /\ r # c => runs'[r] = runs[r]
            /\ r = c => runs'[r].status = st
        BY <2>2, <3>1, SetStatusEffect
      <3>3. st # "pending" /\ NonTerminal(c)
        BY <2>2, ConstantsAssumption DEF NonTerminal, Pending, Running
      <3> QED
        BY <2>1, <3>2, <3>3 DEF Pending
    <2>3. TypeOK /\ \A c \in DOMAIN runs : Ending(c) => Running(c)
      BY DEF HeldInv, LockHeldWhileIndexing, Ending
    <2> QED
      BY <2>1, <2>2, <2>3, RowStep
  <1> QED
    BY <1>1, InitHeldInv, NextHeldInv, PTL DEF Spec, ExecutedOnce

----------------------------------------------------------------------------
(* The queue implements its contract.                                      *)

LEMMA RowsEffect ==
    /\ DOMAIN Rows = DOMAIN runs
    /\ \A r \in DOMAIN runs :
         /\ Rows[r] = [snapshot |-> runs[r].snapshot, status |-> runs[r].status]
         /\ Rows[r].snapshot = runs[r].snapshot
         /\ Rows[r].status = runs[r].status
    /\ \A s : Contract!RowsOf(s) = RunsOf(s)
  BY DEF Rows, Contract!RowsOf, RunsOf

\* A status update of a run is the same update of its row.
LEMMA SetStatusRows ==
    ASSUME TypeOK, NEW r \in DOMAIN runs, NEW st \in Status, SetStatus(r, st)
    PROVE  Rows' = [Rows EXCEPT ![r].status = st]
  <1>1. /\ DOMAIN runs' = DOMAIN runs
        /\ \A q \in DOMAIN runs : q # r => runs'[q] = runs[q]
        /\ runs'[r].snapshot = runs[r].snapshot
        /\ runs'[r].status = st
    BY SetStatusEffect DEF TypeOK
  <1>2. Rows' = [q \in DOMAIN runs |->
                   [snapshot |-> runs'[q].snapshot, status |-> runs'[q].status]]
    BY <1>1 DEF Rows
  <1>3. [Rows EXCEPT ![r].status = st] =
          [q \in DOMAIN runs |-> IF q = r THEN [Rows[r] EXCEPT !.status = st] ELSE Rows[q]]
    BY RowsEffect
  <1>4. [Rows[r] EXCEPT !.status = st] = [snapshot |-> runs[r].snapshot, status |-> st]
    BY RowsEffect
  <1>5. \A q \in DOMAIN runs :
          [snapshot |-> runs'[q].snapshot, status |-> runs'[q].status] =
          IF q = r THEN [Rows[r] EXCEPT !.status = st] ELSE Rows[q]
    BY <1>1, <1>4, RowsEffect
  <1> QED
    BY <1>2, <1>3, <1>5

LEMMA StepSimulation ==
    ASSUME OneWorker
    PROVE  OrderInv /\ [Next]_vars => [Contract!CNext]_(Contract!cvars)
  <1> SUFFICES ASSUME OrderInv, [Next]_vars
               PROVE  Contract!CNext \/ UNCHANGED Contract!cvars
    OBVIOUS
  <1>1. TypeOK /\ TableStep
    BY NextTableStep DEF OrderInv, LockInv, HeldInv
  <1>2. CASE UNCHANGED <<runs, lastRun>>
    BY <1>2 DEF Contract!cvars, Rows
  <1>3. ASSUME NEW s \in SnapshotIds, Appends(s) PROVE Contract!Submit(s)
    <2>1. ASSUME NEW q \in DOMAIN runs'
          PROVE  [snapshot |-> runs'[q].snapshot, status |-> runs'[q].status] =
                 IF q \in DOMAIN runs THEN Rows[q]
                 ELSE [snapshot |-> s, status |-> "pending"]
      BY <1>1, <1>3, RowsEffect DEF Appends
    <2>2. Rows' = [q \in DOMAIN runs \cup (lastRun + 1)..lastRun' |->
                     IF q \in DOMAIN Rows THEN Rows[q]
                     ELSE [snapshot |-> s, status |-> "pending"]]
      BY <1>1, <1>3, <2>1, RowsEffect DEF Appends, Rows
    <2> QED
      BY <1>1, <1>3, <2>2, RowsEffect DEF Appends, Contract!Submit
  <1>4. ASSUME NEW s \in SnapshotIds, Deletes(s) PROVE Contract!Withdraw(s)
    <2>1. /\ DOMAIN runs' = DOMAIN runs \ RunsOf(s)
          /\ \A q \in DOMAIN runs' : runs'[q] = runs[q]
      BY <1>4 DEF Deletes
    <2>2. Rows' = [q \in DOMAIN runs \ RunsOf(s) |-> Rows[q]]
      BY <1>1, <2>1, RowsEffect DEF Rows
    <2> QED
      BY <1>1, <1>4, <2>2, RowsEffect DEF Deletes, Contract!Withdraw
  <1>5. ASSUME NEW r \in DOMAIN runs, Starts(r) PROVE Contract!Start(r)
    <2>1. Rows' = [Rows EXCEPT ![r].status = "running"]
      BY <1>1, <1>5, SetStatusRows DEF Starts, Status
    <2>2. ASSUME NEW q \in RunsOf(runs[r].snapshot)
          PROVE  /\ q < r => Rows[q].status \in Terminal
                 /\ Rows[q].status # "running"
      <3>1. q \in DOMAIN runs /\ runs[q].status \in Status
        BY <1>1 DEF RunsOf, TypeOK, TablesOK, RunRow
      <3> QED
        BY <1>1, <1>5, <3>1, RowsEffect
        DEF Starts, NonTerminal, Pending, Running, Status
    <2> QED
      BY <1>1, <1>5, <2>1, <2>2, RowsEffect DEF Starts, Pending, Contract!Start
  <1>6. ASSUME NEW r \in DOMAIN runs, NEW st \in Terminal, Ends(r, st)
        PROVE  Contract!Finish(r, st)
    BY <1>1, <1>6, SetStatusRows, RowsEffect
    DEF Ends, Running, Status, Contract!Finish
  <1>7. DOMAIN Rows = DOMAIN runs
    BY <1>1, RowsEffect
  <1> QED
    BY <1>1, <1>2, <1>3, <1>4, <1>5, <1>6, <1>7 DEF TableStep, Contract!CNext

\* With one worker, and as long as no StartRun or FinishRun statement fails,
\* the queue keeps its contract through crashes, restarts, hanging extractors,
\* failed loads and interrupted submissions.
THEOREM ContractKept ==
    ASSUME OneWorker, Faults \cap {"start", "finish"} = {}
    PROVE  Spec => ImplementsContract
  <1>1. Init => Contract!CInit
    <2> SUFFICES ASSUME Init PROVE Contract!CInit
      OBVIOUS
    <2>1. DOMAIN runs = {}
      BY DEF Init
    <2> QED
      BY <2>1 DEF Init, Rows, Contract!CInit
  <1> QED
    BY <1>1, StepSimulation, InitOrderInv, NextOrderInv, PTL
    DEF Spec, ImplementsContract, Contract!CSpec

----------------------------------------------------------------------------
(* What the contract is worth: the lock and the order follow from it.      *)

\* A step of the contract, in terms of the table of runs.
Unmoved(r) == runs'[r].snapshot = runs[r].snapshot /\ runs'[r].status = runs[r].status

StartsAlone(r) ==
    /\ runs'[r].snapshot = runs[r].snapshot /\ runs'[r].status = "running"
    /\ \A q \in RunsOf(runs[r].snapshot) :
         /\ q < r => runs[q].status \in Terminal
         /\ runs[q].status # "running"
    /\ DOMAIN runs' = DOMAIN runs
    /\ \A q \in DOMAIN runs : q # r => Unmoved(q)

EndsAt(r) ==
    /\ runs'[r].snapshot = runs[r].snapshot /\ runs'[r].status \in Terminal
    /\ DOMAIN runs' = DOMAIN runs
    /\ \A q \in DOMAIN runs : q # r => Unmoved(q)

LEMMA ContractStep ==
    ASSUME [Contract!CNext]_(Contract!cvars)
    PROVE  \/ /\ \A r \in DOMAIN runs' \cap DOMAIN runs : Unmoved(r)
              /\ \A r \in DOMAIN runs' \ DOMAIN runs : runs'[r].status = "pending"
           \/ \E r \in DOMAIN runs : StartsAlone(r) \/ EndsAt(r)
  <1>1. /\ DOMAIN Rows' = DOMAIN runs'
        /\ \A q \in DOMAIN runs' :
             Rows'[q].snapshot = runs'[q].snapshot /\ Rows'[q].status = runs'[q].status
    BY DEF Rows
  <1>2. /\ DOMAIN Rows = DOMAIN runs
        /\ \A q \in DOMAIN runs :
             /\ Rows[q] = [snapshot |-> runs[q].snapshot, status |-> runs[q].status]
             /\ Rows[q].snapshot = runs[q].snapshot /\ Rows[q].status = runs[q].status
    BY RowsEffect
  <1> DEFINE Same == /\ \A r \in DOMAIN runs' \cap DOMAIN runs : Unmoved(r)
                     /\ \A r \in DOMAIN runs' \ DOMAIN runs : runs'[r].status = "pending"
  <1>3. CASE Rows' = Rows
    BY <1>1, <1>2, <1>3 DEF Unmoved
  <1>4. ASSUME NEW s \in SnapshotIds, Contract!Submit(s)
        PROVE  Same
    <2>1. /\ DOMAIN runs \subseteq DOMAIN runs'
          /\ \A q \in DOMAIN runs : Rows'[q] = Rows[q]
          /\ \A q \in DOMAIN runs' \ DOMAIN runs :
               Rows'[q] = [snapshot |-> s, status |-> "pending"]
      BY <1>1, <1>2, <1>4 DEF Contract!Submit
    <2> QED
      BY <1>1, <1>2, <2>1 DEF Unmoved
  <1>5. ASSUME NEW s \in SnapshotIds, Contract!Withdraw(s)
        PROVE  Same
    <2>1. /\ DOMAIN runs' \subseteq DOMAIN runs
          /\ \A q \in DOMAIN runs' : Rows'[q] = Rows[q]
      BY <1>1, <1>2, <1>5 DEF Contract!Withdraw
    <2> QED
      BY <1>1, <1>2, <2>1 DEF Unmoved
  <1>6. ASSUME NEW r \in DOMAIN runs, NEW st, Rows' = [Rows EXCEPT ![r].status = st]
        PROVE  /\ runs'[r].snapshot = runs[r].snapshot /\ runs'[r].status = st
               /\ DOMAIN runs' = DOMAIN runs
               /\ \A q \in DOMAIN runs : q # r => Unmoved(q)
    <2>1. /\ DOMAIN Rows' = DOMAIN Rows
          /\ \A q \in DOMAIN runs : q # r => Rows'[q] = Rows[q]
          /\ Rows'[r] = [Rows[r] EXCEPT !.status = st]
      BY <1>2, <1>6
    <2>2. Rows'[r].snapshot = Rows[r].snapshot /\ Rows'[r].status = st
      BY <1>2, <2>1
    <2> QED
      BY <1>1, <1>2, <2>1, <2>2 DEF Unmoved
  <1>7. ASSUME NEW r \in DOMAIN runs, Contract!Start(r)
        PROVE  StartsAlone(r)
    <2>1. /\ Rows' = [Rows EXCEPT ![r].status = "running"]
          /\ \A q \in RunsOf(runs[r].snapshot) :
               /\ q < r => Rows[q].status \in Terminal
               /\ Rows[q].status # "running"
      BY <1>7, RowsEffect DEF Contract!Start
    <2> QED
      BY <1>2, <1>6, <2>1 DEF StartsAlone, RunsOf
  <1>8. ASSUME NEW r \in DOMAIN runs, NEW st \in Terminal, Contract!Finish(r, st)
        PROVE  EndsAt(r)
    BY <1>6, <1>8 DEF Contract!Finish, EndsAt
  <1> QED
    BY <1>2, <1>3, <1>4, <1>5, <1>7, <1>8 DEF Contract!CNext, Contract!cvars

\* QueueContract is no weaker than what it is there for: whoever keeps it never
\* has two runs of a snapshot running (jobs.go:39), and starts them in the order
\* in which they were submitted.
THEOREM ContractLocks == Contract!CSpec => []SingleRunning /\ StartsInOrder
  <1>1. Contract!CInit => SingleRunning
    BY RowsEffect DEF Contract!CInit, SingleRunning
  <1>2. SingleRunning /\ [Contract!CNext]_(Contract!cvars) => SingleRunning'
    <2> SUFFICES ASSUME SingleRunning, [Contract!CNext]_(Contract!cvars),
                        NEW q \in DOMAIN runs', NEW r \in DOMAIN runs',
                        runs'[q].status = "running", runs'[r].status = "running",
                        runs'[q].snapshot = runs'[r].snapshot
                 PROVE  q = r
      BY DEF SingleRunning, Running
    <2>1. CASE \A c \in DOMAIN runs' \cap DOMAIN runs : Unmoved(c)
      <3>1. \A c \in DOMAIN runs' \ DOMAIN runs : runs'[c].status # "running"
        BY <2>1, ContractStep DEF StartsAlone, EndsAt
      <3> QED
        BY <2>1, <3>1 DEF Unmoved, SingleRunning, Running
    <2>2. ASSUME NEW c \in DOMAIN runs, StartsAlone(c)
          PROVE  q = r
      BY <2>2 DEF StartsAlone, Unmoved, RunsOf, SingleRunning, Running
    <2>3. ASSUME NEW c \in DOMAIN runs, EndsAt(c)
          PROVE  q = r
      BY <2>3, ConstantsAssumption DEF EndsAt, Unmoved, SingleRunning, Running
    <2> QED
      BY <2>1, <2>2, <2>3, ContractStep
  <1>3. [Contract!CNext]_(Contract!cvars) =>
          \A r \in DOMAIN runs : Pending(r) /\ Running(r)' =>
            \A q \in RunsOf(runs[r].snapshot) : q < r => ~NonTerminal(q)
    <2> SUFFICES ASSUME [Contract!CNext]_(Contract!cvars), NEW r \in DOMAIN runs,
                        Pending(r), Running(r)',
                        NEW q \in RunsOf(runs[r].snapshot), q < r
                 PROVE  ~NonTerminal(q)
      OBVIOUS
    <2>1. StartsAlone(r)
      BY ContractStep, ConstantsAssumption
      DEF StartsAlone, EndsAt, Unmoved, Pending, Running
    <2> QED
      BY <2>1, ConstantsAssumption DEF StartsAlone, NonTerminal, Pending, Running
  <1> QED
    BY <1>1, <1>2, <1>3, PTL DEF Contract!CSpec, StartsInOrder

----------------------------------------------------------------------------
(* Running means executing.                                                *)

\* A worker changes statuses and its own memory, and nothing else.
LEMMA OneMoves ==
    ASSUME TypeOK, NEW w \in Workers, Work(w) \/ WorkerFault(w)
    PROVE  /\ UNCHANGED <<snapshots, lastSnapshot, lastRun, pipeline, adding>>
           /\ DOMAIN runs' = DOMAIN runs
           /\ \A r \in DOMAIN runs : /\ runs'[r].snapshot = runs[r].snapshot
                                    /\ runs'[r].extractor = runs[r].extractor
           /\ \A v \in Workers : v # w =>
                /\ pc'[v] = pc[v] /\ wsnap'[v] = wsnap[v] /\ todo'[v] = todo[v]
                /\ held'[v] = held[v] /\ cur'[v] = cur[v]
           /\ pc[w] # "down" /\ pc'[w] # "down"
           /\ \/ wsnap'[w] = wsnap[w] /\ pc[w] # "idle"
              \/ pc'[w] = "claimed" /\ wsnap'[w] \in snapshots
              \/ pc'[w] = "idle"
  <1> USE DEF TypeOK, TablesOK, MemoryOK, Goto, Forget, tables, memory, Fault, Take, Execute
  <1> DEFINE RowsStay == /\ DOMAIN runs' = DOMAIN runs
                         /\ \A r \in DOMAIN runs : /\ runs'[r].snapshot = runs[r].snapshot
                                                  /\ runs'[r].extractor = runs[r].extractor
  <1>1. ASSUME NEW r \in DOMAIN runs, NEW st, SetStatus(r, st) PROVE RowsStay
    BY <1>1 DEF SetStatus, RunRow
  <1>2. ASSUME UNCHANGED runs PROVE RowsStay
    BY <1>2
  <1> HIDE DEF RowsStay
  <1>3. CASE ClaimNextSnapshot(w)
    <2>1. PICK r \in DOMAIN runs : SetStatus(r, "running") /\ wsnap' = [wsnap EXCEPT ![w] = runs[r].snapshot]
      BY <1>3 DEF ClaimNextSnapshot
    <2>2. RowsStay
      BY <1>1, <2>1
    <2> QED
      BY <1>3, <2>1, <2>2 DEF ClaimNextSnapshot, RowsStay
  <1>4. CASE StartRun(w)
    <2>1. PICK r \in todo[w] : Pending(r) /\ SetStatus(r, "running") /\ Take(w, r) /\ Execute(w, r)
      BY <1>4 DEF StartRun
    <2>2. RowsStay
      BY <1>1, <2>1 DEF Pending
    <2> QED
      BY <1>4, <2>1, <2>2 DEF StartRun, RowsStay
  <1>5. CASE FinishRun(w)
    <2>1. RowsStay
      BY <1>1, <1>2, <1>5 DEF FinishRun
    <2> QED
      BY <1>5, <2>1 DEF FinishRun, RowsStay
  <1>6. CASE RunHeld(w) \/ SkipRun(w) \/ StartFails(w)
    <2>1. RowsStay
      BY <1>2, <1>6 DEF RunHeld, SkipRun, StartFails
    <2>2. PICK r \in todo[w] : Take(w, r) /\ (pc' = pc \/ Execute(w, r))
      BY <1>6 DEF RunHeld, SkipRun, StartFails
    <2> QED
      BY <1>6, <2>1, <2>2 DEF RunHeld, SkipRun, StartFails, RowsStay
  <1>7. CASE LoadSnapshot(w) \/ SnapshotGone(w) \/ LoadFails(w) \/ ListRuns(w) \/ Extract(w)
             \/ ExtractorHangs(w) \/ FinishFails(w) \/ LoopDone(w)
    <2>1. RowsStay
      BY <1>2, <1>7 DEF LoadSnapshot, SnapshotGone, LoadFails, ListRuns, Extract,
                        ExtractorHangs, FinishFails, LoopDone
    <2> QED
      BY <1>7, <2>1 DEF LoadSnapshot, SnapshotGone, LoadFails, ListRuns, Extract,
                        ExtractorHangs, FinishFails, LoopDone, RowsStay
  <1> QED
    BY <1>3, <1>4, <1>5, <1>6, <1>7 DEF Work, WorkerFault

\* The worker because of which a run is running.
Has(w, r) ==
    /\ wsnap[w] = runs[r].snapshot
    /\ \/ pc[w] \in {"claimed", "listing"}
       \/ r \in todo[w] \cap held[w]
       \/ cur[w] = r

\* What LoadedOK and CurOK say of one of several workers, all of them up.
Remembered ==
    \A w \in Workers :
      /\ pc[w] # "down"
      /\ ~Executing(w) => cur[w] = None
      /\ pc[w] = "idle" => todo[w] = {}
      /\ Working(w) => /\ todo[w] \subseteq 1..lastRun
                       /\ \A r \in todo[w] \cap DOMAIN runs : runs[r].snapshot = wsnap[w]

LEMMA HandlersRemembered ==
    ASSUME TypeOK, Remembered, RunningMeansExecuting, Handlers
    PROVE  Remembered' /\ RunningMeansExecuting'
  <1>1. TypeOK' /\ Grows /\ UNCHANGED <<pc, wsnap, todo, held, cur>>
    BY HandlersEffect DEF memory
  <1>2. TablesOK /\ TablesOK' /\ lastRun \in Nat /\ lastRun' \in Nat /\ lastRun <= lastRun'
    BY <1>1 DEF TypeOK, TablesOK, Grows
  <1>3. Remembered'
    BY <1>1, <1>2, GrowsPredicates DEF Remembered, Working, Executing
  <1>4. RunningMeansExecuting'
    <2> SUFFICES ASSUME NEW r \in DOMAIN runs', Running(r)'
                 PROVE  \E w \in Workers : Has(w, r)'
      BY DEF RunningMeansExecuting, Has
    <2>1. r \in DOMAIN runs /\ Running(r) /\ runs'[r].snapshot = runs[r].snapshot
      BY <1>1, <1>2, GrowsPredicates
    <2> QED
      BY <1>1, <2>1 DEF RunningMeansExecuting, Has
  <1> QED
    BY <1>3, <1>4

LEMMA WorkRemembered ==
    ASSUME TypeOK, Remembered, RunningMeansExecuting, NEW w \in Workers,
           Work(w) \/ StartFails(w) \/ ExtractorHangs(w)
    PROVE  Remembered' /\ RunningMeansExecuting'
  <1> USE DEF TypeOK, MemoryOK, Goto, memory
  <1>1. /\ UNCHANGED <<snapshots, lastRun>>
        /\ DOMAIN runs' = DOMAIN runs
        /\ \A r \in DOMAIN runs : runs'[r].snapshot = runs[r].snapshot
        /\ \A v \in Workers : v # w =>
             /\ pc'[v] = pc[v] /\ wsnap'[v] = wsnap[v] /\ todo'[v] = todo[v]
             /\ held'[v] = held[v] /\ cur'[v] = cur[v]
        /\ pc'[w] # "down"
    BY OneMoves DEF WorkerFault
  <1>2. \A r \in DOMAIN runs : r # None /\ r \in 1..lastRun /\ runs[r].snapshot \in snapshots
    BY DEF TablesOK, None
  <1>3. pc[w] = "loop" => cur[w] = None
    BY DEF Remembered, Executing
  \* It suffices to look at this worker and at the run that it starts.
  <1>4. ASSUME ~Executing(w)' => cur'[w] = None,
               pc'[w] = "idle" => todo'[w] = {},
               Working(w)' => /\ todo'[w] \subseteq 1..lastRun
                              /\ \A r \in todo'[w] \cap DOMAIN runs : runs[r].snapshot = wsnap'[w],
               \A r \in DOMAIN runs : Running(r)' => Has(w, r)' \/ (Running(r) /\ ~Has(w, r))
        PROVE  Remembered' /\ RunningMeansExecuting'
    <2>1. Remembered'
      BY <1>1, <1>4 DEF Remembered, Working, Executing
    <2>2. ASSUME NEW r \in DOMAIN runs, Running(r)' PROVE \E v \in Workers : Has(v, r)'
      <3>1. CASE Has(w, r)'
        BY <3>1
      <3>2. CASE Running(r) /\ ~Has(w, r)
        <4>1. PICK v \in Workers : Has(v, r)
          BY <3>2 DEF RunningMeansExecuting, Has
        <4> QED
          BY <1>1, <3>2, <4>1 DEF Has
      <3> QED
        BY <1>4, <2>2, <3>1, <3>2
    <2> QED
      BY <1>1, <2>1, <2>2 DEF RunningMeansExecuting, Has
  <1>5. CASE ClaimNextSnapshot(w)
    <2>1. PICK r \in DOMAIN runs : SetStatus(r, "running") /\ wsnap' = [wsnap EXCEPT ![w] = runs[r].snapshot]
      BY <1>5 DEF ClaimNextSnapshot
    <2>2. pc[w] = "idle" /\ pc'[w] = "claimed" /\ cur' = cur /\ todo' = todo /\ held' = held
      BY <1>5 DEF ClaimNextSnapshot
    <2>3. Has(w, r)' /\ \A q : q # r => (Running(q)' <=> Running(q))
      BY <1>1, <2>1, <2>2, SetStatusPredicates DEF Has, Status
    <2>4. cur[w] = None
      BY <2>2 DEF Remembered, Executing
    <2>5. \A q \in DOMAIN runs : ~Has(w, q)
      BY <1>2, <2>2, <2>4 DEF Has, Remembered
    <2> QED
      BY <1>4, <2>2, <2>3, <2>4, <2>5 DEF Executing, Working
  <1>6. CASE LoadSnapshot(w) \/ Extract(w) \/ ExtractorHangs(w)
    <2>1. UNCHANGED <<runs, wsnap, todo, held, cur>>
      BY <1>6 DEF LoadSnapshot, Extract, ExtractorHangs, tables
    <2>2. Executing(w)' <=> Executing(w)
      BY <1>6 DEF LoadSnapshot, Extract, ExtractorHangs, Executing
    <2>3. Working(w)' <=> Working(w)
      BY <1>6 DEF LoadSnapshot, Extract, ExtractorHangs, Working
    <2>4. pc[w] \in {"claimed", "listing"} => pc'[w] \in {"claimed", "listing"}
      BY <1>6 DEF LoadSnapshot, Extract, ExtractorHangs
    <2>5. \A r \in DOMAIN runs : Running(r)' => Has(w, r)' \/ (Running(r) /\ ~Has(w, r))
      BY <2>1, <2>4 DEF Running, Has
    <2>6. pc'[w] # "idle"
      BY <1>6 DEF LoadSnapshot, Extract, ExtractorHangs
    <2> QED
      BY <1>4, <2>1, <2>2, <2>3, <2>5, <2>6 DEF Remembered
  <1>7. CASE SnapshotGone(w) \/ LoopDone(w)
    <2>1. /\ runs' = runs /\ pc'[w] = "idle" /\ cur'[w] = None /\ todo'[w] = {}
          /\ wsnap[w] \notin snapshots \/ (pc[w] = "loop" /\ todo[w] = {})
      BY <1>7 DEF SnapshotGone, LoopDone, Forget, tables
    <2>2. \A r \in DOMAIN runs : ~Has(w, r)
      BY <1>2, <1>3, <2>1 DEF Has
    <2>3. \A r \in DOMAIN runs : Running(r)' => Running(r)
      BY <2>1 DEF Running
    <2> QED
      BY <1>4, <2>1, <2>2, <2>3 DEF Working
  <1>8. CASE ListRuns(w)
    <2>1. /\ UNCHANGED <<runs, wsnap, cur>> /\ pc[w] = "listing" /\ pc'[w] = "loop"
          /\ todo'[w] = {r \in RunsOf(wsnap[w]) : NonTerminal(r)}
          /\ held'[w] = {r \in RunsOf(wsnap[w]) : Running(r)}
      BY <1>8 DEF ListRuns, tables
    <2>2. cur'[w] = None
      BY <2>1 DEF Remembered, Executing
    <2>3. \A r \in DOMAIN runs : Running(r) => Running(r)' /\ (Has(w, r) => Has(w, r)')
      BY <1>2, <2>1, <2>2 DEF Running, Has, NonTerminal, RunsOf
    <2>4. \A r \in DOMAIN runs : Running(r)' => Running(r)
      BY <2>1 DEF Running
    <2> QED
      BY <1>2, <1>4, <2>1, <2>2, <2>3, <2>4 DEF RunsOf
  <1>9. CASE RunHeld(w) \/ StartRun(w)
    <2>1. PICK r \in todo[w] : Take(w, r) /\ Execute(w, r) /\ (runs' = runs \/ (Pending(r) /\ SetStatus(r, "running")))
      BY <1>9 DEF RunHeld, StartRun, tables
    <2>2. /\ UNCHANGED <<wsnap, held>> /\ pc[w] = "loop" /\ pc'[w] = "exec" /\ cur'[w] = r
          /\ todo'[w] = todo[w] \ {r}
      BY <1>9, <2>1 DEF RunHeld, StartRun, Take, Execute
    <2>3. \A q : q # r => (Running(q)' <=> Running(q))
      <3>1. CASE runs' = runs
        BY <3>1 DEF Running
      <3>2. CASE Pending(r) /\ SetStatus(r, "running")
        BY <3>2, SetStatusPredicates DEF Status, Pending
      <3> QED
        BY <2>1, <3>1, <3>2
    <2>4. todo[w] \subseteq 1..lastRun /\ \A q \in todo[w] \cap DOMAIN runs : runs[q].snapshot = wsnap[w]
      BY <2>2 DEF Remembered, Working
    <2>5. \A q \in DOMAIN runs : Running(q)' => Has(w, q)' \/ (Running(q) /\ ~Has(w, q))
      BY <1>1, <1>2, <1>3, <2>2, <2>3, <2>4 DEF Has
    <2> QED
      BY <1>4, <2>2, <2>4, <2>5 DEF Executing
  <1>10. CASE SkipRun(w) \/ StartFails(w)
    <2>1. PICK r \in todo[w] \ held[w] : todo' = [todo EXCEPT ![w] = @ \ {r}] /\ pc[w] = "loop"
      BY <1>10 DEF SkipRun, StartFails, Take
    <2>2. UNCHANGED <<runs, pc, wsnap, held, cur>>
      BY <1>10 DEF SkipRun, StartFails, tables
    <2>3. \A q \in DOMAIN runs : Running(q)' => Has(w, q)' \/ (Running(q) /\ ~Has(w, q))
      BY <2>1, <2>2 DEF Running, Has
    <2>4. todo'[w] \subseteq 1..lastRun /\ \A q \in todo'[w] \cap DOMAIN runs : runs[q].snapshot = wsnap'[w]
      BY <2>1, <2>2 DEF Remembered, Working
    <2> QED
      BY <1>3, <1>4, <2>1, <2>2, <2>3, <2>4
  <1>11. CASE FinishRun(w)
    <2>1. UNCHANGED <<wsnap, todo, held>> /\ pc[w] = "indexing" /\ pc'[w] = "loop" /\ cur'[w] = None
      BY <1>11 DEF FinishRun
    <2>2. \A q \in DOMAIN runs : Running(q)' => Running(q) /\ q # cur[w]
      <3>1. CASE cur[w] \in DOMAIN runs
        <4>1. PICK st \in Terminal : SetStatus(cur[w], st)
          BY <1>11, <3>1, ConstantsAssumption DEF FinishRun, Outcomes
        <4> QED
          BY <3>1, <4>1, SetStatusPredicates, ConstantsAssumption DEF Status
      <3>2. CASE cur[w] \notin DOMAIN runs
        BY <1>11, <3>2 DEF FinishRun, Running
      <3> QED
        BY <3>1, <3>2
    <2>3. \A q \in DOMAIN runs : Running(q)' => Has(w, q)' \/ (Running(q) /\ ~Has(w, q))
      BY <1>1, <2>1, <2>2 DEF Has
    <2> QED
      BY <1>4, <2>1, <2>3 DEF Remembered, Working
  <1> QED
    BY <1>5, <1>6, <1>7, <1>8, <1>9, <1>10, <1>11 DEF Work

\* With any number of workers, as long as nothing crashes and neither loading a
\* snapshot nor finishing a run fails, a running run has a worker that has
\* claimed its snapshot, will execute it, or is executing it: no row is left
\* "running" by the way workers take runs from each other.
THEOREM RunningHasWorker ==
    ASSUME Faults \cap {"crash", "load", "finish"} = {}
    PROVE  Spec => []RunningMeansExecuting
  <1> DEFINE Inv == TypeOK /\ Remembered /\ RunningMeansExecuting
  <1>1. Init => Inv
    BY InitTypeOK DEF Init, Remembered, RunningMeansExecuting, Executing, Working
  <1>2. Inv /\ [Next]_vars => Inv'
    <2> SUFFICES ASSUME Inv, [Next]_vars PROVE Remembered' /\ RunningMeansExecuting'
      BY NextTypeOK
    <2>1. CASE Handlers
      BY <2>1, HandlersRemembered
    <2>2. CASE \E w \in Workers : Work(w) \/ WorkerFault(w)
      <3>1. PICK w \in Workers : Work(w) \/ StartFails(w) \/ ExtractorHangs(w)
        BY <2>2 DEF WorkerFault, LoadFails, FinishFails, Fault
      <3> QED
        BY <3>1, WorkRemembered
    <2>3. CASE Crash \/ Restart
      BY <2>3 DEF Crash, Fault, Restart, Up, Remembered
    <2>4. CASE UNCHANGED vars
      BY <2>4 DEF vars, tables, memory, Remembered, RunningMeansExecuting, Running, Working, Executing
    <2> QED
      BY <2>1, <2>2, <2>3, <2>4 DEF Next
  <1> QED
    BY <1>1, <1>2, PTL DEF Spec

----------------------------------------------------------------------------
(* Claims.  Two workers never load the same snapshot, because the row that *)
(* one of them flipped runs until it has loaded its list: that nobody ends *)
(* it meanwhile is the strengthening.                                      *)

Loading(w) == pc[w] \in {"claimed", "listing"}

\* A worker executes r, or loaded it as running: only such rows are ended.
Owned(r) == \E w \in Workers : r \in held[w] \cup {cur[w]}

ClaimKept(w) ==
    /\ wsnap[w] \in 1..lastSnapshot
    /\ wsnap[w] \in snapshots =>
         \E r \in RunsOf(wsnap[w]) : Running(r) /\ ~Owned(r)

OwnedOK == \A r \in RunIds : Owned(r) => r <= lastRun /\ ~Pending(r)

ClaimInv ==
    /\ TypeOK
    /\ ClaimsAlone
    /\ OwnedOK
    /\ \A w \in Workers : Loading(w) => ClaimKept(w)

\* The handlers append pending rows and delete whole snapshots, and give no
\* snapshot an id that a worker may hold.
LEMMA HandlersClaimInv ==
    ASSUME ClaimInv, Handlers
    PROVE  ClaimInv'
  <1> USE DEF ClaimInv
  <1>1. TypeOK' /\ Grows /\ UNCHANGED <<pc, wsnap, held, cur>>
    BY HandlersEffect DEF memory
  <1>2. TablesOK /\ TablesOK'
    BY <1>1 DEF TypeOK
  <1>3. ClaimsAlone' /\ \A r : Owned(r)' <=> Owned(r)
    BY <1>1 DEF ClaimsAlone, Owned
  <1>4. OwnedOK'
    <2> SUFFICES ASSUME NEW r \in RunIds, Owned(r)
                 PROVE  r <= lastRun' /\ ~Pending(r)'
      BY <1>3 DEF OwnedOK
    <2>1. r <= lastRun /\ ~Pending(r)
      BY DEF OwnedOK
    <2>2. lastRun \in Nat /\ lastRun' \in Nat /\ r \in Nat /\ lastRun <= lastRun'
      BY <1>1, <1>2 DEF TablesOK, Grows, RunIds
    <2>3. ~NonTerminal(r)' \/ NonTerminal(r)
      BY <1>1, <1>2, <2>1, <2>2, GrowsPredicates
    <2>4. r \in DOMAIN runs' => runs'[r] = runs[r]
      BY <1>1, <1>2, <2>1, GrowsPredicates DEF Grows
    <2> QED
      BY <2>1, <2>2, <2>4, <1>1, <1>2, GrowsPredicates DEF Pending
  <1>5. ASSUME NEW w \in Workers, Loading(w)'
        PROVE  ClaimKept(w)'
    <2>1. /\ Loading(w) /\ wsnap' = wsnap
          /\ wsnap[w] \in 1..lastSnapshot
      BY <1>1, <1>5 DEF Loading, ClaimKept
    <2>2. /\ wsnap[w] \in 1..lastSnapshot'
          /\ wsnap[w] \in snapshots' => wsnap[w] \in snapshots
      <3>1. CASE CreateSnapshot
        <4>1. /\ lastSnapshot \in Nat /\ lastSnapshot' = lastSnapshot + 1
              /\ snapshots' = snapshots \cup {lastSnapshot + 1}
          BY <3>1, ConstantsAssumption DEF CreateSnapshot, TypeOK, TablesOK
        <4> QED
          BY <2>1, <4>1
      <3>2. CASE \E s \in SnapshotIds : DeleteSnapshot(s)
        BY <2>1, <3>2 DEF DeleteSnapshot
      <3>3. CASE \E s \in SnapshotIds : \/ InsertPendingRuns(s) \/ EnqueueFails(s)
                                        \/ \E e \in Extractors : Rerun(s, e)
        BY <2>1, <3>3 DEF InsertPendingRuns, EnqueueFails, Rerun, tables
      <3> QED
        BY <3>1, <3>2, <3>3 DEF Handlers
    <2>3. ASSUME NEW r \in RunsOf(wsnap[w]), wsnap[w] \in snapshots'
          PROVE  r \in DOMAIN runs'
      <3>1. ASSUME NEW s \in SnapshotIds, DeleteSnapshot(s)
            PROVE  r \in DOMAIN runs'
        BY <2>3, <3>1 DEF DeleteSnapshot, RunsOf
      <3>2. ASSUME NEW s \in SnapshotIds, NEW names, InsertRows(s, names)
            PROVE  r \in DOMAIN runs'
        BY <3>2 DEF InsertRows, RunsOf
      <3>3. CASE \/ CreateSnapshot
                 \/ \E s \in SnapshotIds : EnqueueFails(s)
        BY <3>3 DEF CreateSnapshot, EnqueueFails, tables, RunsOf
      <3>4. CASE \E s \in SnapshotIds :
                   InsertPendingRuns(s) \/ \E e \in Extractors : Rerun(s, e)
        BY <3>2, <3>4 DEF InsertPendingRuns, Rerun
      <3> QED
        BY <3>1, <3>3, <3>4 DEF Handlers
    <2>4. ASSUME wsnap[w] \in snapshots'
          PROVE  \E r \in RunsOf(wsnap[w])' : Running(r)' /\ ~Owned(r)'
      <3>1. PICK r \in RunsOf(wsnap[w]) : Running(r) /\ ~Owned(r)
        BY <2>1, <2>2, <2>4 DEF ClaimKept
      <3>2. r \in DOMAIN runs' /\ runs'[r] = runs[r]
        BY <1>1, <2>3, <2>4, <3>1 DEF Grows, RunsOf
      <3> QED
        BY <1>3, <2>1, <3>1, <3>2 DEF RunsOf, Running
    <2> QED
      BY <2>1, <2>2, <2>4 DEF ClaimKept
  <1> QED
    BY <1>1, <1>3, <1>4, <1>5

\* A step that touches no row, claims nothing and takes over no other run.
LEMMA QuietClaimInv ==
    ASSUME ClaimInv, TypeOK', UNCHANGED tables,
           \A w \in Workers : Loading(w)' => Loading(w) /\ wsnap'[w] = wsnap[w],
           \A r \in RunIds : Owned(r)' => Owned(r)
    PROVE  ClaimInv'
  <1> USE DEF ClaimInv
  <1>1. ClaimsAlone'
    BY DEF ClaimsAlone, Loading
  <1>2. UNCHANGED <<runs, lastRun, lastSnapshot, snapshots>>
    BY DEF tables
  <1>3. OwnedOK'
    BY <1>2 DEF OwnedOK, Pending
  <1>4. ASSUME NEW w \in Workers, Loading(w)'
        PROVE  ClaimKept(w)'
    <2>1. ClaimKept(w) /\ wsnap'[w] = wsnap[w]
      BY <1>4
    <2>2. ASSUME wsnap[w] \in snapshots
          PROVE  \E r \in RunsOf(wsnap[w])' : Running(r)' /\ ~Owned(r)'
      <3>1. PICK r \in RunsOf(wsnap[w]) : Running(r) /\ ~Owned(r)
        BY <2>1, <2>2 DEF ClaimKept
      <3>2. r \in 1..lastRun /\ lastRun \in 0..MaxRuns
        BY <3>1 DEF RunsOf, TypeOK, TablesOK
      <3>3. r \in RunIds
        BY <3>2, ConstantsAssumption DEF RunIds
      <3> QED
        BY <1>2, <2>1, <3>1, <3>3 DEF RunsOf, Running
    <2> QED
      BY <1>2, <2>1, <2>2 DEF ClaimKept
  <1> QED
    BY <1>1, <1>3, <1>4

\* Nothing runs in the snapshot that is claimed, so that nobody else is loading
\* it, and the row that locks it is nobody's.
LEMMA ClaimClaimInv ==
    ASSUME ClaimInv, NEW w \in Workers, ClaimNextSnapshot(w)
    PROVE  ClaimInv'
  <1> USE DEF ClaimInv
  <1>1. TypeOK' /\ TablesOK
    BY NextTypeOK DEF Next, Work, TypeOK
  <1>2. PICK c \in DOMAIN runs :
          /\ c \in Claimable
          /\ SetStatus(c, "running")
          /\ wsnap' = [wsnap EXCEPT ![w] = runs[c].snapshot]
    BY DEF ClaimNextSnapshot, Oldest
  <1>3. /\ UNCHANGED <<snapshots, lastSnapshot, lastRun, held, cur>>
        /\ pc[w] = "idle" /\ pc' = [pc EXCEPT ![w] = "claimed"]
    BY DEF ClaimNextSnapshot, Goto
  <1>4. /\ wsnap'[w] = runs[c].snapshot
        /\ \A v \in Workers : v # w => wsnap'[v] = wsnap[v] /\ pc'[v] = pc[v]
    BY <1>2, <1>3 DEF TypeOK, MemoryOK
  <1>5. /\ Pending(c)
        /\ \A r \in RunsOf(runs[c].snapshot) : ~Running(r)
        /\ runs[c].snapshot \in snapshots
    BY <1>2 DEF Claimable, Locked, TypeOK
  <1>6. /\ \A s : RunsOf(s)' = RunsOf(s)
        /\ Running(c)' /\ ~Pending(c)'
        /\ \A q : q # c => (Running(q)' <=> Running(q)) /\ (Pending(q)' <=> Pending(q))
    BY <1>1, <1>2, SetStatusPredicates DEF Status
  <1>7. \A r : Owned(r)' <=> Owned(r)
    BY <1>3 DEF Owned
  <1>8. c \in RunIds /\ ~Owned(c)
    <2>1. c \in 1..lastRun /\ lastRun \in 0..MaxRuns
      BY <1>1 DEF TablesOK
    <2>2. c \in RunIds
      BY <2>1, ConstantsAssumption DEF RunIds
    <2> QED
      BY <1>5, <2>2 DEF OwnedOK
  <1>9. \A v \in Workers : Loading(v) => wsnap[v] # runs[c].snapshot
    BY <1>5 DEF ClaimKept
  <1>10. ClaimsAlone'
    BY <1>4, <1>9 DEF ClaimsAlone, Loading
  <1>11. OwnedOK'
    BY <1>3, <1>6, <1>7, <1>8 DEF OwnedOK
  <1>12. ClaimKept(w)'
    <2>1. c \in RunsOf(wsnap[w])'
      BY <1>2, <1>1, <1>4, SetStatusPredicates DEF RunsOf, Status
    <2>2. wsnap'[w] \in 1..lastSnapshot'
      BY <1>1, <1>3, <1>4, <1>5 DEF TablesOK
    <2> QED
      BY <2>1, <2>2, <1>6, <1>7, <1>8 DEF ClaimKept
  <1>13. ASSUME NEW v \in Workers, v # w, Loading(v)'
         PROVE  ClaimKept(v)'
    <2>1. Loading(v) /\ wsnap'[v] = wsnap[v]
      BY <1>4, <1>13 DEF Loading
    <2>2. ASSUME wsnap[v] \in snapshots
          PROVE  \E r \in RunsOf(wsnap[v])' : Running(r)' /\ ~Owned(r)'
      <3>1. PICK r \in RunsOf(wsnap[v]) : Running(r) /\ ~Owned(r)
        BY <2>1, <2>2 DEF ClaimKept
      <3>2. r # c
        BY <1>5, <3>1 DEF Pending, Running
      <3>3. r \in RunsOf(wsnap[v])'
        BY <1>1, <1>2, <2>1, SetStatusPredicates DEF RunsOf, Status
      <3> QED
        BY <1>6, <1>7, <3>1, <3>2, <3>3
    <2>3. wsnap[v] \in 1..lastSnapshot
      BY <2>1 DEF ClaimKept
    <2> QED
      BY <1>3, <2>1, <2>2, <2>3 DEF ClaimKept
  <1> QED
    BY <1>1, <1>10, <1>11, <1>12, <1>13

\* The list a worker loads has the running rows of its own snapshot only, where
\* nobody else is loading.
LEMMA ListClaimInv ==
    ASSUME ClaimInv, NEW w \in Workers, ListRuns(w)
    PROVE  ClaimInv'
  <1> USE DEF ClaimInv
  <1>1. TypeOK' /\ TablesOK
    BY NextTypeOK DEF Next, Work, TypeOK
  <1>2. /\ UNCHANGED <<snapshots, lastSnapshot, runs, lastRun, wsnap, cur>>
        /\ pc[w] = "listing" /\ pc' = [pc EXCEPT ![w] = "loop"]
        /\ held' = [held EXCEPT ![w] = {r \in RunsOf(wsnap[w]) : Running(r)}]
    BY DEF ListRuns, Goto, tables
  <1>3. \A v \in Workers : Loading(v)' => v # w /\ Loading(v)
    BY <1>2 DEF Loading, TypeOK, MemoryOK
  <1>4. ASSUME NEW r, Owned(r)'
        PROVE  Owned(r) \/ (r \in RunsOf(wsnap[w]) /\ Running(r))
    BY <1>2, <1>4 DEF Owned, TypeOK, MemoryOK
  <1>5. OwnedOK'
    BY <1>1, <1>2, <1>4 DEF OwnedOK, TablesOK, Running, Pending
  <1>6. ClaimsAlone'
    BY <1>2, <1>3 DEF ClaimsAlone, Loading
  <1>7. ASSUME NEW v \in Workers, Loading(v)'
        PROVE  ClaimKept(v)'
    <2>1. Loading(v) /\ wsnap[v] # wsnap[w]
      BY <1>2, <1>3, <1>7 DEF ClaimsAlone, Loading
    <2>2. ASSUME wsnap[v] \in snapshots
          PROVE  \E r \in RunsOf(wsnap[v])' : Running(r)' /\ ~Owned(r)'
      <3>1. PICK r \in RunsOf(wsnap[v]) : Running(r) /\ ~Owned(r)
        BY <2>1, <2>2 DEF ClaimKept
      <3>2. ~Owned(r)'
        BY <1>4, <2>1, <3>1 DEF RunsOf
      <3> QED
        BY <1>2, <3>1, <3>2 DEF RunsOf, Running
    <2> QED
      BY <1>2, <2>1, <2>2 DEF ClaimKept
  <1> QED
    BY <1>1, <1>5, <1>6, <1>7

\* The row that is started is pending, and so locks nothing yet.
LEMMA StartClaimInv ==
    ASSUME ClaimInv, NEW w \in Workers, StartRun(w)
    PROVE  ClaimInv'
  <1> USE DEF ClaimInv
  <1>1. TypeOK' /\ TablesOK
    BY NextTypeOK DEF Next, Work, TypeOK
  <1>2. PICK c \in todo[w] :
          /\ Pending(c) /\ c \in DOMAIN runs
          /\ SetStatus(c, "running")
          /\ cur' = [cur EXCEPT ![w] = c]
          /\ pc[w] = "loop" /\ pc' = [pc EXCEPT ![w] = "exec"]
    BY DEF StartRun, Take, Execute, Goto, Pending
  <1>3. UNCHANGED <<snapshots, lastSnapshot, lastRun, wsnap, held>>
    BY DEF StartRun
  <1>4. /\ DOMAIN runs' = DOMAIN runs
        /\ \A q \in DOMAIN runs : runs'[q].snapshot = runs[q].snapshot
        /\ Running(c)' /\ ~Pending(c)'
        /\ \A q : q # c => (Running(q)' <=> Running(q)) /\ (Pending(q)' <=> Pending(q))
    BY <1>1, <1>2, SetStatusPredicates DEF Status
  <1>5. \A r : Owned(r)' => Owned(r) \/ r = c
    BY <1>2, <1>3 DEF Owned, TypeOK, MemoryOK
  <1>6. OwnedOK'
    BY <1>1, <1>2, <1>3, <1>4, <1>5 DEF OwnedOK, TablesOK
  <1>7. \A v \in Workers : Loading(v)' => Loading(v)
    BY <1>2 DEF Loading, TypeOK, MemoryOK
  <1>8. ClaimsAlone'
    BY <1>3, <1>7 DEF ClaimsAlone, Loading
  <1>9. ASSUME NEW v \in Workers, Loading(v)'
        PROVE  ClaimKept(v)'
    <2>1. ClaimKept(v)
      BY <1>7, <1>9
    <2>2. ASSUME wsnap[v] \in snapshots
          PROVE  \E r \in RunsOf(wsnap[v])' : Running(r)' /\ ~Owned(r)'
      <3>1. PICK r \in RunsOf(wsnap[v]) : Running(r) /\ ~Owned(r)
        BY <2>1, <2>2 DEF ClaimKept
      <3>2. r # c
        BY <1>2, <3>1 DEF Pending, Running
      <3> QED
        BY <1>3, <1>4, <1>5, <3>1, <3>2 DEF RunsOf
    <2> QED
      BY <1>3, <2>1, <2>2 DEF ClaimKept
  <1> QED
    BY <1>1, <1>6, <1>8, <1>9

\* The row that is ended is its worker's, and so locks nothing for another.
LEMMA FinishClaimInv ==
    ASSUME ClaimInv, NEW w \in Workers, FinishRun(w), cur[w] \in DOMAIN runs
    PROVE  ClaimInv'
  <1> USE DEF ClaimInv
  <1>1. TypeOK' /\ TablesOK
    BY NextTypeOK DEF Next, Work, TypeOK
  <1>2. PICK c \in DOMAIN runs : c = cur[w]
    OBVIOUS
  <1>3. PICK st \in Outcomes(c) : SetStatus(c, st)
    BY <1>2 DEF FinishRun
  <1>4. /\ UNCHANGED <<snapshots, lastSnapshot, lastRun, wsnap, held>>
        /\ cur' = [cur EXCEPT ![w] = None]
        /\ pc[w] = "indexing" /\ pc' = [pc EXCEPT ![w] = "loop"]
    BY DEF FinishRun, Goto
  <1>5. st \in Status /\ st # "pending"
    BY ConstantsAssumption DEF Outcomes, Status
  <1>6. /\ DOMAIN runs' = DOMAIN runs
        /\ \A q \in DOMAIN runs : runs'[q].snapshot = runs[q].snapshot
        /\ ~Pending(c)'
        /\ \A q : q # c => (Running(q)' <=> Running(q)) /\ (Pending(q)' <=> Pending(q))
    BY <1>1, <1>3, <1>5, SetStatusPredicates
  <1>7. \A r : Owned(r)' => Owned(r) \/ r = None
    BY <1>4 DEF Owned, TypeOK, MemoryOK
  <1>8. None \notin RunIds
    BY ConstantsAssumption DEF RunIds, None
  <1>9. OwnedOK'
    BY <1>4, <1>6, <1>7, <1>8 DEF OwnedOK
  <1>10. \A v \in Workers : Loading(v)' => Loading(v)
    BY <1>4 DEF Loading, TypeOK, MemoryOK
  <1>11. ClaimsAlone'
    BY <1>4, <1>10 DEF ClaimsAlone, Loading
  <1>12. ASSUME NEW v \in Workers, Loading(v)'
         PROVE  ClaimKept(v)'
    <2>1. ClaimKept(v)
      BY <1>10, <1>12
    <2>2. ASSUME wsnap[v] \in snapshots
          PROVE  \E r \in RunsOf(wsnap[v])' : Running(r)' /\ ~Owned(r)'
      <3>1. PICK r \in RunsOf(wsnap[v]) : Running(r) /\ ~Owned(r)
        BY <2>1, <2>2 DEF ClaimKept
      <3>2. r # c
        BY <1>2, <3>1 DEF Owned
      <3>3. r # None
        BY <1>1, <3>1 DEF RunsOf, TablesOK, None
      <3> QED
        BY <1>4, <1>6, <1>7, <3>1, <3>2, <3>3 DEF RunsOf
    <2> QED
      BY <1>4, <2>1, <2>2 DEF ClaimKept
  <1> QED
    BY <1>1, <1>9, <1>11, <1>12

LEMMA NextClaimInv == ClaimInv /\ [Next]_vars => ClaimInv'
  <1> SUFFICES ASSUME ClaimInv, [Next]_vars PROVE ClaimInv'
    OBVIOUS
  <1> USE DEF ClaimInv
  <1>1. TypeOK'
    BY NextTypeOK
  <1>2. None \notin RunIds
    BY ConstantsAssumption DEF RunIds, None
  <1>3. CASE Handlers
    BY <1>3, HandlersClaimInv
  <1>4. ASSUME NEW w \in Workers, LoadSnapshot(w)
        PROVE  ClaimInv'
    BY <1>1, <1>4, QuietClaimInv
    DEF LoadSnapshot, Goto, memory, Loading, Owned, TypeOK, MemoryOK
  <1>5. ASSUME NEW w \in Workers,
               SnapshotGone(w) \/ LoadFails(w) \/ LoopDone(w)
        PROVE  ClaimInv'
    <2>1. /\ UNCHANGED tables
          /\ pc' = [pc EXCEPT ![w] = "idle"] /\ Forget(w)
      BY <1>5 DEF SnapshotGone, LoadFails, LoopDone, Goto
    <2>2. \A r \in RunIds : Owned(r)' => Owned(r)
      BY <1>2, <2>1 DEF Forget, Owned, TypeOK, MemoryOK
    <2>3. \A v \in Workers : Loading(v)' => Loading(v) /\ wsnap'[v] = wsnap[v]
      BY <2>1 DEF Forget, Loading, TypeOK, MemoryOK
    <2> QED
      BY <1>1, <2>1, <2>2, <2>3, QuietClaimInv
  <1>6. ASSUME NEW w \in Workers, RunHeld(w)
        PROVE  ClaimInv'
    <2>1. PICK c \in held[w] : cur' = [cur EXCEPT ![w] = c]
      BY <1>6 DEF RunHeld, Execute
    <2>2. /\ UNCHANGED <<tables, wsnap, held>>
          /\ pc' = [pc EXCEPT ![w] = "exec"]
      BY <1>6 DEF RunHeld, Execute, Goto
    <2>3. \A r \in RunIds : Owned(r)' => Owned(r)
      BY <2>1, <2>2 DEF Owned, TypeOK, MemoryOK
    <2>4. \A v \in Workers : Loading(v)' => Loading(v) /\ wsnap'[v] = wsnap[v]
      BY <2>2 DEF Loading, TypeOK, MemoryOK
    <2> QED
      BY <1>1, <2>2, <2>3, <2>4, QuietClaimInv
  <1>7. ASSUME NEW w \in Workers,
               \/ SkipRun(w) \/ StartFails(w) \/ Extract(w) \/ ExtractorHangs(w)
               \/ FinishFails(w) \/ (FinishRun(w) /\ cur[w] \notin DOMAIN runs)
        PROVE  ClaimInv'
    <2>1. /\ UNCHANGED <<tables, wsnap, held>>
          /\ pc' = pc \/ \E label \in {"indexing", "hung", "loop"} :
                           pc' = [pc EXCEPT ![w] = label]
          /\ cur' = cur \/ cur' = [cur EXCEPT ![w] = None]
      BY <1>7 DEF SkipRun, StartFails, Extract, ExtractorHangs, FinishFails,
                  FinishRun, Goto, tables, memory
    <2>2. \A r \in RunIds : Owned(r)' => Owned(r)
      BY <1>2, <2>1 DEF Owned, TypeOK, MemoryOK
    <2>3. \A v \in Workers : Loading(v)' => Loading(v) /\ wsnap'[v] = wsnap[v]
      BY <2>1 DEF Loading, TypeOK, MemoryOK
    <2> QED
      BY <1>1, <2>1, <2>2, <2>3, QuietClaimInv
  <1>8. CASE Crash \/ Restart \/ UNCHANGED vars
    BY <1>1, <1>2, <1>8, QuietClaimInv
    DEF Crash, Restart, vars, memory, Loading, Owned, None
  <1> QED
    BY <1>3, <1>4, <1>5, <1>6, <1>7, <1>8,
       ClaimClaimInv, ListClaimInv, StartClaimInv, FinishClaimInv
    DEF Next, Work, WorkerFault

\* Between its claim and the list it loads, a worker is alone with its snapshot,
\* however many processes work on the database and whatever fails: the query of
\* ClaimNextSnapshot (jobs.go:61), the guard of StartRun and the cascade of a
\* delete suffice for that, although they do not for NoIndexInterleaving.
THEOREM ClaimExclusive == Spec => []ClaimsAlone
  <1>1. Init => ClaimInv
    <2> SUFFICES ASSUME Init PROVE ClaimInv
      OBVIOUS
    <2>1. None \notin RunIds
      BY ConstantsAssumption DEF RunIds, None
    <2> QED
      BY <2>1, InitTypeOK DEF Init, ClaimInv, ClaimsAlone, OwnedOK, Owned, Loading
  <1> QED
    BY <1>1, NextClaimInv, PTL DEF Spec, ClaimInv
=============================================================================
