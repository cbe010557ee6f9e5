---------------------------- MODULE ImportProofs ----------------------------
(***************************************************************************)
(* What import may not undo, for every archive and every number of         *)
(* operations: a row and its index.json agree, an import shows what is on  *)
(* disk, and a deleted snapshot stays deleted.                             *)
(***************************************************************************)
EXTENDS Import, TimestampsProofs, FiniteSetTheorems

----------------------------------------------------------------------------
(* Types.                                                                  *)

\* Touch changes nothing but the set of timestamps touched.
LEMMA Touched ==
  ASSUME ImportOK, NEW ts \in Int64, Touch(ts)
  PROVE  /\ ImportOK'
         /\ import'.at = import.at /\ import'.left = import.left
         /\ import'.entries = import.entries
         /\ Importing => import'.touched = import.touched \cup {ts}
         /\ ~Importing => import' = import
BY DEF Touch, Importing, ImportOK

LEMMA EntryType ==
  ASSUME TypeOK, NEW n \in DOMAIN dir, dir[n].index.kind = "index"
  PROVE  /\ dir[n].index.title \in AnyTitle
         /\ Entry(n) \in [ts : Int64, title : AnyTitle]
         /\ Entry(n).ts = Parse(n)
<1>1. dir[n] \in [index : AnyIndex, best : AnyTitle] /\ n \in Name
  BY DEF TypeOK, DirOK
<1>2. PICK t \in AnyTitle : dir[n].index = Index(t)
  BY <1>1 DEF AnyIndex, NoIndex, Torn
<1>3. dir[n].index.title \in AnyTitle
  BY <1>2 DEF Index
<1>4. BestTitle(n) \in AnyTitle
  BY <1>1 DEF BestTitle, AnyTitle
<1> QED
  BY <1>1, <1>3, <1>4, ParseType DEF Entry

\* The number of new rows up to a timestamp tells them apart.
LEMMA Ranks ==
  ASSUME NEW S, IsFiniteSet(S), S \subseteq Int64
  PROVE  LET rank(ts) == Cardinality({u \in S : u <= ts})
         IN  /\ Cardinality(S) \in Nat
             /\ \A ts \in S : rank(ts) \in 1..Cardinality(S)
             /\ \A ts, u \in S : ts # u => rank(ts) # rank(u)
<1> DEFINE Upto(ts) == {u \in S : u <= ts}
<1>1. Cardinality(S) \in Nat
  BY FS_CardinalityType
<1>2. \A ts \in S : IsFiniteSet(Upto(ts)) /\ Cardinality(Upto(ts)) \in 1..Cardinality(S)
  <2> TAKE ts \in S
  <2>1. IsFiniteSet(Upto(ts)) /\ Cardinality(Upto(ts)) <= Cardinality(S)
    <3>1. Upto(ts) \subseteq S
      OBVIOUS
    <3> HIDE DEF Upto
    <3> QED
      BY <3>1, FS_Subset
  <2>2. ts \in Upto(ts)
    BY DEF Int64
  <2>3. Cardinality(Upto(ts)) # 0
    <3> HIDE DEF Upto
    <3> QED
      BY <2>1, <2>2, FS_EmptySet
  <2>4. Cardinality(Upto(ts)) \in Nat
    <3> HIDE DEF Upto
    <3> QED
      BY <2>1, FS_CardinalityType
  <2> HIDE DEF Upto
  <2> QED
    BY <1>1, <2>1, <2>3, <2>4
<1>3. ASSUME NEW ts \in S, NEW u \in S, ts < u
      PROVE  Cardinality(Upto(ts)) # Cardinality(Upto(u))
  <2>1. S \subseteq Int
    BY DEF Int64
  <2>2. ASSUME NEW v \in Upto(ts)
        PROVE  v \in Upto(u)
    <3>1. v \in S /\ v <= ts /\ v \in Int /\ ts \in Int /\ u \in Int
      BY <2>1
    <3>2. v <= u
      BY <1>3, <3>1
    <3> QED
      BY <3>1, <3>2
  <2>3. u \in Upto(u) /\ u \notin Upto(ts)
    BY <1>3, <2>1
  <2> HIDE DEF Upto
  <2> QED
    BY <1>2, <2>2, <2>3, FS_Subset
<1> HIDE DEF Upto
<1>4. \A ts, u \in S : ts # u => Cardinality(Upto(ts)) # Cardinality(Upto(u))
  <2> SUFFICES ASSUME NEW ts \in S, NEW u \in S, ts # u
               PROVE  Cardinality(Upto(ts)) # Cardinality(Upto(u))
    OBVIOUS
  <2>1. ts < u \/ u < ts
    BY DEF Int64
  <2> QED
    BY <1>3, <2>1
<1> QED
  BY <1>1, <1>2, <1>4 DEF Upto

\* The types, and that an import has read finitely many entries.
TypeInv == TypeOK /\ IsFiniteSet(import.entries)

LEMMA TypeInit == Init => TypeInv
<1> SUFFICES ASSUME Init PROVE TypeInv
  OBVIOUS
<1> USE DEF Init, TypeInv, TypeOK
<1>1. 0 \in Int64 /\ -Half \in Int64
  BY UnitType DEF Int64
<1>2. TableOK
  BY <1>1 DEF TableOK, RowIds, Empty
<1>3. DirOK
  BY ImportAssumption DEF DirOK
<1>4. WorkerOK
  BY <1>1 DEF WorkerOK, WorkerSteps, NoJob, AnyTitle
<1>5. ImportOK /\ IsFiniteSet(import.entries)
  BY FS_EmptySet DEF ImportOK, NoImport
<1>6. {Parse(n) : n \in DOMAIN dir} \subseteq Int64
  BY <1>3, ParseType DEF DirOK
<1> QED
  BY <1>2, <1>3, <1>4, <1>5, <1>6, ImportAssumption

\* What a commit does to the ids: the rows it finds keep theirs, and the rows
\* it makes get new ones.
LEMMA CommitIds ==
  ASSUME TypeInv, Commit
  PROVE  LET found == {e.ts : e \in import.entries}
             new   == found \ DOMAIN snapshots
         IN  /\ DOMAIN snapshots' = DOMAIN snapshots \cup found
             /\ found \subseteq Int64
             /\ snapshots' \in [DOMAIN snapshots' -> [id : Nat, title : AnyTitle]]
             /\ \A ts \in DOMAIN snapshots : snapshots'[ts].id = snapshots[ts].id
             /\ \A ts \in new : snapshots'[ts].id \in (lastId + 1)..lastId'
             /\ \A ts, u \in new : snapshots'[ts].id = snapshots'[u].id => ts = u
             /\ lastId \in Nat /\ lastId' \in Nat /\ lastId <= lastId'
<1> USE DEF TypeInv, TypeOK
<1> DEFINE found == {e.ts : e \in import.entries}
           new   == found \ DOMAIN snapshots
           rank(ts) == Cardinality({u \in new : u <= ts})
<1>1. found \subseteq Int64 /\ IsFiniteSet(found)
  <2>1. found \subseteq Int64
    BY DEF ImportOK
  <2> DEFINE f == [e \in import.entries |-> e.ts]
  <2>2. f \in Surjection(import.entries, found)
    BY DEF Surjection
  <2> HIDE DEF f, found
  <2> QED
    BY <2>1, <2>2, FS_Surjection
<1>2. IsFiniteSet(new) /\ new \subseteq Int64
  BY <1>1, FS_Subset
<1>3. /\ Cardinality(new) \in Nat
      /\ \A ts \in new : rank(ts) \in 1..Cardinality(new)
      /\ \A ts, u \in new : ts # u => rank(ts) # rank(u)
  <2> HIDE DEF new
  <2> QED
    BY <1>2, Ranks
<1>4. PICK t \in [found -> AnyTitle] :
        snapshots' = [ts \in DOMAIN snapshots \cup found |->
                        IF ts \in found THEN Upsert(ts, lastId + rank(ts), t[ts])
                        ELSE snapshots[ts]]
  BY DEF Commit
<1>5. /\ lastId' = lastId + Cardinality(new)
      /\ lastId \in Nat /\ lastId' \in Nat /\ lastId <= lastId'
  <2>1. lastId' = lastId + Cardinality(new) /\ lastId \in Nat
    BY DEF Commit, TableOK
  <2> HIDE DEF new
  <2> QED
    BY <1>3, <2>1
<1> HIDE DEF rank, found
<1>6. DOMAIN snapshots' = DOMAIN snapshots \cup found
  BY <1>4
<1>7. \A ts \in DOMAIN snapshots \cup found :
        /\ snapshots'[ts] \in [id : Nat, title : AnyTitle]
        /\ ts \in DOMAIN snapshots => snapshots'[ts].id = snapshots[ts].id
        /\ ts \in new => snapshots'[ts].id = lastId + rank(ts)
  BY <1>3, <1>4, <1>5 DEF Upsert, TableOK
<1>8. snapshots' \in [DOMAIN snapshots' -> [id : Nat, title : AnyTitle]]
  BY <1>4, <1>6, <1>7
<1>9. ASSUME NEW ts \in new
      PROVE  snapshots'[ts].id \in (lastId + 1)..lastId'
  <2>1. rank(ts) \in 1..Cardinality(new) /\ snapshots'[ts].id = lastId + rank(ts)
    BY <1>3, <1>7
  <2> HIDE DEF new
  <2> QED
    BY <1>3, <1>5, <2>1
<1>10. ASSUME NEW ts \in new, NEW u \in new, snapshots'[ts].id = snapshots'[u].id
       PROVE  ts = u
  <2>1. /\ rank(ts) \in Nat /\ rank(u) \in Nat
        /\ snapshots'[ts].id = lastId + rank(ts)
        /\ snapshots'[u].id = lastId + rank(u)
    BY <1>3, <1>7
  <2>2. lastId + rank(ts) = lastId + rank(u)
    BY <1>10, <2>1
  <2>3. rank(ts) = rank(u)
    BY <1>5, <2>1, <2>2
  <2> QED
    BY <1>3, <2>3
<1> QED
  BY <1>1, <1>5, <1>6, <1>7, <1>8, <1>9, <1>10 DEF found

LEMMA TypeStep == TypeInv /\ [Next]_ivars => TypeInv'
<1> SUFFICES ASSUME TypeInv, [Next]_ivars PROVE TypeInv'
  OBVIOUS
<1> USE DEF TypeInv, TypeOK
<1>0. \A ts \in Int64 : Format(ts) \in Name /\ Parse(Format(ts)) = ts
  BY FormatType, RoundTrip
<1>1. ASSUME NEW ts \in Times, Add(ts) PROVE TypeInv'
  <2>1. ts \in Int64
    BY ImportAssumption
  <2>2. TableOK'
    BY <1>1, <2>1 DEF Add, Insert, Put, TableOK, RowIds, AnyTitle
  <2>3. WorkerOK'
    BY <1>1 DEF Add, WorkerOK, TableOK
  <2> QED
    BY <1>1, <2>1, <2>2, <2>3, Touched DEF Add, DirOK
<1>2. ASSUME NEW n \in Copied, NEW t \in AnyTitle, NEW best \in AnyTitle,
             Copy(n, t, best)
      PROVE  TypeInv'
  <2>1. n \in Name /\ Parse(n) \in Int64
    BY ImportAssumption, ParseType
  <2>2. DirOK'
    BY <1>2, <2>1 DEF Copy, Put, DirOK, AnyIndex
  <2> QED
    BY <1>2, <2>1, <2>2, Touched, ImportAssumption
    DEF Copy, Operate, table, TableOK, RowIds, WorkerOK
<1>3. ASSUME NEW ts \in DOMAIN snapshots, DeleteRow(ts) PROVE TypeInv'
  <2>1. ts \in Int64
    BY DEF TableOK
  <2>2. TableOK'
    BY <1>3 DEF DeleteRow, Keep, TableOK, RowIds
  <2>3. WorkerOK'
    BY <1>3 DEF DeleteRow, WorkerOK
  <2> QED
    BY <1>3, <2>1, <2>2, <2>3, Touched, ImportAssumption
    DEF DeleteRow, Operate, hist, DirOK
<1>4. ASSUME NEW ts \in removing, RemoveDir(ts) PROVE TypeInv'
  <2>1. DirOK'
    BY <1>4 DEF RemoveDir, Keep, DirOK
  <2> QED
    BY <1>4, <2>1, Touched DEF RemoveDir, table, TableOK, RowIds, WorkerOK
<1>5. ASSUME NEW ts \in removing, RemoveFails(ts) PROVE TypeInv'
  BY <1>5 DEF RemoveFails, table, hist, TableOK, RowIds, DirOK, WorkerOK, ImportOK
<1>5a. ASSUME NEW ts \in removing, RemoveEntry(ts) PROVE TypeInv'
  <2>1. DirOK'
    BY <1>5a DEF RemoveEntry, DirOK, AnyIndex
  <2> QED
    BY <1>5a, <2>1, Touched
    DEF RemoveEntry, table, hist, TableOK, RowIds, WorkerOK
<1>6. ASSUME NEW ts \in DOMAIN snapshots, Load(ts) PROVE TypeInv'
  <2>1. ts \in Int64
    BY DEF TableOK
  <2>2. WorkerOK'
    BY <1>6, <2>1 DEF Load, WorkerOK, WorkerSteps, TableOK, RowIds, table
  <2> QED
    BY <1>6, <2>1, <2>2, Touched, ImportAssumption
    DEF Load, Operate, table, hist, TableOK, RowIds, DirOK
<1>7. CASE Mkdir
  <2>1. worker.ts \in Int64 /\ Home \in Name
    BY <1>0 DEF WorkerOK, Home
  <2>2. DirOK'
    BY <1>7, <2>1 DEF Mkdir, Put, DirOK, AnyIndex, AnyTitle
  <2>3. WorkerOK'
    BY <1>7 DEF Mkdir, Work, WorkerOK, WorkerSteps, table
  <2> QED
    BY <1>7, <2>1, <2>2, <2>3, Touched DEF Mkdir, table, hist, TableOK, RowIds
<1>8. CASE StartRun
  BY <1>8 DEF StartRun, Work, WorkerSteps, table, hist, TableOK, RowIds, DirOK,
              WorkerOK, ImportOK
<1>9. CASE RunGone
  <2>1. NoJob \in [at : WorkerSteps, ts : Int64, id : Nat,
                   title : AnyTitle, alone : BOOLEAN] /\ NoJob.id = 0
    BY UnitType DEF NoJob, WorkerSteps, AnyTitle, Int64
  <2> QED
    BY <1>9, <2>1 DEF RunGone, table, hist, TableOK, RowIds, DirOK, WorkerOK, ImportOK
<1>10. CASE Extract
  <2>1. worker.ts \in Int64
    BY DEF WorkerOK
  <2>2. DirOK'
    BY <1>10 DEF Extract, DirOK
  <2>3. WorkerOK'
    BY <1>10 DEF Extract, Work, WorkerOK, WorkerSteps, table
  <2> QED
    BY <1>10, <2>1, <2>2, <2>3, Touched DEF Extract, table, hist, TableOK, RowIds
<1>11. CASE SaveTitle
  <2>1. worker.ts \in Int64
    BY DEF WorkerOK
  <2>2. BestTitle(Home) \in AnyTitle
    BY DEF BestTitle, DirOK, AnyTitle
  <2>3. TableOK'
    BY <1>11, <2>2 DEF SaveTitle, TableOK, RowIds
  <2>4. WorkerOK'
    BY <1>11, <2>2 DEF SaveTitle, WorkerOK, WorkerSteps
  <2> QED
    BY <1>11, <2>1, <2>3, <2>4, Touched DEF SaveTitle, hist, DirOK
<1>12. CASE Truncate
  <2>1. worker.ts \in Int64
    BY DEF WorkerOK
  <2>2. DirOK'
    BY <1>12 DEF Truncate, WriteIndex, DirOK, AnyIndex
  <2>3. WorkerOK'
    BY <1>12 DEF Truncate, WriteIndex, Work, WorkerOK, WorkerSteps, table
  <2> QED
    BY <1>12, <2>1, <2>2, <2>3, Touched
    DEF Truncate, WriteIndex, table, TableOK, RowIds
<1>13. CASE Fill
  <2>1. worker.ts \in Int64 /\ worker.title \in AnyTitle
    BY DEF WorkerOK
  <2>2. DirOK'
    BY <1>13, <2>1 DEF Fill, WriteIndex, DirOK, AnyIndex
  <2>3. WorkerOK'
    BY <1>13 DEF Fill, WriteIndex, Work, WorkerOK, WorkerSteps, table
  <2> QED
    BY <1>13, <2>1, <2>2, <2>3, Touched
    DEF Fill, WriteIndex, table, TableOK, RowIds
<1>14. CASE Crash
  <2>1. worker.ts \in Int64
    BY DEF WorkerOK
  <2>2. WorkerOK'
    BY <1>14, UnitType
    DEF Crash, NoJob, WorkerOK, WorkerSteps, AnyTitle, Int64, table, TableOK
  <2> QED
    BY <1>14, <2>1, <2>2 DEF Crash, table, TableOK, RowIds, DirOK, ImportOK
<1>14a. CASE NextRun
  BY <1>14a, ImportAssumption
  DEF NextRun, Operate, Work, WorkerSteps, table, hist, TableOK, RowIds, DirOK,
      WorkerOK, ImportOK
<1>14b. CASE PassDone
  <2>1. WorkerOK'
    BY <1>14b, UnitType
    DEF PassDone, NoJob, WorkerOK, WorkerSteps, AnyTitle, Int64, table, TableOK
  <2> QED
    BY <1>14b, <2>1 DEF PassDone, table, hist, TableOK, RowIds, DirOK, ImportOK
<1>15. CASE StartImport
  <2>1. ImportOK' /\ IsFiniteSet(import'.entries)
    BY <1>15, FS_EmptySet DEF StartImport, ImportOK, DirOK, WorkerOK
  <2>2. WorkerOK'
    BY <1>15 DEF StartImport, WorkerOK, table
  <2> QED
    BY <1>15, <2>1, <2>2, ImportAssumption
    DEF StartImport, Operate, table, hist, TableOK, RowIds, DirOK
<1>16. ASSUME NEW n \in import.left, ReadEntry(n) PROVE TypeInv'
  <2>1. ImportOK' /\ IsFiniteSet(import'.entries)
    <3>1. CASE n \in DOMAIN dir /\ dir[n].index.kind = "index"
      <4>1. import' = [import EXCEPT !.left = @ \ {n}, !.entries = @ \cup {Entry(n)}]
        BY <1>16, <3>1 DEF ReadEntry
      <4>2. Entry(n) \in [ts : Int64, title : AnyTitle]
        BY <3>1, EntryType
      <4>3. import'.entries = import.entries \cup {Entry(n)}
        BY <4>1 DEF ImportOK
      <4>4. IsFiniteSet(import'.entries)
        BY <4>3, FS_AddElement
      <4> QED
        BY <4>1, <4>2, <4>4 DEF ImportOK
    <3>2. CASE ~(n \in DOMAIN dir /\ dir[n].index.kind = "index")
      <4>1. import' = [import EXCEPT !.left = @ \ {n}, !.entries = @ \cup {}]
        BY <1>16, <3>2 DEF ReadEntry
      <4>2. import'.entries = import.entries
        BY <4>1 DEF ImportOK
      <4> QED
        BY <4>1, <4>2 DEF ImportOK
    <3> QED
      BY <3>1, <3>2
  <2> QED
    BY <1>16, <2>1 DEF ReadEntry, table, hist, TableOK, RowIds, DirOK, WorkerOK
<1>17. CASE Commit
  <2> DEFINE found == {e.ts : e \in import.entries}
             new   == found \ DOMAIN snapshots
  <2>1. /\ DOMAIN snapshots' = DOMAIN snapshots \cup found /\ found \subseteq Int64
        /\ snapshots' \in [DOMAIN snapshots' -> [id : Nat, title : AnyTitle]]
        /\ \A ts \in DOMAIN snapshots : snapshots'[ts].id = snapshots[ts].id
        /\ \A ts \in new : snapshots'[ts].id \in (lastId + 1)..lastId'
        /\ \A ts, u \in new : snapshots'[ts].id = snapshots'[u].id => ts = u
        /\ lastId \in Nat /\ lastId' \in Nat /\ lastId <= lastId'
    BY <1>17, CommitIds
  <2>6. TableOK'
    <3> HIDE DEF found
    <3>3. \A ts \in DOMAIN snapshots : snapshots'[ts].id \in 1..lastId
      BY <2>1 DEF TableOK, RowIds
    <3>4. ASSUME NEW ts \in DOMAIN snapshots'
          PROVE  snapshots'[ts].id \in 1..lastId'
      <4>1. CASE ts \in DOMAIN snapshots
        BY <2>1, <3>3, <4>1
      <4>2. CASE ts \notin DOMAIN snapshots
        BY <2>1, <4>2
      <4> QED
        BY <4>1, <4>2
    <3>5. ASSUME NEW ts \in DOMAIN snapshots', NEW u \in DOMAIN snapshots' \ {ts}
          PROVE  snapshots'[u].id # snapshots'[ts].id
      <4>1. CASE ts \in DOMAIN snapshots /\ u \in DOMAIN snapshots
        BY <2>1, <4>1 DEF TableOK, RowIds
      <4>2. CASE ts \notin DOMAIN snapshots /\ u \notin DOMAIN snapshots
        BY <2>1, <4>2
      <4>3. CASE (ts \in DOMAIN snapshots) # (u \in DOMAIN snapshots)
        BY <2>1, <3>3, <4>3
      <4> QED
        BY <4>1, <4>2, <4>3
    <3>6. RowIds'
      BY <3>4, <3>5 DEF RowIds
    <3> QED
      BY <1>17, <2>1, <3>6 DEF Commit, TableOK
  <2>7. WorkerOK'
    BY <1>17, <2>1 DEF Commit, WorkerOK
  <2>8. ImportOK' /\ IsFiniteSet(import'.entries)
    BY <1>17, FS_EmptySet DEF Commit, ImportOK, NoImport
  <2> QED
    BY <1>17, <2>6, <2>7, <2>8 DEF Commit, DirOK
<1>18. CASE ImportFails
  <2>1. ImportOK' /\ IsFiniteSet(import'.entries)
    BY <1>18, FS_EmptySet DEF ImportFails, ImportOK, NoImport
  <2> QED
    BY <1>18, <2>1 DEF ImportFails, table, hist, TableOK, RowIds, DirOK, WorkerOK
<1>19. CASE UNCHANGED ivars
  BY <1>19 DEF ivars, table, hist, TableOK, RowIds, DirOK, WorkerOK, ImportOK
<1> QED
  BY <1>1, <1>2, <1>3, <1>4, <1>5, <1>6, <1>7, <1>8, <1>9, <1>10, <1>11,
     <1>12, <1>13, <1>14, <1>15, <1>16, <1>17, <1>18, <1>19, <1>5a, <1>14a, <1>14b
  DEF Next, User, Worker, ImportStep

\* The table, the directories and the two processes keep their types, and
\* no two rows share an id (AUTOINCREMENT since schema v3).
THEOREM TypeCorrect == Spec => []TypeOK
<1>1. TypeInv => TypeOK
  BY DEF TypeInv
<1> QED
  BY <1>1, TypeInit, TypeStep, PTL DEF Spec

----------------------------------------------------------------------------
(* The inductive invariant.                                                *)

\* A title that the only directory of ts does not contradict.
Agrees(ts, t) ==
    Whole(Format(ts)) /\ Homes(ts) = {Format(ts)}
      => dir[Format(ts)].index.title \in {NoTitle, t}

RowsAgree ==
    \A ts \in DOMAIN snapshots \ unsettled :
      ~Writing(ts) => Agrees(ts, snapshots[ts].title)

\* What an import has read would be no news to the index.json it came from.
EntriesAgree ==
    \A e \in import.entries :
      e.ts \notin unsettled /\ ~Writing(e.ts) => Agrees(e.ts, e.title)

\* What an import has read of the snapshots that nobody touched is what is
\* there, and what it has not read it is still going to read.
ScanCurrent ==
    Importing =>
      /\ \A n \in DOMAIN dir :
           Whole(n) /\ Parse(n) \notin import.touched =>
             n \in import.left \/ Entry(n) \in import.entries
      /\ \A e \in import.entries : e.ts \notin import.touched =>
           \E n \in Homes(e.ts) : Whole(n) /\ e = Entry(n)

\* The title in the worker's memory is the row's.
WorkerAgrees ==
    worker.at # "idle" /\ worker.alone =>
      /\ ~Importing
      /\ worker.ts \in DOMAIN snapshots
      /\ snapshots[worker.ts].title = worker.title

Forgotten(ts) ==
    /\ ts \notin DOMAIN snapshots /\ Homes(ts) = {}
    /\ worker.at = "idle" \/ worker.ts # ts
    /\ \A e \in import.entries : e.ts # ts

GoneForgotten == \A ts \in gone : Forgotten(ts)

NoScan == ~Importing => import = NoImport

DataInv == RowsAgree /\ EntriesAgree /\ ScanCurrent /\ GoneForgotten

ImportInv == TypeInv /\ NoScan /\ WorkerAgrees /\ DataInv

LEMMA HomeOf ==
  ASSUME NEW ts \in Int64
  PROVE  Format(ts) \in Name /\ Parse(Format(ts)) = ts
BY FormatType, RoundTrip

----------------------------------------------------------------------------
(* Most steps are about one snapshot: what they leave alone of the others. *)

DirOnlyAt(ts) ==
    \A n \in Name : Parse(n) # ts =>
      /\ n \in DOMAIN dir' <=> n \in DOMAIN dir
      /\ n \in DOMAIN dir => dir'[n] = dir[n]

OnlyAt(ts) ==
    /\ DirOnlyAt(ts)
    /\ Touch(ts) \/ (import' = import /\ dir' = dir)
    /\ \A u \in Int64 \ {ts} :
         /\ u \in DOMAIN snapshots' <=> u \in DOMAIN snapshots
         /\ u \in DOMAIN snapshots => snapshots'[u] = snapshots[u]
         /\ u \in unsettled' <=> u \in unsettled
         /\ u \in gone' => u \in gone
         /\ Writing(u)' <=> Writing(u)
         /\ worker'.at = "idle" \/ worker'.ts # u \/
              (worker.at # "idle" /\ worker.ts = u)

LEMMA Elsewhere ==
  ASSUME TypeInv, TypeInv', NEW ts \in Int64, DirOnlyAt(ts), NEW u \in Int64, u # ts
  PROVE  /\ Homes(u)' = Homes(u)
         /\ \A t : Agrees(u, t)' <=> Agrees(u, t)
         /\ \A n \in Homes(u) : Whole(n)' <=> Whole(n)
         /\ \A n \in Homes(u) : Whole(n) => Entry(n)' = Entry(n)
<1>1. DOMAIN dir \subseteq Name /\ DOMAIN dir' \subseteq Name
  BY DEF TypeInv, TypeOK, DirOK
<1>2. Homes(u)' = Homes(u)
  BY <1>1 DEF Homes, DirOnlyAt
<1>3. \A n \in Homes(u) : n \in DOMAIN dir /\ n \in DOMAIN dir' /\ dir'[n] = dir[n]
  BY <1>1 DEF Homes, DirOnlyAt
<1>4. \A n \in Homes(u) : Whole(n)' <=> Whole(n)
  BY <1>3 DEF Whole
<1>5. \A n \in Homes(u) : Whole(n) => Entry(n)' = Entry(n)
  BY <1>3 DEF Entry, BestTitle
<1>6. \A t : Agrees(u, t)' <=> Agrees(u, t)
  BY <1>2, <1>3, <1>4 DEF Agrees
<1> QED
  BY <1>2, <1>4, <1>5, <1>6

\* For such a step it is enough to look at that snapshot.
LEMMA Local ==
  ASSUME ImportInv, TypeInv', NEW ts \in Int64, OnlyAt(ts),
         ts \in DOMAIN snapshots' /\ ts \notin unsettled' /\ ~Writing(ts)'
           => Agrees(ts, snapshots[ts].title)',
         \A e \in import.entries :
           e.ts = ts /\ ts \notin unsettled' /\ ~Writing(ts)' => Agrees(ts, e.title)',
         ts \in gone' => Forgotten(ts)'
  PROVE  DataInv'
<1> USE DEF ImportInv, DataInv
<1>1. /\ DOMAIN snapshots' \subseteq Int64
      /\ import.entries \subseteq [ts : Int64, title : AnyTitle]
      /\ gone' \subseteq Int64
      /\ DOMAIN dir \subseteq Name /\ DOMAIN dir' \subseteq Name
  BY DEF TypeInv, TypeOK, TableOK, ImportOK, DirOK
<1>2. /\ import'.entries = import.entries /\ import'.left = import.left
      /\ Importing' <=> Importing
      /\ import.touched \subseteq import'.touched
      /\ Importing => ts \in import'.touched \/ dir' = dir
  BY Touched DEF OnlyAt, TypeInv, TypeOK, Importing
<1>3. ASSUME NEW u \in Int64, u # ts
      PROVE  /\ Homes(u)' = Homes(u)
             /\ \A t : Agrees(u, t)' <=> Agrees(u, t)
             /\ \A n \in Homes(u) : Whole(n)' <=> Whole(n)
             /\ \A n \in Homes(u) : Whole(n) => Entry(n)' = Entry(n)
  BY <1>3, Elsewhere DEF OnlyAt
<1>4. RowsAgree'
  <2> SUFFICES ASSUME NEW u \in DOMAIN snapshots', u \notin unsettled', ~Writing(u)'
               PROVE  Agrees(u, snapshots[u].title)'
    BY DEF RowsAgree
  <2>1. CASE u = ts
    BY <2>1
  <2>2. CASE u # ts
    <3>1. u \in DOMAIN snapshots /\ u \notin unsettled /\ ~Writing(u)
          /\ snapshots'[u] = snapshots[u]
      BY <1>1, <2>2 DEF OnlyAt
    <3>2. Agrees(u, snapshots[u].title)
      BY <3>1 DEF RowsAgree
    <3> QED
      BY <1>1, <1>3, <2>2, <3>1, <3>2
  <2> QED
    BY <2>1, <2>2
<1>5. EntriesAgree'
  <2> SUFFICES ASSUME NEW e \in import.entries, e.ts \notin unsettled', ~Writing(e.ts)'
               PROVE  Agrees(e.ts, e.title)'
    BY <1>2 DEF EntriesAgree
  <2>1. CASE e.ts = ts
    BY <2>1
  <2>2. CASE e.ts # ts
    <3>1. e.ts \in Int64 /\ e.ts \notin unsettled /\ ~Writing(e.ts)
      BY <1>1, <2>2 DEF OnlyAt
    <3>2. Agrees(e.ts, e.title)
      BY <3>1 DEF EntriesAgree
    <3> QED
      BY <1>3, <2>2, <3>1, <3>2
  <2> QED
    BY <2>1, <2>2
<1>6. ScanCurrent'
  <2>1. CASE dir' = dir
    BY <1>2, <2>1 DEF ScanCurrent, Whole, Homes, Entry, BestTitle
  <2>2. CASE Importing /\ ts \in import'.touched
    <3>1. ASSUME NEW n \in DOMAIN dir', Whole(n)', Parse(n) \notin import'.touched
          PROVE  n \in import.left \/ Entry(n)' \in import.entries
      <4>1. Parse(n) # ts /\ Parse(n) \in Int64 /\ Parse(n) \notin import.touched
        BY <1>1, <1>2, <2>2, <3>1, ParseType
      <4>2. n \in Homes(Parse(n))
        BY <1>1, <4>1 DEF OnlyAt, DirOnlyAt, Homes
      <4>3. n \in DOMAIN dir /\ Whole(n) /\ Entry(n)' = Entry(n)
        BY <1>3, <3>1, <4>1, <4>2 DEF Homes
      <4> QED
        BY <2>2, <4>1, <4>3 DEF ScanCurrent
    <3>2. ASSUME NEW e \in import.entries, e.ts \notin import'.touched
          PROVE  \E n \in Homes(e.ts)' : Whole(n)' /\ e = Entry(n)'
      <4>1. e.ts # ts /\ e.ts \in Int64 /\ e.ts \notin import.touched
        BY <1>1, <1>2, <2>2, <3>2
      <4>2. PICK n \in Homes(e.ts) : Whole(n) /\ e = Entry(n)
        BY <2>2, <4>1 DEF ScanCurrent
      <4> QED
        BY <1>3, <4>1, <4>2
    <3> QED
      BY <1>2, <3>1, <3>2 DEF ScanCurrent
  <2>3. CASE ~Importing
    BY <1>2, <2>3 DEF ScanCurrent
  <2> QED
    BY <1>2, <2>1, <2>2, <2>3
<1>7. GoneForgotten'
  <2> SUFFICES ASSUME NEW u \in gone' PROVE Forgotten(u)'
    BY DEF GoneForgotten
  <2>1. CASE u = ts
    BY <2>1
  <2>2. CASE u # ts
    <3>1. u \in Int64 /\ u \in gone
      BY <1>1, <2>2 DEF OnlyAt
    <3>2. Forgotten(u)
      BY <3>1 DEF GoneForgotten
    <3>3. u \notin DOMAIN snapshots' /\ Homes(u)' = {}
          /\ (worker'.at = "idle" \/ worker'.ts # u)
      BY <1>3, <2>2, <3>1, <3>2 DEF OnlyAt, Forgotten
    <3> QED
      BY <1>2, <3>2, <3>3 DEF Forgotten
  <2> QED
    BY <2>1, <2>2
<1> QED
  BY <1>4, <1>5, <1>6, <1>7

----------------------------------------------------------------------------
(* The steps.                                                              *)

LEMMA InvInit == Init => ImportInv
<1> SUFFICES ASSUME Init PROVE ImportInv
  OBVIOUS
<1>1. import = NoImport /\ worker = NoJob /\ gone = {} /\ DOMAIN snapshots = {}
  BY DEF Init, Empty
<1> QED
  BY <1>1, TypeInit
  DEF ImportInv, DataInv, NoScan, WorkerAgrees, RowsAgree, EntriesAgree, ScanCurrent,
      GoneForgotten, Importing, NoImport, NoJob

LEMMA AddStep ==
  ASSUME ImportInv, TypeInv', NEW ts \in Times, Add(ts)
  PROVE  ImportInv'
<1>1. ts \in Int64 /\ Homes(ts) = {} /\ ts \notin DOMAIN snapshots
  BY ImportAssumption DEF Add
<1>2. dir' = dir /\ worker' = worker /\ unsettled' = unsettled
  BY DEF Add
<1>3. OnlyAt(ts)
  BY <1>1, <1>2 DEF OnlyAt, DirOnlyAt, Add, Put, Writing
<1>4. \A t : Agrees(ts, t)'
  BY <1>1, <1>2 DEF Agrees, Homes
<1>5. DataInv'
  BY <1>1, <1>3, <1>4, Local DEF Add
<1>6. NoScan' /\ (Importing' <=> Importing)
  BY <1>1, Touched DEF Add, NoScan, ImportInv, TypeInv, TypeOK, Importing
<1>7. WorkerAgrees'
  BY <1>2, <1>6 DEF Add, Put, ImportInv, WorkerAgrees
<1> QED
  BY <1>5, <1>6, <1>7 DEF ImportInv

LEMMA CopyStep ==
  ASSUME ImportInv, TypeInv', NEW n \in Copied, NEW t \in AnyTitle,
         NEW best \in AnyTitle, Copy(n, t, best)
  PROVE  ImportInv'
<1> DEFINE ts == Parse(n)
<1>1. n \in Name /\ ts \in Int64
  BY ImportAssumption, ParseType
<1>2. UNCHANGED <<snapshots, worker>>
  BY DEF Copy, table
<1>3. ts \in unsettled' /\ ts \notin gone'
  BY DEF Copy
<1>4. OnlyAt(ts)
  BY <1>1, <1>2 DEF OnlyAt, DirOnlyAt, Copy, Put, Writing
<1>5. DataInv'
  BY <1>1, <1>3, <1>4, Local
<1>6. NoScan' /\ (Importing' <=> Importing)
  BY <1>1, Touched DEF Copy, NoScan, ImportInv, TypeInv, TypeOK, Importing
<1> QED
  BY <1>2, <1>5, <1>6 DEF ImportInv, WorkerAgrees

LEMMA DeleteRowStep ==
  ASSUME ImportInv, TypeInv', NEW ts \in DOMAIN snapshots, DeleteRow(ts)
  PROVE  ImportInv'
<1>1. ts \in Int64
  BY DEF ImportInv, TypeInv, TypeOK, TableOK
<1>2. /\ UNCHANGED <<dir, unsettled, gone>>
      /\ worker'.at = worker.at /\ worker'.ts = worker.ts
      /\ worker'.title = worker.title
      /\ worker'.alone => worker.alone /\ (worker.at # "idle" => worker.ts # ts)
      /\ DOMAIN snapshots' = DOMAIN snapshots \ {ts}
      /\ \A u \in DOMAIN snapshots' : snapshots'[u] = snapshots[u]
  BY DEF DeleteRow, hist, Keep, ImportInv, TypeInv, TypeOK, WorkerOK
<1>3. OnlyAt(ts)
  BY <1>1, <1>2 DEF OnlyAt, DirOnlyAt, DeleteRow, Writing
<1>4. \A e \in import.entries :
        e.ts = ts /\ ts \notin unsettled' /\ ~Writing(ts)' => Agrees(ts, e.title)'
  <2>1. \A t : Agrees(ts, t)' <=> Agrees(ts, t)
    BY <1>2 DEF Agrees, Whole, Homes
  <2> QED
    BY <1>2, <2>1 DEF ImportInv, DataInv, EntriesAgree, Writing
<1>5. ts \notin gone'
  BY <1>2 DEF ImportInv, DataInv, GoneForgotten, Forgotten
<1>6. DataInv'
  BY <1>1, <1>2, <1>3, <1>4, <1>5, Local
<1>7. NoScan' /\ (Importing' <=> Importing)
  BY <1>1, Touched DEF DeleteRow, NoScan, ImportInv, TypeInv, TypeOK, Importing
<1>8. WorkerAgrees'
  BY <1>2, <1>7 DEF ImportInv, WorkerAgrees
<1> QED
  BY <1>6, <1>7, <1>8 DEF ImportInv

LEMMA RemoveDirStep ==
  ASSUME ImportInv, TypeInv', NEW ts \in removing, RemoveDir(ts)
  PROVE  ImportInv'
<1>1. ts \in Int64
  BY DEF ImportInv, TypeInv, TypeOK
<1>2. UNCHANGED <<snapshots, worker, unsettled>>
  BY DEF RemoveDir, table
<1>3. /\ DOMAIN dir' = DOMAIN dir \ {Format(ts)}
      /\ \A n \in DOMAIN dir' : dir'[n] = dir[n]
  BY DEF RemoveDir, Keep
<1>4. OnlyAt(ts)
  BY <1>1, <1>2, <1>3, HomeOf DEF OnlyAt, DirOnlyAt, RemoveDir, Writing
<1>5. \A t : Agrees(ts, t)'
  BY <1>3 DEF Agrees, Whole
<1>6. NoScan' /\ (Importing' <=> Importing) /\ import'.entries = import.entries
  BY <1>1, Touched DEF RemoveDir, NoScan, ImportInv, TypeInv, TypeOK, Importing
<1>7. ts \in gone' => Forgotten(ts)'
  <2>1. CASE ts \in gone
    <3>1. Forgotten(ts)
      BY <2>1 DEF ImportInv, DataInv, GoneForgotten
    <3>2. Homes(ts)' = {}
      BY <1>3, <3>1 DEF Forgotten, Homes
    <3> QED
      BY <1>2, <1>6, <3>1, <3>2 DEF Forgotten
  <2>2. CASE ts \notin gone
    <3> SUFFICES ASSUME ts \in gone' PROVE Forgotten(ts)'
      OBVIOUS
    <3>1. /\ Homes(ts) \subseteq {Format(ts)} /\ ts \notin DOMAIN snapshots
          /\ ~Importing /\ (worker.at = "idle" \/ worker.ts # ts)
      BY <2>2 DEF RemoveDir
    <3>2. Homes(ts)' = {}
      BY <1>3, <3>1 DEF Homes
    <3>3. import.entries = {}
      BY <3>1 DEF ImportInv, NoScan, NoImport
    <3> QED
      BY <1>2, <1>6, <3>1, <3>2, <3>3 DEF Forgotten
  <2> QED
    BY <2>1, <2>2
<1>8. DataInv'
  BY <1>1, <1>4, <1>5, <1>7, Local
<1> QED
  BY <1>2, <1>6, <1>8 DEF ImportInv, WorkerAgrees

LEMMA RemoveEntryStep ==
  ASSUME ImportInv, TypeInv', NEW ts \in removing, RemoveEntry(ts)
  PROVE  ImportInv'
<1> DEFINE home == Format(ts)
<1>1. ts \in Int64 /\ home \in Name /\ Parse(home) = ts
  BY HomeOf DEF ImportInv, TypeInv, TypeOK
<1>2. UNCHANGED <<snapshots, worker, unsettled, gone>>
  BY DEF RemoveEntry, table, hist
<1>3. /\ home \in DOMAIN dir /\ DOMAIN dir' = DOMAIN dir
      /\ \A n \in DOMAIN dir : n # home => dir'[n] = dir[n]
      /\ dir'[home].index \in {NoIndex, dir[home].index}
  BY DEF RemoveEntry, ImportInv, TypeInv, TypeOK, DirOK
<1>4. OnlyAt(ts)
  BY <1>1, <1>2, <1>3 DEF OnlyAt, DirOnlyAt, RemoveEntry, Writing
<1>5. \A t : Agrees(ts, t) => Agrees(ts, t)'
  <2>1. Homes(ts)' = Homes(ts)
    BY <1>3 DEF Homes
  <2>2. Whole(home)' => Whole(home) /\ dir'[home].index = dir[home].index
    BY <1>3 DEF Whole, NoIndex
  <2> QED
    BY <2>1, <2>2 DEF Agrees
<1>6. ts \notin gone'
  BY <1>1, <1>2, <1>3 DEF ImportInv, DataInv, GoneForgotten, Forgotten, Homes
<1>7. DataInv'
  <2>1. ts \in DOMAIN snapshots' /\ ts \notin unsettled' /\ ~Writing(ts)'
          => Agrees(ts, snapshots[ts].title)'
    BY <1>2, <1>5 DEF ImportInv, DataInv, RowsAgree, Writing
  <2>2. \A e \in import.entries :
          e.ts = ts /\ ts \notin unsettled' /\ ~Writing(ts)' => Agrees(ts, e.title)'
    BY <1>2, <1>5 DEF ImportInv, DataInv, EntriesAgree, Writing
  <2> QED
    BY <1>1, <1>4, <1>6, <2>1, <2>2, Local
<1>8. NoScan' /\ (Importing' <=> Importing)
  BY <1>1, Touched DEF RemoveEntry, NoScan, ImportInv, TypeInv, TypeOK, Importing
<1> QED
  BY <1>2, <1>7, <1>8 DEF ImportInv, WorkerAgrees

LEMMA LoadStep ==
  ASSUME ImportInv, TypeInv', NEW ts \in DOMAIN snapshots, Load(ts)
  PROVE  ImportInv'
<1>1. ts \in Int64 /\ worker.at = "idle"
  BY DEF ImportInv, TypeInv, TypeOK, TableOK, Load
<1>2. /\ UNCHANGED <<snapshots, dir, unsettled, gone>>
      /\ worker'.at = "mkdir" /\ worker'.ts = ts
      /\ worker'.title = snapshots[ts].title
      /\ worker'.alone <=> ~Importing
  BY DEF Load, table, hist
<1>3. OnlyAt(ts)
  BY <1>1, <1>2 DEF OnlyAt, DirOnlyAt, Load, Writing
<1>4. \A t : Agrees(ts, t)' <=> Agrees(ts, t)
  BY <1>2 DEF Agrees, Whole, Homes
<1>5. ~Writing(ts)
  BY <1>1 DEF Writing
<1>6. ts \notin gone'
  BY <1>2 DEF ImportInv, DataInv, GoneForgotten, Forgotten
<1>7. DataInv'
  BY <1>1, <1>2, <1>3, <1>4, <1>5, <1>6, Local
  DEF ImportInv, DataInv, RowsAgree, EntriesAgree
<1>8. NoScan' /\ (Importing' <=> Importing)
  BY <1>1, Touched DEF Load, NoScan, ImportInv, TypeInv, TypeOK, Importing
<1> QED
  BY <1>2, <1>7, <1>8 DEF ImportInv, WorkerAgrees

\* The steps of a pass before its title is saved: index.json stays as it is,
\* if there is one.
LEMMA PassStep ==
  ASSUME ImportInv, TypeInv', Mkdir \/ Extract
  PROVE  ImportInv'
<1>0. PICK ts \in Int64 : ts = worker.ts
  BY DEF ImportInv, TypeInv, TypeOK, WorkerOK
<1> DEFINE home == Format(ts)
<1>1. Home = home /\ home \in Name /\ Parse(home) = ts
  BY <1>0, HomeOf DEF Home
<1>2. /\ UNCHANGED <<snapshots, unsettled, gone>> /\ Touch(ts)
      /\ worker.at \in {"mkdir", "extract"} /\ worker'.at \in {"start", "title"}
      /\ worker'.ts = ts /\ worker'.title = worker.title
      /\ worker'.alone = worker.alone
  BY <1>0 DEF Mkdir, Extract, Work, table, hist, ImportInv, TypeInv, TypeOK, WorkerOK
<1>3. /\ DOMAIN dir' \in {DOMAIN dir, DOMAIN dir \cup {home}}
      /\ \A n \in DOMAIN dir : n # home => dir'[n] = dir[n]
      /\ home \in DOMAIN dir => dir'[home].index = dir[home].index
      /\ home \in DOMAIN dir' /\ home \notin DOMAIN dir =>
           dir'[home].index = NoIndex
  <2>1. CASE Mkdir
    BY <1>1, <2>1 DEF Mkdir, Put
  <2>2. CASE Extract
    BY <1>1, <2>2 DEF Extract, ImportInv, TypeInv, TypeOK, DirOK
  <2> QED
    BY <2>1, <2>2
<1>4. OnlyAt(ts)
  BY <1>0, <1>1, <1>2, <1>3 DEF OnlyAt, DirOnlyAt, Writing
<1>5. \A t : Agrees(ts, t) => Agrees(ts, t)'
  <2>1. CASE home \in DOMAIN dir
    <3>1. Homes(ts)' = Homes(ts) /\ (Whole(home)' <=> Whole(home))
          /\ dir'[home].index = dir[home].index
      BY <1>3, <2>1 DEF Homes, Whole
    <3> QED
      BY <1>1, <3>1 DEF Agrees
  <2>2. CASE home \notin DOMAIN dir
    <3>1. ~Whole(home)'
      BY <1>3, <2>2 DEF Whole, NoIndex
    <3> QED
      BY <1>1, <3>1 DEF Agrees
  <2> QED
    BY <2>1, <2>2
<1>6. ~Writing(ts)
  BY <1>0, <1>2 DEF Writing
<1>7. ts \notin gone'
  BY <1>0, <1>2 DEF ImportInv, DataInv, GoneForgotten, Forgotten
<1>8. DataInv'
  <2>1. ts \in DOMAIN snapshots' /\ ts \notin unsettled' /\ ~Writing(ts)'
          => Agrees(ts, snapshots[ts].title)'
    BY <1>2, <1>5, <1>6 DEF ImportInv, DataInv, RowsAgree
  <2>2. \A e \in import.entries :
          e.ts = ts /\ ts \notin unsettled' /\ ~Writing(ts)' => Agrees(ts, e.title)'
    BY <1>2, <1>5, <1>6 DEF ImportInv, DataInv, EntriesAgree
  <2> QED
    BY <1>1, <1>4, <1>7, <2>1, <2>2, Local
<1>9. NoScan' /\ (Importing' <=> Importing)
  BY <1>1, <1>2, Touched DEF NoScan, ImportInv, TypeInv, TypeOK, Importing
<1> QED
  BY <1>0, <1>2, <1>8, <1>9 DEF ImportInv, WorkerAgrees

\* While the worker writes, nothing is said of its snapshot.
LEMMA WriteStep ==
  ASSUME ImportInv, TypeInv', SaveTitle \/ Truncate
  PROVE  ImportInv'
<1>0. PICK ts \in Int64 : ts = worker.ts
  BY DEF ImportInv, TypeInv, TypeOK, WorkerOK
<1> DEFINE home == Format(ts)
<1>1. Home = home /\ home \in Name /\ Parse(home) = ts
  BY <1>0, HomeOf DEF Home
<1>2. /\ UNCHANGED <<unsettled, gone>> /\ Touch(ts)
      /\ worker.at \in {"title", "index"} /\ worker'.at \in {"index", "fill"}
      /\ worker'.ts = ts /\ worker'.alone = worker.alone
  BY <1>0 DEF SaveTitle, Truncate, WriteIndex, Work, table, hist,
         ImportInv, TypeInv, TypeOK, WorkerOK
<1>3. /\ DOMAIN snapshots' = DOMAIN snapshots
      /\ \A u \in DOMAIN snapshots : u # ts => snapshots'[u] = snapshots[u]
      /\ ts \in DOMAIN snapshots /\ snapshots[ts].title = worker.title =>
           snapshots'[ts].title = worker'.title
  <2>1. CASE SaveTitle
    <3>1. snapshots \in [DOMAIN snapshots -> [id : Nat, title : AnyTitle]]
          /\ worker \in [at : WorkerSteps, ts : Int64, id : Nat,
                          title : AnyTitle, alone : BOOLEAN]
      BY DEF ImportInv, TypeInv, TypeOK, TableOK, WorkerOK
    <3>2. CASE BestTitle(home) # NoTitle /\ BestTitle(home) # worker.title
      BY <1>0, <1>1, <2>1, <3>1, <3>2 DEF SaveTitle
    <3>3. CASE ~(BestTitle(home) # NoTitle /\ BestTitle(home) # worker.title)
      BY <1>0, <1>1, <2>1, <3>1, <3>3 DEF SaveTitle
    <3> QED
      BY <3>2, <3>3
  <2>2. CASE Truncate
    BY <1>0, <2>2 DEF Truncate, WriteIndex, Work, table, ImportInv, TypeInv, TypeOK, WorkerOK
  <2> QED
    BY <2>1, <2>2
<1>4. /\ DOMAIN dir' = DOMAIN dir
      /\ \A n \in DOMAIN dir : n # home => dir'[n] = dir[n]
  BY <1>1 DEF SaveTitle, Truncate, WriteIndex
<1>5. Writing(ts)'
  BY <1>0, <1>2 DEF Writing
<1>6. OnlyAt(ts)
  BY <1>0, <1>1, <1>2, <1>3, <1>4 DEF OnlyAt, DirOnlyAt, Writing
<1>7. ts \notin gone'
  BY <1>0, <1>2 DEF ImportInv, DataInv, GoneForgotten, Forgotten
<1>8. DataInv'
  BY <1>1, <1>5, <1>6, <1>7, Local
<1>9. NoScan' /\ (Importing' <=> Importing)
  BY <1>1, <1>2, Touched DEF NoScan, ImportInv, TypeInv, TypeOK, Importing
<1>10. WorkerAgrees'
  BY <1>0, <1>2, <1>3, <1>9 DEF ImportInv, WorkerAgrees
<1> QED
  BY <1>8, <1>9, <1>10 DEF ImportInv

\* The end of a run: index.json has the title of the worker, which is the
\* row's unless the pass was not alone.
LEMMA FillStep ==
  ASSUME ImportInv, TypeInv', Fill
  PROVE  ImportInv'
<1>0. PICK ts \in Int64 : ts = worker.ts
  BY DEF ImportInv, TypeInv, TypeOK, WorkerOK
<1> DEFINE home == Format(ts)
<1>1. Home = home /\ home \in Name /\ Parse(home) = ts
  BY <1>0, HomeOf DEF Home
<1>2. /\ UNCHANGED <<snapshots, gone>> /\ Touch(ts)
      /\ worker.at = "fill" /\ worker'.at = "next"
      /\ worker'.ts = ts /\ worker'.title = worker.title
      /\ worker'.alone = worker.alone
      /\ unsettled' = IF worker.alone THEN unsettled \ {ts} ELSE unsettled \cup {ts}
  BY <1>0 DEF Fill, WriteIndex, Work, table, ImportInv, TypeInv, TypeOK, WorkerOK
<1>3. /\ DOMAIN dir' = DOMAIN dir
      /\ \A n \in DOMAIN dir : n # home => dir'[n] = dir[n]
      /\ home \in DOMAIN dir => dir'[home].index = Index(worker.title)
  BY <1>1 DEF Fill, WriteIndex, ImportInv, TypeInv, TypeOK, DirOK
<1>4. OnlyAt(ts)
  BY <1>0, <1>1, <1>2, <1>3 DEF OnlyAt, DirOnlyAt, Writing
<1>5. ts \notin gone'
  BY <1>0, <1>2 DEF ImportInv, DataInv, GoneForgotten, Forgotten
<1>6. ASSUME worker.alone PROVE DataInv'
  <2>1. /\ ~Importing /\ import.entries = {}
        /\ ts \in DOMAIN snapshots /\ snapshots[ts].title = worker.title
    BY <1>0, <1>2, <1>6 DEF ImportInv, WorkerAgrees, NoScan, NoImport
  <2>2. Agrees(ts, snapshots[ts].title)'
    BY <1>1, <1>2, <1>3, <2>1 DEF Agrees, Whole, Index
  <2> QED
    BY <1>1, <1>4, <1>5, <2>1, <2>2, Local
<1>7. ASSUME ~worker.alone PROVE DataInv'
  BY <1>1, <1>2, <1>4, <1>5, <1>7, Local
<1>8. DataInv'
  BY <1>6, <1>7
<1>9. NoScan' /\ (Importing' <=> Importing)
  BY <1>1, <1>2, Touched DEF NoScan, ImportInv, TypeInv, TypeOK, Importing
<1> QED
  BY <1>0, <1>2, <1>8, <1>9 DEF ImportInv, WorkerAgrees

\* Steps that leave files, rows and the import alone.
LEMMA IdleStep ==
  ASSUME ImportInv, TypeInv',
         \/ \E ts \in removing : RemoveFails(ts)
         \/ StartRun \/ RunGone \/ NextRun \/ PassDone \/ Crash \/ UNCHANGED ivars
  PROVE  ImportInv'
<1>0. PICK ts \in Int64 : ts = worker.ts
  BY DEF ImportInv, TypeInv, TypeOK, WorkerOK
<1>1. /\ UNCHANGED <<snapshots, dir, import, gone>>
      /\ worker'.at = "idle" \/ (worker'.ts = ts /\ worker'.title = worker.title
                                 /\ worker'.alone = worker.alone)
      /\ worker'.at # "idle" => worker.at # "idle"
  BY <1>0 DEF RemoveFails, StartRun, RunGone, NextRun, PassDone, Crash, Work, NoJob,
              ivars, table, hist,
              ImportInv, TypeInv, TypeOK, WorkerOK
<1>2. /\ \A u \in Int64 : u # ts => (u \in unsettled' <=> u \in unsettled)
      /\ ts \notin unsettled' => ts \notin unsettled /\ (Writing(ts)' <=> Writing(ts))
  BY <1>0 DEF RemoveFails, StartRun, RunGone, NextRun, PassDone, Crash, Work, NoJob,
              ivars, table, hist,
              ImportInv, TypeInv, TypeOK, WorkerOK, Writing
<1>3. OnlyAt(ts)
  BY <1>0, <1>1, <1>2 DEF OnlyAt, DirOnlyAt, Writing
<1>4. \A t : Agrees(ts, t)' <=> Agrees(ts, t)
  BY <1>1 DEF Agrees, Whole, Homes
<1>5. ts \in gone' => Forgotten(ts)'
  BY <1>0, <1>1 DEF ImportInv, DataInv, GoneForgotten, Forgotten, Homes
<1>6. DataInv'
  BY <1>1, <1>2, <1>3, <1>4, <1>5, Local DEF ImportInv, DataInv, RowsAgree, EntriesAgree
<1> QED
  BY <1>0, <1>1, <1>6 DEF ImportInv, NoScan, WorkerAgrees, Importing

LEMMA StartImportStep ==
  ASSUME ImportInv, TypeInv', StartImport
  PROVE  ImportInv'
<1>1. /\ UNCHANGED <<snapshots, dir, unsettled, gone>>
      /\ worker'.at = worker.at /\ worker'.ts = worker.ts
      /\ worker'.alone <=> worker.at = "idle"
  BY DEF StartImport, table, hist, ImportInv, TypeInv, TypeOK, WorkerOK
<1>2. /\ Importing' /\ import'.entries = {}
      /\ import'.left = {n \in DOMAIN dir : dir[n].index # NoIndex}
  BY DEF StartImport, Importing
<1>3. ScanCurrent'
  BY <1>1, <1>2 DEF ScanCurrent, Whole, NoIndex
<1>4. RowsAgree' /\ EntriesAgree'
  BY <1>1, <1>2 DEF ImportInv, DataInv, RowsAgree, EntriesAgree, Writing, Agrees,
                    Whole, Homes
<1>5. GoneForgotten'
  BY <1>1, <1>2 DEF ImportInv, DataInv, GoneForgotten, Forgotten, Homes
<1> QED
  BY <1>1, <1>2, <1>3, <1>4, <1>5 DEF ImportInv, DataInv, NoScan, WorkerAgrees

LEMMA ReadEntryStep ==
  ASSUME ImportInv, TypeInv', NEW n \in import.left, ReadEntry(n)
  PROVE  ImportInv'
<1>1. UNCHANGED <<snapshots, dir, worker, unsettled, gone>>
  BY DEF ReadEntry, table, hist
<1>2. Importing
  BY DEF ImportInv, NoScan, NoImport
<1> DEFINE read == IF Whole(n) THEN {Entry(n)} ELSE {}
<1>3. /\ Importing' /\ import'.touched = import.touched
      /\ import'.left = import.left \ {n}
      /\ import'.entries = import.entries \cup read
  BY <1>2 DEF ReadEntry, Whole, Importing, ImportInv, TypeInv, TypeOK, ImportOK
<1>4. \A e \in read : /\ Whole(n) /\ e = Entry(n) /\ e.ts = Parse(n)
                      /\ n \in Homes(e.ts) /\ Agrees(e.ts, e.title)
  <2> SUFFICES ASSUME Whole(n)
               PROVE  /\ Entry(n).ts = Parse(n)
                      /\ n \in Homes(Parse(n)) /\ Agrees(Parse(n), Entry(n).title)
    OBVIOUS
  <2>1. Entry(n).ts = Parse(n) /\ n \in Homes(Parse(n))
    BY EntryType DEF Homes, Whole, ImportInv, TypeInv
  <2>2. dir[n].index.title \in {NoTitle, Entry(n).title}
    BY DEF Entry
  <2> QED
    BY <2>1, <2>2 DEF Agrees
<1>5. EntriesAgree'
  <2> SUFFICES ASSUME NEW e \in import'.entries, e.ts \notin unsettled, ~Writing(e.ts)
               PROVE  Agrees(e.ts, e.title)
    BY <1>1 DEF EntriesAgree, Writing, Agrees, Whole, Homes
  <2> QED
    BY <1>3, <1>4 DEF ImportInv, DataInv, EntriesAgree
<1>6. ScanCurrent'
  <2>1. ASSUME NEW m \in DOMAIN dir, Whole(m), Parse(m) \notin import.touched
        PROVE  m \in import'.left \/ Entry(m) \in import'.entries
    BY <1>2, <1>3, <2>1 DEF ImportInv, DataInv, ScanCurrent
  <2>2. ASSUME NEW e \in import'.entries, e.ts \notin import.touched
        PROVE  \E m \in Homes(e.ts) : Whole(m) /\ e = Entry(m)
    BY <1>2, <1>3, <1>4, <2>2 DEF ImportInv, DataInv, ScanCurrent
  <2> QED
    BY <1>1, <1>3, <2>1, <2>2 DEF ScanCurrent, Whole, Homes, Entry, BestTitle
<1>7. GoneForgotten'
  <2> SUFFICES ASSUME NEW ts \in gone PROVE Forgotten(ts)'
    BY <1>1 DEF GoneForgotten
  <2>1. Forgotten(ts)
    BY DEF ImportInv, DataInv, GoneForgotten
  <2>2. \A e \in read : e.ts # ts
    BY <1>4, <2>1 DEF Forgotten
  <2> QED
    BY <1>1, <1>3, <2>1, <2>2 DEF Forgotten, Homes
<1>8. RowsAgree'
  BY <1>1 DEF ImportInv, DataInv, RowsAgree, Writing, Agrees, Whole, Homes
<1> QED
  BY <1>1, <1>2, <1>3, <1>5, <1>6, <1>7, <1>8
  DEF ImportInv, DataInv, NoScan, WorkerAgrees

\* What the commit does to the rows, of which it forgets none.
LEMMA CommitRows ==
  ASSUME ImportInv, Commit
  PROVE  /\ DOMAIN snapshots' = DOMAIN snapshots \cup {e.ts : e \in import.entries}
         /\ \A ts \in DOMAIN snapshots' :
              \/ /\ \A e \in import.entries : e.ts # ts
                 /\ ts \in DOMAIN snapshots /\ snapshots'[ts] = snapshots[ts]
              \/ \E e \in import.entries :
                   e.ts = ts /\ snapshots'[ts].title = e.title
<1> DEFINE found == {e.ts : e \in import.entries}
           new   == found \ DOMAIN snapshots
           id(ts) == lastId + Cardinality({u \in new : u <= ts})
<1>1. PICK t \in [found -> AnyTitle] :
        /\ \A ts \in found : [ts |-> ts, title |-> t[ts]] \in import.entries
        /\ snapshots' = [ts \in DOMAIN snapshots \cup found |->
                           IF ts \in found THEN Upsert(ts, id(ts), t[ts])
                           ELSE snapshots[ts]]
  BY DEF Commit
<1> HIDE DEF id
<1>2. \A ts \in found : Upsert(ts, id(ts), t[ts]).title = t[ts]
  BY DEF Upsert, ImportInv, TypeInv, TypeOK, TableOK
<1>3. DOMAIN snapshots' = DOMAIN snapshots \cup found
  BY <1>1
<1>4. ASSUME NEW ts \in found
      PROVE  \E e \in import.entries : e.ts = ts /\ snapshots'[ts].title = e.title
  <2>1. snapshots'[ts].title = t[ts]
    BY <1>1, <1>2
  <2>2. [ts |-> ts, title |-> t[ts]] \in import.entries
    BY <1>1
  <2> QED
    BY <2>1, <2>2
<1>5. ASSUME NEW ts \in DOMAIN snapshots', ts \notin found
      PROVE  /\ \A e \in import.entries : e.ts # ts
             /\ ts \in DOMAIN snapshots /\ snapshots'[ts] = snapshots[ts]
  BY <1>1, <1>5
<1> QED
  BY <1>3, <1>4, <1>5

LEMMA CommitStep ==
  ASSUME ImportInv, TypeInv', Commit
  PROVE  ImportInv'
<1>1. /\ UNCHANGED <<dir, worker, gone>>
      /\ Importing /\ import.left = {}
      /\ import' = NoImport
      /\ unsettled' = unsettled \cap import.touched
  BY DEF Commit
<1>2. RowsAgree'
  <2> SUFFICES ASSUME NEW ts \in DOMAIN snapshots',
                      ts \notin unsettled \/ ts \notin import.touched,
                      ~Writing(ts)
               PROVE  Agrees(ts, snapshots'[ts].title)
    BY <1>1 DEF RowsAgree, Writing, Agrees, Whole, Homes
  <2> SUFFICES ASSUME Whole(Format(ts)), Homes(ts) = {Format(ts)}
               PROVE  dir[Format(ts)].index.title \in {NoTitle, snapshots'[ts].title}
    BY DEF Agrees
  <2>1. Format(ts) \in DOMAIN dir /\ Parse(Format(ts)) = ts
    BY DEF Homes
  <2>2. Entry(Format(ts)).ts = ts
    BY <2>1, EntryType DEF Whole, ImportInv, TypeInv
  <2>3. CASE ts \notin import.touched
    <3>1. Entry(Format(ts)) \in import.entries
      BY <1>1, <2>1, <2>3 DEF ImportInv, DataInv, ScanCurrent
    <3>2. PICK e \in import.entries : e.ts = ts /\ snapshots'[ts].title = e.title
      BY <2>2, <3>1, CommitRows
    <3>3. e = Entry(Format(ts))
      BY <1>1, <2>3, <3>2 DEF ImportInv, DataInv, ScanCurrent
    <3> QED
      BY <3>2, <3>3 DEF Entry
  <2>4. CASE ts \notin unsettled
    <3>1. CASE ts \in DOMAIN snapshots /\ snapshots'[ts] = snapshots[ts]
      BY <2>4, <3>1 DEF ImportInv, DataInv, RowsAgree, Agrees
    <3>2. CASE \E e \in import.entries : e.ts = ts /\ snapshots'[ts].title = e.title
      BY <2>4, <3>2 DEF ImportInv, DataInv, EntriesAgree, Agrees
    <3> QED
      BY <3>1, <3>2, CommitRows
  <2> QED
    BY <2>3, <2>4
<1>3. GoneForgotten'
  <2> SUFFICES ASSUME NEW ts \in gone PROVE Forgotten(ts)'
    BY <1>1 DEF GoneForgotten
  <2>1. Forgotten(ts)
    BY DEF ImportInv, DataInv, GoneForgotten
  <2>2. ts \notin DOMAIN snapshots'
    BY <2>1, CommitRows DEF Forgotten
  <2> QED
    BY <1>1, <2>1, <2>2 DEF Forgotten, Homes, NoImport
<1>4. EntriesAgree' /\ ScanCurrent' /\ NoScan' /\ ~Importing'
  BY <1>1 DEF EntriesAgree, ScanCurrent, NoScan, Importing, NoImport
<1>5. WorkerAgrees'
  BY <1>1 DEF ImportInv, WorkerAgrees
<1> QED
  BY <1>2, <1>3, <1>4, <1>5 DEF ImportInv, DataInv

LEMMA ImportFailsStep ==
  ASSUME ImportInv, TypeInv', ImportFails
  PROVE  ImportInv'
<1>1. /\ UNCHANGED <<snapshots, dir, worker, unsettled, gone>>
      /\ import' = NoImport
  BY DEF ImportFails, table, hist
<1> QED
  BY <1>1 DEF ImportInv, DataInv, RowsAgree, EntriesAgree, ScanCurrent, GoneForgotten,
              Forgotten, NoScan, WorkerAgrees, Importing, NoImport, Writing, Agrees,
              Whole, Homes

LEMMA InvStep == ImportInv /\ [Next]_ivars => ImportInv'
<1> SUFFICES ASSUME ImportInv, [Next]_ivars PROVE ImportInv'
  OBVIOUS
<1>1. TypeInv'
  BY TypeStep DEF ImportInv
<1>2. CASE User
  BY <1>1, <1>2, AddStep, CopyStep, DeleteRowStep, RemoveEntryStep, RemoveDirStep,
     IdleStep DEF User
<1>3. CASE Worker
  BY <1>1, <1>3, LoadStep, PassStep, WriteStep, FillStep, IdleStep DEF Worker
<1>4. CASE ImportStep
  BY <1>1, <1>4, StartImportStep, ReadEntryStep, CommitStep, ImportFailsStep
  DEF ImportStep
<1>5. CASE UNCHANGED ivars
  BY <1>1, <1>5, IdleStep
<1> QED
  BY <1>2, <1>3, <1>4, <1>5 DEF Next

----------------------------------------------------------------------------
(* The theorems.                                                           *)

THEOREM Invariance == Spec => []ImportInv
BY InvInit, InvStep, PTL DEF Spec

LEMMA Promises == ImportInv => RowMatchesIndex /\ DeletedIsFinal
BY DEF ImportInv, DataInv, RowsAgree, RowMatchesIndex, Writing, Agrees, GoneForgotten,
       Forgotten, DeletedIsFinal

LEMMA CommitReflects ==
  ASSUME ImportInv, Commit,
         NEW ts \in {Parse(n) : n \in DOMAIN dir} \ import.touched,
         {n \in Homes(ts) : Whole(n)} # {}
  PROVE  /\ ts \in DOMAIN snapshots'
         /\ \E n \in {m \in Homes(ts) : Whole(m)} :
              snapshots'[ts].title = Entry(n).title
<1>0. PICK m \in Homes(ts) : Whole(m)
  OBVIOUS
<1>1. Importing /\ import.left = {}
  BY DEF Commit
<1>2. Entry(m) \in import.entries /\ Entry(m).ts = ts
  BY <1>0, <1>1, EntryType DEF Homes, Whole, ImportInv, DataInv, TypeInv, ScanCurrent
<1>3. PICK e \in import.entries : e.ts = ts /\ snapshots'[ts].title = e.title
  BY <1>2, CommitRows
<1>4. PICK n \in Homes(ts) : Whole(n) /\ e = Entry(n)
  BY <1>1, <1>3 DEF ImportInv, DataInv, ScanCurrent
<1> QED
  BY <1>2, <1>3, <1>4, CommitRows

\* A row and its index.json have the same title, whatever imports, passes and
\* deletions came before: import.go:24 against ingest.go:173.
THEOREM RowsMatch == Spec => []RowMatchesIndex
BY Promises, Invariance, PTL

\* A deleted snapshot is not brought back (handlers.go:347).
THEOREM DeletionIsFinal == Spec => []DeletedIsFinal
BY Promises, Invariance, PTL

\* An import shows what is on disk (README.md:91), for every snapshot that
\* nothing else worked on meanwhile.
THEOREM ImportIsCurrent == Spec => ImportReflectsDisk
<1> DEFINE Reflects ==
      \A ts \in {Parse(n) : n \in DOMAIN dir} \ import.touched :
         LET readable == {n \in Homes(ts) : Whole(n)}
         IN  readable # {} =>
               /\ ts \in DOMAIN snapshots'
               /\ \E n \in readable : snapshots'[ts].title = Entry(n).title
<1>1. ImportInv => [Commit => Reflects]_ivars
  BY CommitReflects
<1> QED
  BY <1>1, Invariance, PTL DEF ImportReflectsDisk

----------------------------------------------------------------------------
(* Ids of snapshots.                                                       *)

\* Every step changes the ids as SnapshotTable lets it.
LEMMA TableStepOfImport ==
  ASSUME TypeInv, TypeInv', [Next]_ivars
  PROVE  [Table!TNext]_(Table!tvars)
<1> DEFINE ids == [ts \in DOMAIN snapshots |-> snapshots[ts].id]
<1> SUFFICES Table!Insert \/ (\E ts \in DOMAIN ids : Table!Delete(ts))
             \/ UNCHANGED <<ids, lastId>>
  BY DEF Table!TNext, Table!tvars
<1>0. lastId \in Nat /\ snapshots \in [DOMAIN snapshots -> [id : Nat, title : AnyTitle]]
  BY DEF TypeInv, TypeOK, TableOK
<1>1. ASSUME NEW ts \in Times, Add(ts)
      PROVE  Table!Insert
  <2>1. /\ DOMAIN snapshots' = DOMAIN snapshots \cup {ts} /\ ts \notin DOMAIN snapshots
        /\ \A u \in DOMAIN snapshots : snapshots'[u] = snapshots[u]
        /\ snapshots'[ts].id = lastId + 1 /\ lastId' = lastId + 1
    BY <1>1 DEF Add, Put, Insert
  <2> QED
    BY <1>0, <2>1 DEF Table!Insert
<1>2. ASSUME NEW ts \in DOMAIN snapshots, DeleteRow(ts)
      PROVE  \E u \in DOMAIN ids : Table!Delete(u)
  <2>1. /\ snapshots' = [u \in DOMAIN snapshots \ {ts} |-> snapshots[u]]
        /\ lastId' = lastId
    BY <1>2 DEF DeleteRow, Keep
  <2>2. Table!Delete(ts)
    BY <2>1 DEF Table!Delete
  <2> QED
    BY <2>2
<1>3. CASE SaveTitle
  <2>1. /\ DOMAIN snapshots' = DOMAIN snapshots /\ lastId' = lastId
        /\ \A ts \in DOMAIN snapshots : snapshots'[ts].id = snapshots[ts].id
    BY <1>0, <1>3 DEF SaveTitle
  <2> QED
    BY <2>1
<1>4. CASE Commit
  <2> DEFINE found == {e.ts : e \in import.entries}
             new   == found \ DOMAIN snapshots
  <2>1. /\ DOMAIN snapshots' = DOMAIN snapshots \cup found
        /\ \A ts \in DOMAIN snapshots : snapshots'[ts].id = snapshots[ts].id
        /\ \A ts \in new : snapshots'[ts].id \in (lastId + 1)..lastId'
        /\ \A ts, u \in new : snapshots'[ts].id = snapshots'[u].id => ts = u
        /\ lastId' \in Nat /\ lastId <= lastId'
    BY <1>4, CommitIds
  <2> HIDE DEF found
  <2> QED
    BY <2>1 DEF Table!Insert
<1>5. CASE UNCHANGED <<snapshots, lastId>>
  BY <1>5
<1>6. [Next]_ivars => \/ \E ts \in Times : Add(ts)
                      \/ \E ts \in DOMAIN snapshots : DeleteRow(ts)
                      \/ SaveTitle \/ Commit
                      \/ UNCHANGED <<snapshots, lastId>>
  BY DEF Next, User, Worker, ImportStep, ivars, table, Copy, RemoveEntry, RemoveDir,
         RemoveFails, Load, Mkdir, StartRun, RunGone, Extract, WriteIndex, Truncate,
         Fill, NextRun, PassDone, Crash,
         StartImport, ReadEntry, ImportFails
<1> QED
  BY <1>1, <1>2, <1>3, <1>4, <1>5, <1>6

\* The ids that runs and the worker keep go on meaning the same snapshot,
\* whatever is imported meanwhile: upsertSnapshot overwrites a row's url and
\* title and leaves its id (snapshots.go:70), and no id is used again after a
\* deletion (AUTOINCREMENT, schema_v3_snapshots_surrogate_id.sql:13).
THEOREM IdsSurviveImport == Spec => ImplementsTable
<1>1. Init => Table!TInit
  BY DEF Init, Empty, Table!TInit
<1> QED
  BY <1>1, TypeInit, TypeStep, TableStepOfImport, PTL
  DEF Spec, ImplementsTable, Table!TSpec

\* SnapshotTable is no weaker than what it is there for: whoever keeps it has no
\* two rows with one id, however many rows a commit brings at a time.
THEOREM TableKeepsIdsApart == Table!TSpec => []RowIds
<1> DEFINE ids == [ts \in DOMAIN snapshots |-> snapshots[ts].id]
           IdsInv == lastId \in Nat /\ RowIds
<1>1. Table!TInit => IdsInv
  BY DEF Table!TInit, RowIds
<1>2. IdsInv /\ [Table!TNext]_(Table!tvars) => IdsInv'
  <2> SUFFICES ASSUME IdsInv, [Table!TNext]_(Table!tvars) PROVE IdsInv'
    OBVIOUS
  <2>1. /\ DOMAIN ids = DOMAIN snapshots /\ DOMAIN ids' = DOMAIN snapshots'
        /\ \A ts \in DOMAIN snapshots : ids[ts] = snapshots[ts].id
        /\ \A ts \in DOMAIN snapshots' : ids'[ts] = snapshots'[ts].id
    OBVIOUS
  <2>2. RowIds <=> \A ts \in DOMAIN ids :
          ids[ts] \in 1..lastId /\ \A u \in DOMAIN ids \ {ts} : ids[u] # ids[ts]
    BY DEF RowIds
  <2>3. RowIds' <=> \A ts \in DOMAIN ids' :
          ids'[ts] \in 1..lastId' /\ \A u \in DOMAIN ids' \ {ts} : ids'[u] # ids'[ts]
    BY <2>1 DEF RowIds
  <2> HIDE DEF ids
  <2>4. CASE Table!Insert
    <3>1. /\ lastId' \in Nat /\ lastId <= lastId'
          /\ DOMAIN ids \subseteq DOMAIN ids'
          /\ \A k \in DOMAIN ids : ids'[k] = ids[k]
          /\ \A k \in DOMAIN ids' \ DOMAIN ids : ids'[k] \in (lastId + 1)..lastId'
          /\ \A k, l \in DOMAIN ids' \ DOMAIN ids : ids'[k] = ids'[l] => k = l
      BY <2>4 DEF Table!Insert, ids
    <3>2. \A k \in DOMAIN ids : ids'[k] \in 1..lastId
      BY <2>2, <3>1
    <3>3. \A k \in DOMAIN ids' : ids'[k] \in 1..lastId'
      BY <3>1, <3>2
    <3>4. ASSUME NEW k \in DOMAIN ids', NEW l \in DOMAIN ids' \ {k}
          PROVE  ids'[l] # ids'[k]
      <4>1. CASE k \in DOMAIN ids /\ l \in DOMAIN ids
        BY <2>2, <3>1, <4>1
      <4>2. CASE k \notin DOMAIN ids /\ l \notin DOMAIN ids
        BY <3>1, <4>2
      <4>3. CASE (k \in DOMAIN ids) # (l \in DOMAIN ids)
        BY <3>1, <3>2, <4>3
      <4> QED
        BY <4>1, <4>2, <4>3
    <3> QED
      BY <2>3, <3>1, <3>3, <3>4
  <2>5. ASSUME NEW k \in DOMAIN ids, Table!Delete(k)
        PROVE  IdsInv'
    <3>1. lastId' = lastId /\ ids' = [l \in DOMAIN ids \ {k} |-> ids[l]]
      BY <2>5 DEF Table!Delete, ids
    <3> QED
      BY <2>2, <2>3, <3>1
  <2>6. CASE UNCHANGED <<ids, lastId>>
    BY <2>2, <2>3, <2>6
  <2> QED
    BY <2>4, <2>5, <2>6 DEF Table!TNext, Table!tvars, ids
<1>3. IdsInv => RowIds
  OBVIOUS
<1> HIDE DEF IdsInv
<1> QED
  BY <1>1, <1>2, <1>3, PTL DEF Table!TSpec
=============================================================================
