---------------------------- MODULE ListingProofs ----------------------------
(***************************************************************************)
(* Theorems about Listing: what a reader of the list and of the search is  *)
(* shown while rows and directories come and go, for every table, every    *)
(* page size and every number of pages.                                    *)
(***************************************************************************)
EXTENDS Listing, ImportProofs, WellFoundedInduction

----------------------------------------------------------------------------
(* Sets of timestamps, and the rank of an element.                         *)

Above(S, ts) == {u \in S : u > ts}

\* The rank of an element is a number up to the size of the set.
LEMMA AboveType ==
  ASSUME NEW S, IsFiniteSet(S), NEW ts
  PROVE  /\ IsFiniteSet(Above(S, ts))
         /\ Cardinality(Above(S, ts)) \in Nat /\ Cardinality(S) \in Nat
         /\ Cardinality(Above(S, ts)) <= Cardinality(S)
<1>1. Above(S, ts) \subseteq S
  BY DEF Above
<1> QED
  BY <1>1, FS_Subset, FS_CardinalityType

\* Every element comes before the end of the list.
LEMMA AboveMember ==
  ASSUME NEW S, IsFiniteSet(S), S \subseteq Int, NEW ts \in S
  PROVE  Cardinality(Above(S, ts)) < Cardinality(S)
<1>1. Above(S, ts) \subseteq S /\ ts \notin Above(S, ts)
  BY DEF Above
<1>2. /\ Cardinality(Above(S, ts)) \in Nat /\ Cardinality(S) \in Nat
      /\ Cardinality(Above(S, ts)) <= Cardinality(S)
  BY AboveType
<1>3. Cardinality(Above(S, ts)) # Cardinality(S)
  BY <1>1, FS_Subset
<1> QED
  BY <1>2, <1>3

\* The more elements come before another, the higher its rank.
LEMMA AboveGrows ==
  ASSUME NEW S, NEW T, IsFiniteSet(S), IsFiniteSet(T), NEW ts, NEW u,
         Above(S, ts) \subseteq Above(T, u)
  PROVE  Cardinality(Above(S, ts)) <= Cardinality(Above(T, u))
BY AboveType, FS_Subset

\* A set of timestamps has a least element, which comes last.
LEMMA Last ==
  ASSUME NEW S, IsFiniteSet(S), S \subseteq Int64, S # {}
  PROVE  \E ts \in S : Cardinality(Above(S, ts)) = Cardinality(S) - 1
<1> DEFINE Below == OpToRel(<, Nat)
           T == {ts + Half : ts \in S}
<1>1. \A x, y \in Nat : y < x => <<y, x>> \in Below
  BY DEF OpToRel
<1>2. IsWellFoundedOn(Below, Nat)
  BY NatLessThanWellFounded
<1>3. T \subseteq Nat /\ T # {}
  <2>1. \A ts \in S : ts + Half \in Nat
    BY UnitType DEF Int64
  <2> QED
    BY <2>1
<1> HIDE DEF Below
<1>4. PICK x \in T : \A y \in T : ~(<<y, x>> \in Below)
  <2> HIDE DEF T
  <2> QED
    BY <1>2, <1>3, WFMin
<1>5. PICK ts \in S : x = ts + Half
  BY <1>4
<1>6. ASSUME NEW u \in S, u # ts PROVE u > ts
  <2>1. u + Half \in Nat /\ ts + Half \in Nat /\ u \in Int /\ ts \in Int
    BY <1>3 DEF Int64
  <2>0. Half \in Nat
    BY UnitType
  <2>2. ~(<<u + Half, ts + Half>> \in Below)
    BY <1>4, <1>5
  <2>3. ~(u + Half < ts + Half)
    BY <1>1, <2>1, <2>2
  <2> QED
    BY <1>6, <2>0, <2>1, <2>3
<1>7. Above(S, ts) = S \ {ts}
  BY <1>6 DEF Above, Int64
<1> QED
  BY <1>7, FS_RemoveElement

----------------------------------------------------------------------------
(* Pages of a fixed size.                                                  *)

LEMMA WholePages ==
  ASSUME NEW b \in Nat \ {0}, NEW k \in Nat
  PROVE  (b * k) \div b = k
BY SMT

\* Rounding up: page k + 1 exists when the pages before it do not hold all.
LEMMA RoundUp ==
  ASSUME NEW a \in Nat \ {0}, NEW b \in Nat \ {0}, NEW k \in Nat
  PROVE  k < (a + b - 1) \div b <=> b * k < a
BY SMT

----------------------------------------------------------------------------
(* The inductive invariant.                                                *)

Reading == walk.at # "away"

WalkType ==
  [at : {"away", "counted", "shown"}, limit : Nat, offset : Nat, total : Nat,
   turn : Nat, seen : SUBSET Int64, again : SUBSET Int64, base : SUBSET Int64,
   raced : BOOLEAN, shifted : BOOLEAN, changed : BOOLEAN]

WalkOK ==
  /\ walk \in WalkType
  /\ Reading => walk.limit \in 1..MaxLimit
  /\ walk.again \subseteq walk.seen

SearchType ==
  [at : {"away", "grep", "shown"}, query : AnyTitle, left : SUBSET Name,
   found : SUBSET Int64, broken : BOOLEAN, page : SUBSET Int64,
   touched : SUBSET Int64]

SearchOK ==
  /\ search \in SearchType
  /\ search.page \subseteq search.found

ListTypes ==
  /\ ImportInv /\ IsFiniteSet(Rows)
  /\ WalkOK /\ SearchOK

\* The rows that were there all the time still are; of those the reader has
\* not seen, none has slipped to a page already passed, unless one before it
\* was deleted; and a count that is not outdated covers them.
Ahead ==
  Reading /\ ~walk.shifted =>
    \A ts \in walk.base \ walk.seen : Newer(ts) >= Passed

SkipInv ==
  /\ Reading => walk.base \subseteq Rows
  /\ Ahead
  /\ walk.at = "counted" /\ ~walk.raced => Cardinality(Rows) <= walk.total
  /\ NothingSkipped

\* While the table does not change, what was seen are the rows passed, and
\* pages after the first are only asked for when there are more rows.
InStep ==
  Reading /\ ~walk.changed =>
    /\ walk.again = {}
    /\ walk.total = Cardinality(Rows)
    /\ walk.seen = {ts \in Rows : Newer(ts) < Passed}
    /\ \/ walk.turn = 1 /\ walk.offset = 0
       \/ walk.turn > 1 /\ walk.offset > 0 /\ walk.offset < walk.total

\* The search so far: of a timestamp nobody touched, each directory is still
\* to be read or its match is found, and nothing else is found.
Searched(ts) ==
  /\ \A n \in Homes(ts) :
       n \in search.left \/ (Matches(n, search.query) => ts \in search.found)
  /\ ts \in search.found => \E n \in Homes(ts) : Matches(n, search.query)

FindInv ==
  /\ search.at = "grep" => \A ts \in Int64 \ search.touched : Searched(ts)
  /\ SearchFinds

ListInv == ListTypes /\ SkipInv /\ InStep /\ FindInv

LEMMA ListInitInv == ListInit => ListInv
<1> SUFFICES ASSUME ListInit PROVE ListInv
  OBVIOUS
<1>1. ImportInv
  BY InvInit DEF ListInit
<1>2. Rows = {} /\ IsFiniteSet(Rows)
  BY FS_EmptySet DEF ListInit, Init, Empty, Rows
<1>3. WalkOK /\ SearchOK
  BY DEF ListInit, NoWalk, NoSearch, WalkOK, WalkType, SearchOK, SearchType, Reading,
         AnyTitle
<1>4. ~Reading /\ ~Ended /\ search.at = "away"
  BY DEF ListInit, NoWalk, NoSearch, Reading, Ended
<1> QED
  BY <1>1, <1>2, <1>3, <1>4
  DEF ListInv, ListTypes, SkipInv, Ahead, NothingSkipped, InStep, FindInv, SearchFinds,
      Reading

----------------------------------------------------------------------------
(* What the steps of the others do.                                        *)

LEMMA RowsType ==
  ASSUME ListTypes
  PROVE  Rows \subseteq Int64 /\ Rows \subseteq Int
BY DEF ListTypes, ImportInv, TypeInv, TypeOK, TableOK, Rows, Int64

\* A step of the table adds rows or deletes one.
LEMMA NextRows ==
  ASSUME ListTypes, [Next]_ivars
  PROVE  /\ IsFiniteSet(Rows')
         /\ \/ Rows \subseteq Rows'
            \/ \E d \in Rows : Rows' = Rows \ {d}
<1> USE DEF Rows, ListTypes
<1>1. ASSUME NEW ts \in Times, Add(ts) PROVE Rows' = Rows \cup {ts}
  BY <1>1 DEF Add, Put
<1>2. ASSUME NEW ts \in DOMAIN snapshots, DeleteRow(ts) PROVE Rows' = Rows \ {ts}
  BY <1>2 DEF DeleteRow, Keep
<1>3. ASSUME Commit
      PROVE  /\ Rows' = Rows \cup {e.ts : e \in import.entries}
             /\ IsFiniteSet({e.ts : e \in import.entries})
  <2>1. Rows' = Rows \cup {e.ts : e \in import.entries}
    BY <1>3, CommitRows
  <2> DEFINE found == {e.ts : e \in import.entries}
             f == [e \in import.entries |-> e.ts]
  <2>2. f \in Surjection(import.entries, found)
    BY DEF Surjection
  <2>3. IsFiniteSet(import.entries)
    BY DEF ImportInv, TypeInv
  <2>4. IsFiniteSet(found)
    <3> HIDE DEF f, found
    <3> QED
      BY <2>2, <2>3, FS_Surjection
  <2> QED
    BY <2>1, <2>4
<1>4. CASE \/ \E n \in Copied, t \in AnyTitle, best \in AnyTitle : Copy(n, t, best)
           \/ \E ts \in removing : RemoveEntry(ts) \/ RemoveDir(ts) \/ RemoveFails(ts)
           \/ Worker \/ StartImport \/ ImportFails
           \/ \E n \in import.left : ReadEntry(n)
           \/ UNCHANGED ivars
  <2>1. DOMAIN snapshots' = DOMAIN snapshots
    BY <1>4
    DEF Copy, RemoveEntry, RemoveDir, RemoveFails, Worker, Load, Mkdir, StartRun,
        RunGone, Extract, SaveTitle, Truncate, Fill, NextRun, PassDone, WriteIndex,
        Crash, StartImport, ImportFails, ReadEntry, ivars, table
  <2> QED
    BY <2>1
<1>5. CASE Next
  <2>1. CASE \E ts \in Times : Add(ts)
    <3>1. PICK ts \in Times : Rows' = Rows \cup {ts}
      BY <1>1, <2>1
    <3> QED
      BY <3>1, FS_AddElement
  <2>2. CASE \E ts \in DOMAIN snapshots : DeleteRow(ts)
    <3>1. PICK ts \in Rows : Rows' = Rows \ {ts}
      BY <1>2, <2>2
    <3> QED
      BY <3>1, FS_RemoveElement
  <2>3. CASE Commit
    BY <1>3, <2>3, FS_Union
  <2> QED
    BY <1>4, <1>5, <2>1, <2>2, <2>3 DEF Next, User, ImportStep
<1> QED
  BY <1>4, <1>5

\* What happens to the rank of a row that stays.
LEMMA RankStep ==
  ASSUME ListTypes, [Next]_ivars, NEW ts \in Rows, ts \in Rows', NEW k \in Int,
         Newer(ts) >= k, \A d \in Rows \ Rows' : Newer(d) >= k
  PROVE  Newer(ts)' >= k
<1>1. IsFiniteSet(Rows) /\ IsFiniteSet(Rows') /\ Rows \subseteq Int
  BY NextRows, RowsType DEF ListTypes
<1>2. \A u : /\ Newer(u) = Cardinality(Above(Rows, u))
             /\ Newer(u)' = Cardinality(Above(Rows', u))
             /\ Newer(u) \in Nat /\ Newer(u)' \in Nat
  <2> TAKE u
  <2>1. /\ Newer(u) = Cardinality(Above(Rows, u))
        /\ Newer(u)' = Cardinality(Above(Rows', u))
    BY DEF Newer, Above, Rows
  <2> QED
    BY <1>1, <2>1, AboveType
<1>3. ASSUME NEW u \in Rows, Above(Rows, u) \subseteq Above(Rows', ts)
      PROVE  Newer(ts)' >= Newer(u)
  <2>1. Cardinality(Above(Rows, u)) <= Cardinality(Above(Rows', ts))
    BY <1>1, <1>3, AboveGrows
  <2> QED
    BY <1>2, <2>1
<1>4. CASE Rows \subseteq Rows'
  <2>1. Above(Rows, ts) \subseteq Above(Rows', ts)
    BY <1>4 DEF Above
  <2> QED
    BY <1>2, <1>3, <2>1
<1>5. ASSUME NEW d \in Rows, Rows' = Rows \ {d} PROVE Newer(ts)' >= k
  <2>1. ts # d /\ Newer(d) >= k /\ ts \in Int /\ d \in Int
    BY <1>1, <1>5
  <2>2. CASE d < ts
    <3>1. Above(Rows, ts) \subseteq Above(Rows', ts)
      BY <1>5, <2>1, <2>2 DEF Above
    <3> QED
      BY <1>2, <1>3, <3>1
  <2>3. CASE d > ts
    <3>1. Above(Rows, d) \subseteq Above(Rows', ts)
      <4>1. ASSUME NEW u \in Rows, u > d PROVE u \in Rows' /\ u > ts
        <5>1. u \in Int
          BY <1>1
        <5>2. u > ts /\ u # d
          BY <2>1, <2>3, <4>1, <5>1
        <5> QED
          BY <1>5, <5>2
      <4> QED
        BY <4>1 DEF Above
    <3> QED
      BY <1>2, <1>3, <2>1, <3>1
  <2> QED
    BY <2>1, <2>2, <2>3
<1> QED
  BY <1>4, <1>5, NextRows

\* The rows that come before a row, and all of them.
LEMMA Ranked ==
  ASSUME ListTypes
  PROVE  /\ Cardinality(Rows) \in Nat
         /\ \A ts : Newer(ts) \in Nat
         /\ \A ts \in Rows : Newer(ts) < Cardinality(Rows)
<1>1. IsFiniteSet(Rows) /\ Rows \subseteq Int
  BY RowsType DEF ListTypes
<1>2. \A ts : Newer(ts) = Cardinality(Above(Rows, ts))
  BY DEF Newer, Above
<1> HIDE DEF Rows
<1> QED
  BY <1>1, <1>2, AboveType, AboveMember, FS_CardinalityType

----------------------------------------------------------------------------
(* Steps of the others.                                                    *)

\* What Changed leaves out is as it was.
LEMMA Unchanged ==
  ASSUME ListTypes, ImportInv', NEW ts \in Int64, ts \notin Changed
  PROVE  /\ Homes(ts)' = Homes(ts)
         /\ \A n \in Homes(ts) : \A text : Matches(n, text)' <=> Matches(n, text)
         /\ ts \in Rows' <=> ts \in Rows
<1>1. ASSUME NEW n \in DOMAIN dir \cup DOMAIN dir', Parse(n) = ts
      PROVE  n \in DOMAIN dir /\ n \in DOMAIN dir' /\ dir[n] = dir'[n]
  BY <1>1 DEF Changed
<1>2. ts \in Rows' <=> ts \in Rows
  BY DEF Changed, Rows
<1>3. \A n : n \in Homes(ts)' <=> n \in Homes(ts)
  BY <1>1 DEF Homes
<1>4. \A n \in Homes(ts) : \A text : Matches(n, text)' <=> Matches(n, text)
  BY <1>1 DEF Homes, Matches
<1> QED
  BY <1>2, <1>3, <1>4

\* A row that is added or deleted, and the walk: the next page's offset stays.
LEMMA TableWalk ==
  ASSUME ListTypes, SkipInv, InStep, TableStep
  PROVE  WalkOK' /\ SkipInv' /\ InStep'
<1>0. [Next]_ivars /\ Rows' = DOMAIN snapshots'
  BY DEF TableStep, Rows
<1>1. CASE ~Reading
  <2>1. walk' = walk /\ ~Reading' /\ walk.at = "away"
    BY <1>1 DEF TableStep, Reading
  <2> QED
    BY <2>1 DEF SkipInv, Ahead, NothingSkipped, Ended, InStep, Reading, WalkOK, ListTypes
<1>2. CASE Reading
  <2> DEFINE deleted == Rows \ Rows'
             added == Rows' \ Rows
             early == \E ts \in deleted : Newer(ts) < Passed
  <2>1. walk' = [walk EXCEPT
                   !.base    = @ \ deleted,
                   !.changed = @ \/ (deleted \cup added # {}),
                   !.raced   = @ \/ (walk.at = "counted" /\ added # {}),
                   !.shifted = @ \/ early]
    BY <1>0, <1>2 DEF TableStep, Reading
  <2> HIDE DEF deleted, added, early
  <2>2. /\ walk'.at = walk.at /\ walk'.limit = walk.limit /\ walk'.offset = walk.offset
        /\ walk'.total = walk.total /\ walk'.turn = walk.turn
        /\ walk'.seen = walk.seen /\ walk'.again = walk.again
        /\ walk'.base = walk.base \ deleted
        /\ walk'.changed = (walk.changed \/ deleted \cup added # {})
        /\ walk'.raced = (walk.raced \/ (walk.at = "counted" /\ added # {}))
        /\ walk'.shifted = (walk.shifted \/ early)
    BY <2>1 DEF ListTypes, WalkOK, WalkType
  <2>3. WalkOK'
    <3>1. walk \in WalkType /\ walk.limit \in 1..MaxLimit /\ walk.again \subseteq walk.seen
      BY <1>2 DEF ListTypes, WalkOK
    <3>2. ASSUME NEW base \in SUBSET Int64, NEW c \in BOOLEAN, NEW r \in BOOLEAN,
                 NEW s \in BOOLEAN
          PROVE  [walk EXCEPT !.base = base, !.changed = c, !.raced = r,
                              !.shifted = s] \in WalkType
      BY <3>1 DEF WalkType
    <3>3. walk.base \ deleted \in SUBSET Int64
      BY <3>1 DEF WalkType
    <3>4. walk' \in WalkType
      BY <2>1, <3>2, <3>3
    <3> QED
      BY <2>2, <3>1, <3>4 DEF WalkOK
  <2>4. Passed' = Passed /\ NextOffset' = NextOffset /\ Reading' /\ Passed \in Nat
    BY <1>2, <2>2 DEF Passed, NextOffset, Reading, ListTypes, WalkOK, WalkType
  <2>5. walk.base \subseteq Rows /\ walk'.base \subseteq Rows'
    BY <1>2, <2>2 DEF SkipInv, deleted
  <2>6. Ahead'
    <3> SUFFICES ASSUME ~walk'.shifted, NEW ts \in walk'.base \ walk'.seen
                 PROVE  Newer(ts)' >= Passed
      BY <2>4 DEF Ahead
    <3>1. /\ ts \in walk.base \ walk.seen /\ ts \in Rows /\ ts \in Rows'
          /\ ~walk.shifted /\ ~early
      BY <2>2, <2>5
    <3>2. Newer(ts) >= Passed
      BY <1>2, <3>1 DEF SkipInv, Ahead
    <3>3. \A d \in Rows \ Rows' : Newer(d) >= Passed
      BY <2>4, <3>1, Ranked DEF early, deleted
    <3> QED
      BY <1>0, <2>4, <3>1, <3>2, <3>3, RankStep
  <2>7. walk'.at = "counted" /\ ~walk'.raced => Cardinality(Rows') <= walk'.total
    <3> SUFFICES ASSUME walk.at = "counted", ~walk.raced, Rows' \subseteq Rows
                 PROVE  Cardinality(Rows') <= walk.total
      BY <2>2 DEF added
    <3>1. /\ Cardinality(Rows') <= Cardinality(Rows)
          /\ Cardinality(Rows') \in Nat /\ Cardinality(Rows) \in Nat
      <4>1. IsFiniteSet(Rows)
        BY DEF ListTypes
      <4> HIDE DEF Rows
      <4> QED
        BY <4>1, FS_Subset, FS_CardinalityType
    <3>2. Cardinality(Rows) <= walk.total /\ walk.total \in Nat
      BY DEF SkipInv, ListTypes, WalkOK, WalkType
    <3> QED
      BY <3>1, <3>2
  <2>8. NothingSkipped'
    BY <2>2, <2>4 DEF SkipInv, NothingSkipped, Ended, HasNext, NextOffset
  <2>9. InStep'
    <3> SUFFICES ASSUME ~walk'.changed PROVE InStep'
      BY DEF InStep
    <3>1. ~walk.changed /\ Rows' = Rows
      BY <2>2 DEF deleted, added
    <3>2. \A ts : Newer(ts)' = Newer(ts)
      BY <3>1 DEF Newer
    <3> QED
      BY <1>2, <2>2, <2>4, <3>1, <3>2 DEF InStep
  <2> QED
    BY <2>3, <2>4, <2>5, <2>6, <2>7, <2>8, <2>9 DEF SkipInv
<1> QED
  BY <1>1, <1>2

LEMMA TableSearch ==
  ASSUME ListTypes, ImportInv', FindInv, TableStep
  PROVE  SearchOK' /\ FindInv'
<1>1. CASE search.at = "away"
  <2>1. search' = search
    BY <1>1 DEF TableStep
  <2> QED
    BY <1>1, <2>1 DEF FindInv, SearchFinds, SearchOK, ListTypes
<1>2. CASE search.at # "away"
  <2>1. search' = [search EXCEPT !.touched = @ \cup Changed]
    BY <1>2 DEF TableStep
  <2>2. Changed \subseteq Int64
    <3>1. DOMAIN dir \subseteq Name /\ DOMAIN dir' \subseteq Name
      BY DEF ListTypes, ImportInv, TypeInv, TypeOK, DirOK
    <3>2. Rows \subseteq Int64 /\ DOMAIN snapshots' \subseteq Int64
      BY DEF ListTypes, ImportInv, TypeInv, TypeOK, TableOK, Rows
    <3> QED
      BY <3>1, <3>2, ParseType DEF Changed, Rows
  <2>3. /\ search'.at = search.at /\ search'.query = search.query
        /\ search'.left = search.left /\ search'.found = search.found
        /\ search'.page = search.page /\ search'.touched = search.touched \cup Changed
    BY <2>1 DEF ListTypes, SearchOK, SearchType
  <2>4. SearchOK'
    BY <2>1, <2>2, <2>3 DEF ListTypes, SearchOK, SearchType
  <2>5. ASSUME NEW ts \in Int64 \ search'.touched, search.at = "grep"
        PROVE  Searched(ts)'
    <3>1. Searched(ts) /\ ts \notin Changed
      BY <2>3, <2>5 DEF FindInv
    <3> QED
      BY <2>3, <3>1, Unchanged DEF Searched
  <2>6. SearchFinds'
    <3> SUFFICES ASSUME search.at = "shown", NEW ts \in Int64 \ search'.touched
                 PROVE  ts \in search.page <=>
                          /\ ts \in Rows'
                          /\ \E n \in Homes(ts)' : Matches(n, search.query)'
      <4>1. search.page \subseteq Int64 /\ Rows' \subseteq Int64
        BY DEF ListTypes, SearchOK, SearchType, ImportInv, TypeInv, TypeOK, TableOK, Rows
      <4> QED
        BY <2>3, <4>1 DEF SearchFinds
    <3>1. ts \notin search.touched /\ ts \notin Changed
      BY <2>3
    <3>2. ts \in search.page <=>
            ts \in Rows /\ \E n \in Homes(ts) : Matches(n, search.query)
      BY <3>1 DEF FindInv, SearchFinds
    <3>3. /\ Homes(ts)' = Homes(ts) /\ (ts \in Rows' <=> ts \in Rows)
          /\ \A n \in Homes(ts) : Matches(n, search.query)' <=> Matches(n, search.query)
      BY <2>3, <3>1, Unchanged
    <3> QED
      BY <3>2, <3>3
  <2> QED
    BY <2>3, <2>4, <2>5, <2>6 DEF FindInv
<1> QED
  BY <1>1, <1>2

----------------------------------------------------------------------------
(* Steps of the reader of the list.                                        *)

LEMMA ClampType ==
  ASSUME NEW q \in Asked
  PROVE  Clamp(q) \in 1..MaxLimit
BY ListingAssumption DEF Clamp, ParsePositiveInt

\* Starting a search is the one step of the reader that counts as an operation.
LEMMA ImportUnchanged ==
  ASSUME ImportInv, UNCHANGED <<table, dir, worker, removing, import, hist>>,
         ops' \in 0..MaxOps
  PROVE  ImportInv'
<1>1. TypeInv'
  BY DEF ImportInv, TypeInv, TypeOK, TableOK, RowIds, DirOK, WorkerOK, ImportOK, table,
         hist
<1>2. DataInv'
  BY DEF ImportInv, DataInv, RowsAgree, EntriesAgree, ScanCurrent, GoneForgotten,
         Forgotten, Writing, Agrees, Whole, Homes, Importing, Entry, BestTitle, table,
         hist
<1>3. NoScan' /\ WorkerAgrees'
  BY DEF ImportInv, NoScan, WorkerAgrees, Importing, table
<1> QED
  BY <1>1, <1>2, <1>3 DEF ImportInv

\* A step that changes only the walk.
LEMMA OnlyWalk ==
  ASSUME ListTypes, UNCHANGED <<table, dir, worker, removing, import, hist, search>>,
         ops' = ops \/ Operate
  PROVE  /\ ImportInv' /\ IsFiniteSet(Rows') /\ SearchOK'
         /\ Rows' = Rows /\ \A ts : Newer(ts)' = Newer(ts)
         /\ FindInv => FindInv'
<1>1. UNCHANGED <<snapshots, dir, search>>
  BY DEF table
<1>2. ImportInv'
  <2>1. ops \in 0..MaxOps /\ ImportInv
    BY DEF ListTypes, ImportInv, TypeInv, TypeOK
  <2>2. ops' \in 0..MaxOps
    BY <2>1, ImportAssumption DEF Operate
  <2> QED
    BY <2>1, <2>2, ImportUnchanged
<1>3. Rows' = Rows /\ \A ts : Newer(ts)' = Newer(ts)
  BY <1>1 DEF Rows, Newer
<1>4. SearchOK'
  BY <1>1 DEF ListTypes, SearchOK
<1>5. FindInv => FindInv'
  BY <1>1 DEF FindInv, Searched, SearchFinds, Homes, Matches, Rows
<1> QED
  BY <1>2, <1>3, <1>4, <1>5 DEF ListTypes

LEMMA OpenStep ==
  ASSUME ListInv, NEW q \in Asked, Open(q)
  PROVE  ListInv'
<1> DEFINE limit == Clamp(q)
<1>1. limit \in 1..MaxLimit /\ limit \in Nat
  BY ClampType, ListingAssumption
<1> HIDE DEF limit
<1>2. /\ UNCHANGED <<table, dir, worker, removing, import, hist, search>>
      /\ Operate /\ ListTypes
  BY DEF Open, ListInv
<1>3. walk' = [NoWalk EXCEPT !.at = "counted", !.limit = limit, !.turn = 1,
                             !.total = Cardinality(Rows), !.base = Rows]
  BY DEF Open, limit
<1>4. /\ walk'.at = "counted" /\ walk'.limit = limit /\ walk'.offset = 0
      /\ walk'.total = Cardinality(Rows) /\ walk'.turn = 1
      /\ walk'.seen = {} /\ walk'.again = {} /\ walk'.base = Rows
      /\ ~walk'.raced
  BY <1>3 DEF NoWalk
<1>5. Cardinality(Rows) \in Nat /\ Rows \subseteq Int64 /\ \A ts : Newer(ts) \in Nat
  BY <1>2, Ranked, RowsType
<1>6. WalkOK'
  BY <1>1, <1>3, <1>4, <1>5 DEF WalkOK, WalkType, NoWalk, Reading
<1>7. Passed' = 0
  BY <1>4 DEF Passed
<1>8. ImportInv' /\ IsFiniteSet(Rows') /\ SearchOK' /\ FindInv'
      /\ Rows' = Rows /\ \A ts : Newer(ts)' = Newer(ts)
  BY <1>2, OnlyWalk DEF ListInv
<1>9. SkipInv'
  BY <1>4, <1>5, <1>7, <1>8 DEF SkipInv, Ahead, NothingSkipped, Ended
<1>10. InStep'
  <2>1. {ts \in Rows : Newer(ts) < 0} = {}
    BY <1>5
  <2> QED
    BY <1>4, <1>7, <1>8, <2>1 DEF InStep
<1> QED
  BY <1>6, <1>8, <1>9, <1>10 DEF ListInv, ListTypes

LEMMA FollowStep ==
  ASSUME ListInv, FollowNext
  PROVE  ListInv'
<1>1. UNCHANGED <<ivars, search>> /\ ListTypes /\ walk.at = "shown" /\ HasNext
  BY DEF FollowNext, ListInv
<1>2. /\ walk'.at = "counted" /\ walk'.limit = DefaultSize /\ walk'.offset = NextOffset
      /\ walk'.total = Cardinality(Rows) /\ walk'.turn = walk.turn + 1
      /\ walk'.seen = walk.seen /\ walk'.again = walk.again /\ walk'.base = walk.base
      /\ walk'.shifted = walk.shifted /\ walk'.changed = walk.changed
  BY <1>1 DEF FollowNext, ListTypes, WalkOK, WalkType
<1>3. /\ walk.limit \in Nat \ {0} /\ walk.offset \in Nat /\ walk.turn \in Nat
      /\ NextOffset \in Nat /\ NextOffset > 0
  BY <1>1, ListingAssumption DEF ListTypes, WalkOK, WalkType, Reading, NextOffset
<1>4. Cardinality(Rows) \in Nat
  BY <1>1, Ranked
<1>5. WalkOK'
  <2>1. walk \in WalkType /\ walk.again \subseteq walk.seen
    BY <1>1 DEF ListTypes, WalkOK
  <2>2. DefaultSize \in Nat /\ DefaultSize \in 1..MaxLimit /\ walk.turn + 1 \in Nat
    BY <1>3, ListingAssumption
  <2>3. walk' = [walk EXCEPT !.at = "counted", !.limit = DefaultSize,
                             !.offset = NextOffset, !.turn = @ + 1,
                             !.total = Cardinality(Rows), !.raced = FALSE]
    BY DEF FollowNext
  <2>4. walk' \in WalkType
    BY <1>3, <1>4, <2>1, <2>2, <2>3 DEF WalkType
  <2> QED
    BY <1>2, <2>1, <2>2, <2>4 DEF WalkOK
<1>6. Passed = NextOffset /\ Passed' = NextOffset
  BY <1>1, <1>2 DEF Passed
<1>7. ImportInv' /\ IsFiniteSet(Rows') /\ SearchOK' /\ FindInv'
      /\ Rows' = Rows /\ \A ts : Newer(ts)' = Newer(ts)
  BY <1>1, OnlyWalk DEF ListInv, ivars
<1>8. SkipInv'
  BY <1>1, <1>2, <1>4, <1>6, <1>7
  DEF ListInv, SkipInv, Ahead, Reading, NothingSkipped, Ended
<1>9. InStep'
  <2> SUFFICES ASSUME ~walk.changed PROVE InStep'
    BY <1>2 DEF InStep
  <2>1. /\ walk.again = {} /\ walk.total = Cardinality(Rows)
        /\ walk.seen = {ts \in Rows : Newer(ts) < Passed} /\ walk.turn >= 1
    BY <1>1, <1>3 DEF ListInv, InStep, Reading
  <2>2. NextOffset < walk.total
    BY <1>1 DEF HasNext, NextOffset
  <2> QED
    BY <1>2, <1>3, <1>6, <1>7, <2>1, <2>2 DEF InStep
<1> QED
  BY <1>5, <1>7, <1>8, <1>9 DEF ListInv, ListTypes

LEMMA ShowStep ==
  ASSUME ListInv, Show
  PROVE  ListInv'
<1> DEFINE page == Select(walk.limit, walk.offset)
           next == walk.offset + walk.limit
<1>1. UNCHANGED <<ivars, search>> /\ ListTypes /\ walk.at = "counted" /\ Reading
  BY DEF Show, ListInv, Reading
<1>2. page \subseteq Rows
      /\ \A ts \in Rows : ts \in page <=> walk.offset <= Newer(ts) /\ Newer(ts) < next
  BY DEF Select
<1> HIDE DEF page
<1>3. walk' = [walk EXCEPT !.at = "shown", !.seen = @ \cup page,
                           !.again = @ \cup (page \cap walk.seen)]
  BY DEF Show, page
<1>4. /\ walk'.at = "shown" /\ walk'.limit = walk.limit /\ walk'.offset = walk.offset
      /\ walk'.total = walk.total /\ walk'.turn = walk.turn
      /\ walk'.seen = walk.seen \cup page /\ walk'.base = walk.base
      /\ walk'.again = walk.again \cup (page \cap walk.seen)
      /\ walk'.shifted = walk.shifted /\ walk'.changed = walk.changed
      /\ walk'.raced = walk.raced
  BY <1>1, <1>3 DEF ListTypes, WalkOK, WalkType
<1>5. /\ walk.limit \in Nat /\ walk.offset \in Nat /\ walk.total \in Nat
      /\ next \in Nat /\ Rows \subseteq Int64
  BY <1>1, RowsType DEF ListTypes, WalkOK, WalkType
<1>6. /\ Cardinality(Rows) \in Nat /\ \A ts : Newer(ts) \in Nat
      /\ \A ts \in Rows : Newer(ts) < Cardinality(Rows)
  BY <1>1, Ranked
<1>7. WalkOK'
  <2>1. walk \in WalkType /\ walk.again \subseteq walk.seen /\ page \subseteq Int64
        /\ walk.limit \in 1..MaxLimit
    BY <1>1, <1>2, <1>5 DEF ListTypes, WalkOK
  <2>2. walk' \in WalkType
    BY <1>3, <2>1 DEF WalkType
  <2> QED
    BY <1>4, <2>1, <2>2 DEF WalkOK
<1>8. Passed = walk.offset /\ Passed' = next /\ NextOffset' = next
  BY <1>1, <1>4 DEF Passed, NextOffset
<1>9. ImportInv' /\ IsFiniteSet(Rows') /\ SearchOK' /\ FindInv'
      /\ Rows' = Rows /\ \A ts : Newer(ts)' = Newer(ts)
  BY <1>1, OnlyWalk DEF ListInv, ivars
<1> HIDE DEF next
<1>10. walk.base \subseteq Rows
  BY <1>1 DEF ListInv, SkipInv
<1>11. ~walk.shifted => \A ts \in walk.base \ walk'.seen : Newer(ts) >= next
  <2> SUFFICES ASSUME ~walk.shifted, NEW ts \in walk.base \ walk'.seen
               PROVE  Newer(ts) >= next
    OBVIOUS
  <2>1. ts \in Rows /\ ts \in walk.base \ walk.seen /\ ts \notin page
    BY <1>4, <1>10
  <2>2. Newer(ts) >= walk.offset
    BY <1>1, <1>8, <2>1 DEF ListInv, SkipInv, Ahead
  <2> QED
    BY <1>2, <1>5, <1>6, <2>1, <2>2
<1>12. NothingSkipped'
  <2> SUFFICES ASSUME ~HasNext', ~walk.shifted, ~walk.raced
               PROVE  walk.base \subseteq walk'.seen
    BY <1>4 DEF NothingSkipped, Ended
  <2>1. Cardinality(Rows) <= walk.total
    BY <1>1 DEF ListInv, SkipInv
  <2>2. walk.total <= next
    BY <1>4, <1>5 DEF HasNext, next
  <2>3. \A ts \in Rows : Newer(ts) < next
    BY <1>5, <1>6, <2>1, <2>2
  <2> QED
    BY <1>5, <1>6, <1>10, <1>11, <2>3
<1>13. SkipInv'
  BY <1>4, <1>8, <1>9, <1>10, <1>11, <1>12 DEF SkipInv, Ahead
<1>14. InStep'
  <2> SUFFICES ASSUME ~walk.changed PROVE InStep'
    BY <1>4 DEF InStep
  <2>1. /\ walk.again = {} /\ walk.total = Cardinality(Rows)
        /\ walk.seen = {ts \in Rows : Newer(ts) < walk.offset}
        /\ \/ walk.turn = 1 /\ walk.offset = 0
           \/ walk.turn > 1 /\ walk.offset > 0 /\ walk.offset < walk.total
    BY <1>1, <1>8 DEF ListInv, InStep
  <2>2. page \cap walk.seen = {}
    BY <1>2, <1>5, <1>6, <2>1
  <2>3. walk'.seen = {ts \in Rows : Newer(ts) < next}
    <3>1. \A ts \in Rows : Newer(ts) < next <=>
                             Newer(ts) < walk.offset \/ ts \in page
      BY <1>2, <1>5, <1>6 DEF next
    <3> QED
      BY <1>2, <1>4, <2>1, <3>1
  <2> QED
    BY <1>4, <1>8, <1>9, <2>1, <2>2, <2>3 DEF InStep
<1> QED
  BY <1>7, <1>9, <1>13, <1>14 DEF ListInv, ListTypes

LEMMA LeaveStep ==
  ASSUME ListInv, Leave
  PROVE  ListInv'
<1>1. UNCHANGED <<ivars, search>> /\ ListTypes /\ walk' = NoWalk
  BY DEF Leave, ListInv
<1>2. WalkOK' /\ ~Reading' /\ ~Ended' /\ walk'.at = "away"
  BY <1>1 DEF NoWalk, WalkOK, WalkType, Reading, Ended
<1>3. ImportInv' /\ IsFiniteSet(Rows') /\ SearchOK' /\ FindInv'
  BY <1>1, OnlyWalk DEF ListInv, ivars
<1> QED
  BY <1>2, <1>3 DEF ListInv, ListTypes, SkipInv, Ahead, NothingSkipped, InStep

----------------------------------------------------------------------------
(* Steps of the search.                                                    *)

\* A step that leaves the table, the archive and the walk alone.
LEMMA OnlySearch ==
  ASSUME ListInv, UNCHANGED <<table, dir, worker, removing, import, hist, walk>>,
         ops' \in 0..MaxOps, SearchOK', FindInv'
  PROVE  ListInv'
<1>1. ImportInv'
  BY ImportUnchanged DEF ListInv, ListTypes
<1>2. UNCHANGED <<snapshots, walk>>
  BY DEF table
<1> QED
  BY <1>1, <1>2
  DEF ListInv, ListTypes, Rows, WalkOK, Reading, SkipInv, Ahead, NothingSkipped, Ended,
      HasNext, Newer, Passed, NextOffset, InStep

LEMMA SearchSteps ==
  ASSUME ListInv,
         \/ \E text \in Queries : StartSearch(text)
         \/ \E n \in search.left : Grep(n)
         \/ Answer \/ LeaveSearch
  PROVE  ListInv'
<1>0. /\ SearchOK /\ FindInv /\ search \in SearchType
      /\ ops \in 0..MaxOps /\ DOMAIN dir \subseteq Name
      /\ NoSearch \in SearchType /\ NoSearch.page = {} /\ NoSearch.found = {}
      /\ NoSearch.at = "away"
  BY DEF ListInv, ListTypes, SearchOK, ImportInv, TypeInv, TypeOK, DirOK, NoSearch,
         SearchType, AnyTitle
<1>1. ASSUME NEW text \in Queries, StartSearch(text) PROVE ListInv'
  <2>1. /\ search' = [NoSearch EXCEPT !.at = "grep", !.query = text, !.left = DOMAIN dir]
        /\ UNCHANGED <<table, dir, worker, removing, import, hist, walk>>
        /\ ops' \in 0..MaxOps
    <3>1. ops < MaxOps /\ ops' = ops + 1
      BY <1>1 DEF StartSearch, Operate
    <3>2. ops' \in 0..MaxOps
      BY <1>0, <3>1, ImportAssumption
    <3> QED
      BY <1>1, <3>2 DEF StartSearch
  <2>2. /\ search'.at = "grep" /\ search'.left = DOMAIN dir /\ search'.found = {}
        /\ search'.page = {}
    BY <2>1 DEF NoSearch
  <2>3. SearchOK'
    <3>1. text \in AnyTitle
      BY ListingAssumption DEF AnyTitle
    <3> QED
      BY <1>0, <2>1, <2>2, <3>1 DEF SearchOK, SearchType
  <2>4. FindInv'
    BY <2>1, <2>2 DEF FindInv, SearchFinds, Searched, Homes
  <2> QED
    BY <2>1, <2>3, <2>4, OnlySearch
<1>2. ASSUME NEW n \in search.left, Grep(n) PROVE ListInv'
  <2> DEFINE hit == IF Matches(n, search.query) THEN {Parse(n)} ELSE {}
  <2>1. UNCHANGED <<ivars, walk>> /\ n \in Name /\ Parse(n) \in Int64
    BY <1>0, <1>2, ParseType DEF Grep, SearchType
  <2>2. hit \subseteq Int64
    BY <2>1
  <2> HIDE DEF hit
  <2>3. search' = [search EXCEPT !.left = @ \ {n}, !.found = @ \cup hit,
                                 !.broken = @ \/ n \notin DOMAIN dir]
    BY <1>2 DEF Grep, hit
  <2>4. /\ search'.at = search.at /\ search'.query = search.query
        /\ search'.left = search.left \ {n} /\ search'.found = search.found \cup hit
        /\ search'.page = search.page /\ search'.touched = search.touched
    BY <1>0, <2>3 DEF SearchType
  <2>5. SearchOK'
    BY <1>0, <2>2, <2>3, <2>4 DEF SearchOK, SearchType
  <2>6. ASSUME NEW ts \in Int64 \ search.touched, search.at = "grep"
        PROVE  Searched(ts)'
    <3>1. Searched(ts)
      BY <1>0, <2>6 DEF FindInv
    <3>2. /\ Homes(ts)' = Homes(ts)
          /\ \A m \in Homes(ts) : Matches(m, search.query)' <=> Matches(m, search.query)
      BY <2>1, <2>4 DEF ivars, Homes, Matches
    <3>3. ts \in hit => n \in Homes(ts) /\ Matches(n, search.query)
      BY DEF hit, Homes, Matches
    <3>4. n \in Homes(ts) /\ Matches(n, search.query) => ts \in hit
      BY DEF hit, Homes
    <3> QED
      BY <2>4, <3>1, <3>2, <3>3, <3>4 DEF Searched
  <2>7. SearchFinds'
    <3> SUFFICES ASSUME search.at = "shown" PROVE SearchFinds'
      BY <2>4 DEF SearchFinds
    <3>1. SearchFinds
      BY <1>0 DEF FindInv
    <3> QED
      BY <2>1, <2>4, <3>1 DEF SearchFinds, ivars, table, Rows, Homes, Matches
  <2>8. FindInv'
    BY <2>4, <2>6, <2>7 DEF FindInv
  <2> QED
    BY <1>0, <2>1, <2>5, <2>8, OnlySearch DEF ivars
<1>3. CASE Answer
  <2>1. UNCHANGED <<ivars, walk>> /\ search.at = "grep" /\ search.left = {}
    BY <1>3 DEF Answer
  <2>2. CASE search.broken
    <3>1. search' = NoSearch
      BY <1>3, <2>2 DEF Answer
    <3>2. SearchOK' /\ FindInv'
      BY <1>0, <3>1 DEF SearchOK, FindInv, SearchFinds
    <3> QED
      BY <1>0, <2>1, <3>2, OnlySearch DEF ivars
  <2>3. CASE ~search.broken
    <3>1. search' = [search EXCEPT !.at = "shown", !.page = search.found \cap Rows]
      BY <1>3, <2>3 DEF Answer, RowsOf
    <3>2. /\ search'.at = "shown" /\ search'.query = search.query
          /\ search'.page = search.found \cap Rows /\ search'.found = search.found
          /\ search'.touched = search.touched
      BY <1>0, <3>1 DEF SearchType
    <3>3. SearchOK'
      BY <1>0, <3>1, <3>2 DEF SearchOK, SearchType
    <3>4. \A ts \in Int64 \ search.touched :
            ts \in search.found <=> \E n \in Homes(ts) : Matches(n, search.query)
      BY <1>0, <2>1 DEF FindInv, Searched
    <3>5. SearchFinds'
      <4>1. Rows \subseteq Int64
        BY RowsType DEF ListInv
      <4>2. (search.found \cap Rows) \ search.touched =
              {ts \in Rows \ search.touched :
                 \E n \in Homes(ts) : Matches(n, search.query)}
        BY <3>4, <4>1
      <4> QED
        BY <2>1, <3>2, <4>2 DEF SearchFinds, ivars, table, Rows, Homes, Matches
    <3> QED
      BY <1>0, <2>1, <3>2, <3>3, <3>5, OnlySearch DEF ivars, FindInv
  <2> QED
    BY <2>2, <2>3
<1>4. CASE LeaveSearch
  <2>1. UNCHANGED <<ivars, walk>> /\ search' = NoSearch
    BY <1>4 DEF LeaveSearch
  <2>2. SearchOK' /\ FindInv'
    BY <1>0, <2>1 DEF SearchOK, FindInv, SearchFinds
  <2> QED
    BY <1>0, <2>1, <2>2, OnlySearch DEF ivars
<1> QED
  BY <1>1, <1>2, <1>3, <1>4

----------------------------------------------------------------------------
(* The invariant, and what follows from it.                                *)

LEMMA ListStep == ListInv /\ [ListNext]_lvars => ListInv'
<1> SUFFICES ASSUME ListInv, [ListNext]_lvars PROVE ListInv'
  OBVIOUS
<1>1. CASE TableStep
  <2>1. ListTypes /\ [Next]_ivars
    BY <1>1 DEF ListInv, TableStep
  <2>2. ImportInv' /\ IsFiniteSet(Rows')
    BY <2>1, InvStep, NextRows DEF ListTypes
  <2>3. WalkOK' /\ SkipInv' /\ InStep'
    BY <1>1, TableWalk DEF ListInv
  <2>4. SearchOK' /\ FindInv'
    BY <1>1, <2>2, TableSearch DEF ListInv
  <2> QED
    BY <2>2, <2>3, <2>4 DEF ListInv, ListTypes
<1>2. CASE \/ \E text \in Queries : StartSearch(text)
           \/ \E n \in search.left : Grep(n)
           \/ Answer \/ LeaveSearch
  BY <1>2, SearchSteps
<1>3. CASE (\E q \in Asked : Open(q)) \/ FollowNext \/ Show \/ Leave
  BY <1>3, OpenStep, FollowStep, ShowStep, LeaveStep
<1>4. CASE UNCHANGED lvars
  <2>1. UNCHANGED <<table, dir, worker, removing, import, hist, walk>>
        /\ ops' = ops /\ search' = search /\ UNCHANGED <<snapshots, dir>>
    BY <1>4 DEF lvars, ivars, table
  <2>2. ops' \in 0..MaxOps
    BY <2>1 DEF ListInv, ListTypes, ImportInv, TypeInv, TypeOK
  <2>3. SearchOK' /\ FindInv'
    BY <2>1 DEF ListInv, ListTypes, SearchOK, FindInv, Searched, SearchFinds, Homes,
                Matches, Rows
  <2> QED
    BY <2>1, <2>2, <2>3, OnlySearch
<1> QED
  BY <1>1, <1>2, <1>3, <1>4 DEF ListNext

\* The numbers on a page: the pages before it are full when the links ask for
\* as many rows as the first page did.
LEMMA PageNumbers ==
  ASSUME ListInv, walk.at = "shown", ~walk.changed, walk.limit * walk.turn = NextOffset
  PROVE  /\ PageNumber = walk.turn
         /\ HasPrev => PrevOffset = (walk.turn - 2) * walk.limit
         /\ Rows # {} => (HasNext <=> PageNumber < Pages)
         /\ PageNumber > Pages => Rows = {}
<1>1. /\ walk.limit \in Nat \ {0} /\ walk.offset \in Nat /\ walk.turn \in Nat \ {0}
      /\ walk.total \in Nat /\ walk.total = Cardinality(Rows) /\ IsFiniteSet(Rows)
      /\ \/ walk.turn = 1 /\ walk.offset = 0
         \/ walk.turn > 1 /\ walk.offset > 0 /\ walk.offset < walk.total
  BY ListingAssumption DEF ListInv, ListTypes, WalkOK, WalkType, Reading, InStep
<1> DEFINE b == walk.limit
           k == walk.turn
           a == walk.total
<1>2. PICK j \in Nat : j = k - 1
  BY <1>1
<1>3. walk.offset = b * j /\ b * k = walk.offset + b
  <2>1. b * k = walk.offset + b
    BY DEF NextOffset
  <2>2. b * k = b * j + b
    BY <1>1, <1>2
  <2> QED
    BY <1>1, <1>2, <2>1, <2>2
<1>4. PageNumber = k
  BY <1>1, <1>2, <1>3, WholePages DEF PageNumber
<1>5. HasPrev => PrevOffset = (k - 2) * b
  <2> SUFFICES ASSUME walk.offset > 0 PROVE PrevOffset = (k - 2) * b
    BY DEF HasPrev
  <2>1. k > 1
    BY <1>1
  <2>2. (k - 2) * b = walk.offset - b
    BY <1>1, <1>2, <1>3
  <2>3. CASE walk.offset > b
    BY <2>2, <2>3 DEF PrevOffset
  <2>4. CASE ~(walk.offset > b)
    <3>1. (k - 2) * b >= 0
      BY <1>1, <2>1
    <3> QED
      BY <1>1, <2>2, <2>4, <3>1 DEF PrevOffset
  <2> QED
    BY <2>3, <2>4
<1>6. Rows # {} => a \in Nat \ {0} /\ Pages = (a + b - 1) \div b
  BY <1>1, FS_EmptySet DEF Pages
<1>7. Rows # {} => (HasNext <=> PageNumber < Pages)
  <2> SUFFICES ASSUME Rows # {} PROVE HasNext <=> PageNumber < Pages
    OBVIOUS
  <2>1. k < (a + b - 1) \div b <=> b * k < a
    BY <1>1, <1>6, RoundUp
  <2>2. HasNext <=> b * k < a
    BY <1>3 DEF HasNext
  <2> QED
    BY <1>4, <1>6, <2>1, <2>2
<1>8. PageNumber > Pages => Rows = {}
  <2> SUFFICES ASSUME Rows # {} PROVE ~(PageNumber > Pages)
    OBVIOUS
  <2>1. b * j < a
    BY <1>1, <1>3, <1>6
  <2>2. j < (a + b - 1) \div b
    BY <1>1, <1>2, <1>6, <2>1, RoundUp
  <2>3. (a + b - 1) \div b \in Int
    BY <1>1
  <2> QED
    BY <1>1, <1>2, <1>4, <1>6, <2>2, <2>3
<1> QED
  BY <1>4, <1>5, <1>7, <1>8

LEMMA PageAfterPage == ListInv => EachOnce
<1> SUFFICES ASSUME ListInv, walk.at = "shown", ~walk.changed
             PROVE  /\ walk.again = {}
                    /\ walk.seen = {ts \in Rows : Newer(ts) < NextOffset}
                    /\ HasNext <=> walk.seen # Rows
                    /\ HasPrev <=> walk.turn > 1
  BY PageNumbers DEF EachOnce
<1>1. /\ walk.again = {} /\ walk.total = Cardinality(Rows)
      /\ walk.seen = {ts \in Rows : Newer(ts) < NextOffset}
      /\ HasPrev <=> walk.turn > 1
  BY DEF ListInv, InStep, Reading, Passed, HasPrev
<1>2. /\ Cardinality(Rows) \in Nat /\ \A ts : Newer(ts) \in Nat
      /\ \A ts \in Rows : Newer(ts) < Cardinality(Rows)
      /\ NextOffset \in Nat /\ (HasNext <=> NextOffset < Cardinality(Rows))
  BY <1>1, Ranked DEF ListInv, ListTypes, WalkOK, WalkType, NextOffset, HasNext
<1>3. HasNext => walk.seen # Rows
  <2> SUFFICES ASSUME HasNext PROVE \E ts \in Rows : ~(Newer(ts) < NextOffset)
    BY <1>1
  <2>1. IsFiniteSet(Rows) /\ Rows \subseteq Int64
    BY RowsType DEF ListInv, ListTypes
  <2>2. Rows # {}
    BY <1>2, FS_EmptySet
  <2>3. PICK ts \in Rows : Cardinality(Above(Rows, ts)) = Cardinality(Rows) - 1
    BY <2>1, <2>2, Last
  <2>4. Newer(ts) = Cardinality(Rows) - 1
    BY <2>3 DEF Newer, Above
  <2> QED
    BY <1>2, <2>4
<1>4. ~HasNext => walk.seen = Rows
  BY <1>1, <1>2
<1> QED
  BY <1>1, <1>3, <1>4

\* Beside the worker, imports and deletions, with readers between any two steps:
\* what import and the worker keep of rows and index.json (ImportInv), and what
\* a reader knows between two requests, the snapshots above the page shown
\* (handlers.go:85) and the files found before the rows are read
\* (handlers.go:128).
THEOREM ListInvariance == ListSpec => []ListInv
BY ListInitInv, ListStep, PTL DEF ListSpec

\* The limit of a page is at least 1 and at most MaxLimit, whatever was asked
\* for (listSnapshotsData, handlers.go:92): the page numbers divide by it.  What
\* a search shows is among its matches.
THEOREM ListTypeCorrect == ListSpec => []ListTypeOK
<1>1. ListInv => ListTypeOK
  BY DEF ListInv, ListTypes, ImportInv, TypeInv, WalkOK, WalkType, SearchOK, SearchType,
         Reading, ListTypeOK
<1> QED
  BY <1>1, ListInvariance, PTL

\* listSnapshotsData (handlers.go) and ListSnapshots (queries.go): a reader who
\* follows Next to the end has seen every snapshot that was there all the time.
THEOREM WalkIsComplete == ListSpec => []NothingSkipped
<1>1. ListInv => NothingSkipped
  BY DEF ListInv, SkipInv
<1> QED
  BY <1>1, ListInvariance, PTL

\* The pages of a table that does not change (listSnapshotsData, handlers.go:85,
\* ListSnapshots, queries.go:52): the n-th shows the rows that follow those of
\* the n - 1 before, the last is the one without Next, and Page, Pages and
\* PrevOffset say so.
THEOREM WalkIsInOrder == ListSpec => []EachOnce
BY PageAfterPage, ListInvariance, PTL

\* searchSnapshotsData (handlers.go:128): what a search shows is what matched
\* and still has a row when GetSnapshotsByTimestamps reads the table
\* (queries.go:92), newest first.
THEOREM SearchIsExact == ListSpec => []SearchFinds
<1>1. ListInv => SearchFinds
  BY DEF ListInv, FindInv
<1> QED
  BY <1>1, ListInvariance, PTL

\* The reader is no actor: what imports, passes and deletions keep (RowsMatch,
\* DeletionIsFinal, ImportIsCurrent, IdsSurviveImport) they keep with readers
\* beside them, who take up operations.
THEOREM ReadersChangeNothing ==
  ListSpec => /\ []RowMatchesIndex
              /\ []DeletedIsFinal
              /\ ImportReflectsDisk
              /\ ImplementsTable
<1> DEFINE Reflects ==
      \A ts \in {Parse(n) : n \in DOMAIN dir} \ import.touched :
         LET readable == {n \in Homes(ts) : Whole(n)}
         IN  readable # {} =>
               /\ ts \in DOMAIN snapshots'
               /\ \E n \in readable : snapshots'[ts].title = Entry(n).title
<1>1. ListInv => ImportInv
  BY DEF ListInv, ListTypes
<1>2. ImportInv => [Commit => Reflects]_ivars
  BY CommitReflects
<1>3. ListInit => Table!TInit
  BY DEF ListInit, Init, Empty, Table!TInit
<1>4. ListInv /\ ListInv' /\ [ListNext]_lvars => [Table!TNext]_(Table!tvars)
  <2> SUFFICES ASSUME ListInv, ListInv', [ListNext]_lvars
               PROVE  [Table!TNext]_(Table!tvars)
    OBVIOUS
  <2>1. TypeInv /\ TypeInv'
    BY <1>1 DEF ListInv, ListTypes, ImportInv
  <2>2. [Next]_ivars \/ UNCHANGED <<snapshots, lastId>>
    BY DEF ListNext, lvars, TableStep, Open, FollowNext, Show, Leave, StartSearch,
           Grep, Answer, LeaveSearch, ivars, table
  <2>3. UNCHANGED <<snapshots, lastId>> => UNCHANGED Table!tvars
    BY DEF Table!tvars
  <2> QED
    BY <2>1, <2>2, <2>3, TableStepOfImport
<1> QED
  BY <1>1, <1>2, <1>3, <1>4, Promises, ListInvariance, PTL
  DEF ImportReflectsDisk, ListSpec, ImplementsTable, Table!TSpec
=============================================================================
