------------------------------- MODULE Listing -------------------------------
(***************************************************************************)
(* The list of snapshots, page by page, and the search of their files,     *)
(* while the table and the archive change.                                 *)
(*                                                                         *)
(* A page is two statements, a count and a SELECT with LIMIT and OFFSET,   *)
(* and each page is a request of its own.  A search is a run of ripgrep    *)
(* over the archive and then a SELECT.  The module adds one reader to      *)
(* Import, whose steps come in between.                                    *)
(***************************************************************************)
EXTENDS Import

CONSTANTS
    DefaultSize,  \* defaultPageSize
    MaxLimit,     \* meta.MaxLimit
    Asked,        \* values of the query parameter limit; -1 is unreadable
    Queries       \* texts that are searched for

ASSUME ListingAssumption ==
    /\ DefaultSize \in Nat \ {0} /\ MaxLimit \in Nat \ {0}
    /\ DefaultSize <= MaxLimit
    /\ Asked \subseteq Nat \cup {-1}
    /\ Queries \subseteq Titles

\* The page being loaded or shown, the number of the page in this walk, and
\* what the walk has seen, and seen again.  The last three are history: the
\* rows that were there all the time, and what changed under the reader.
VARIABLE walk

NoWalk == [at |-> "away", limit |-> 0, offset |-> 0, total |-> 0, turn |-> 0,
           seen |-> {}, again |-> {}, base |-> {}, raced |-> FALSE,
           shifted |-> FALSE, changed |-> FALSE]

\* The search: the directories ripgrep has still to read, the timestamps of
\* its matches, whether it met an error, and the answer.  As history, the
\* snapshots that changed since it began.
VARIABLE search

NoSearch == [at |-> "away", query |-> NoTitle, left |-> {}, found |-> {},
             broken |-> FALSE, page |-> {}, touched |-> {}]

lvars == <<ivars, walk, search>>

ListInit == Init /\ walk = NoWalk /\ search = NoSearch

Rows == DOMAIN snapshots

----------------------------------------------------------------------------
(* listSnapshotsData and ListSnapshots.                                    *)

ParsePositiveInt(q, def) == IF q < 0 THEN def ELSE q

\* Mutant of Clamp: limit=0 is accepted.
ClampAbove(q) ==
    LET l == ParsePositiveInt(q, DefaultSize)
    IN  IF l > MaxLimit THEN MaxLimit ELSE l

Clamp(q) ==
    LET l == ParsePositiveInt(q, DefaultSize)
    IN  IF l < 1 THEN DefaultSize ELSE IF l > MaxLimit THEN MaxLimit ELSE l

\* ORDER BY timestamp DESC LIMIT limit OFFSET offset
Newer(ts) == Cardinality({u \in Rows : u > ts})

Select(limit, offset) ==
    {ts \in Rows : offset <= Newer(ts) /\ Newer(ts) < offset + limit}

\* Mutant of NextOffset: one too far.
NextOffsetPast == walk.offset + walk.limit + 1

NextOffset == walk.offset + walk.limit

\* Mutant of Pages: a page too many when the last one is full.
PagesAndOne == IF walk.total > 0 THEN walk.total \div walk.limit + 1 ELSE 0

Pages ==
    IF walk.total > 0 THEN (walk.total + walk.limit - 1) \div walk.limit ELSE 0

PageNumber == (walk.offset \div walk.limit) + 1
HasPrev == walk.offset > 0
HasNext == walk.offset + walk.limit < walk.total
PrevOffset ==
    IF walk.offset > walk.limit THEN walk.offset - walk.limit ELSE 0

----------------------------------------------------------------------------
(* The reader.                                                             *)

\* GET /?limit=q: the count.
Open(q) ==
    /\ Operate
    /\ walk.at = "away" /\ search.at = "away"
    /\ walk' = [NoWalk EXCEPT !.at = "counted", !.limit = Clamp(q), !.turn = 1,
                              !.total = Cardinality(Rows), !.base = Rows]
    /\ UNCHANGED <<table, dir, worker, removing, import, hist, search>>

\* GET /?offset=n: the link of the page does not repeat the limit.
FollowNext ==
    /\ walk.at = "shown" /\ HasNext
    /\ walk' = [walk EXCEPT !.at = "counted", !.limit = DefaultSize,
                            !.offset = NextOffset, !.turn = @ + 1,
                            !.total = Cardinality(Rows), !.raced = FALSE]
    /\ UNCHANGED <<ivars, search>>

\* The SELECT of the page.
Show ==
    LET page == Select(walk.limit, walk.offset)
    IN  /\ walk.at = "counted"
        /\ walk' = [walk EXCEPT !.at = "shown", !.seen = @ \cup page,
                                !.again = @ \cup (page \cap walk.seen)]
        /\ UNCHANGED <<ivars, search>>

Leave ==
    /\ walk.at = "shown"
    /\ walk' = NoWalk
    /\ UNCHANGED <<ivars, search>>

----------------------------------------------------------------------------
(* searchSnapshots and GetSnapshotsByTimestamps.                           *)

\* Of the text of a file, its title is modelled.
Matches(n, text) ==
    /\ n \in DOMAIN dir
    /\ dir[n].best = text \/ dir[n].index = Index(text)

\* GET /?q=text: ripgrep lists the archive.
StartSearch(text) ==
    /\ Operate
    /\ walk.at = "away" /\ search.at = "away"
    /\ search' = [NoSearch EXCEPT !.at = "grep", !.query = text,
                                  !.left = DOMAIN dir]
    /\ UNCHANGED <<table, dir, worker, removing, import, hist, walk>>

\* ripgrep reads the files of a directory; one that is gone is an error.
Grep(n) ==
    /\ n \in search.left
    /\ search' = [search EXCEPT
         !.left = @ \ {n},
         !.found = @ \cup (IF Matches(n, search.query) THEN {Parse(n)} ELSE {}),
         !.broken = @ \/ n \notin DOMAIN dir]
    /\ UNCHANGED <<ivars, walk>>

\* Mutant of RowsOf: the matches are not looked up.
MatchesOnly(found) == found

\* WHERE timestamp IN (...)
RowsOf(found) == found \cap Rows

\* With errors, ripgrep exits with 2 even if it has matches.
Answer ==
    /\ search.at = "grep" /\ search.left = {}
    /\ search' = IF search.broken THEN NoSearch
                 ELSE [search EXCEPT !.at = "shown", !.page = RowsOf(search.found)]
    /\ UNCHANGED <<ivars, walk>>

LeaveSearch ==
    /\ search.at = "shown"
    /\ search' = NoSearch
    /\ UNCHANGED <<ivars, walk>>

----------------------------------------------------------------------------
\* A step of the others, and what it does to the reader.  A row is shifted
\* past the reader when one is deleted that comes before the next page.
Passed == IF walk.at = "shown" THEN NextOffset ELSE walk.offset

Changed ==
    LET names == DOMAIN dir \cup DOMAIN dir'
        same(n) == n \in DOMAIN dir /\ n \in DOMAIN dir' /\ dir[n] = dir'[n]
    IN  {Parse(n) : n \in {m \in names : ~same(m)}}
        \cup (Rows \ DOMAIN snapshots') \cup (DOMAIN snapshots' \ Rows)

TableStep ==
    /\ Next
    /\ search' = IF search.at = "away" THEN search
                 ELSE [search EXCEPT !.touched = @ \cup Changed]
    /\ walk' = IF walk.at = "away" THEN walk ELSE
         LET deleted == Rows \ DOMAIN snapshots'
             added   == DOMAIN snapshots' \ Rows
         IN  [walk EXCEPT
                !.base    = @ \ deleted,
                !.changed = @ \/ (deleted \cup added # {}),
                !.raced   = @ \/ (walk.at = "counted" /\ added # {}),
                !.shifted = @ \/ (\E ts \in deleted : Newer(ts) < Passed)]

ListNext ==
    \/ \E q \in Asked : Open(q)
    \/ FollowNext \/ Show \/ Leave
    \/ \E text \in Queries : StartSearch(text)
    \/ \E n \in search.left : Grep(n)
    \/ Answer \/ LeaveSearch
    \/ TableStep

ListSpec == ListInit /\ [][ListNext]_lvars

----------------------------------------------------------------------------
(* Properties.                                                             *)

Ended == walk.at = "shown" /\ ~HasNext

\* A reader who follows Next to the end has seen every snapshot that was in
\* the table all the time, also when others are added meanwhile.  There are
\* two exceptions: a deleted row moves a row of the next page to one already
\* passed, and a row that is added between the count and the SELECT of a page
\* makes that page the last too early.
NothingSkipped ==
    Ended /\ ~walk.shifted /\ ~walk.raced => walk.base \subseteq walk.seen

\* While the table does not change, each page shows the rows that follow those
\* of the pages before, none is shown twice, the last page is the one without
\* Next, and the numbers of the pages are right unless the first one was asked
\* for with another limit than the links ask for.
EachOnce ==
    walk.at = "shown" /\ ~walk.changed =>
      /\ walk.again = {}
      /\ walk.seen = {ts \in Rows : Newer(ts) < NextOffset}
      /\ HasNext <=> walk.seen # Rows
      /\ HasPrev <=> walk.turn > 1
      /\ walk.limit * walk.turn = NextOffset =>
           /\ PageNumber = walk.turn
           /\ HasPrev => PrevOffset = (walk.turn - 2) * walk.limit
           /\ Rows # {} => (HasNext <=> PageNumber < Pages)
           /\ PageNumber > Pages => Rows = {}

\* A search that is answered shows each snapshot that has a row and a match
\* in a directory of its timestamp, however the directory writes it, and no
\* other; only for those that changed since it began nothing is said.
SearchFinds ==
    search.at = "shown" =>
      search.page \ search.touched =
        {ts \in Rows \ search.touched :
           \E n \in Homes(ts) : Matches(n, search.query)}

ListTypeOK ==
    /\ TypeOK
    /\ walk.at \in {"away", "counted", "shown"}
    /\ walk.at # "away" => walk.limit \in 1..MaxLimit
    /\ walk.again \subseteq walk.seen
    /\ walk.seen \cup walk.base \subseteq Int64
    /\ search.at \in {"away", "grep", "shown"}
    /\ search.left \subseteq Name /\ search.page \subseteq search.found
    /\ search.found \cup search.touched \subseteq Int64
=============================================================================
