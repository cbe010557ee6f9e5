-------------------------------- MODULE Detail --------------------------------
(***************************************************************************)
(* The page of one snapshot, while the worker, delete-file requests and    *)
(* deletions change what it shows.                                         *)
(*                                                                         *)
(* handleDetail reads four times: the snapshot's row, its runs, their      *)
(* outputs, and the directory.  A page with a run that is not done carries *)
(* a Refresh header, with which the browser asks for it again; one without *)
(* stays as it is.  The module adds one browser to ArchiveDir, whose steps *)
(* come in between.                                                        *)
(***************************************************************************)
EXTENDS ArchiveDir

\* The page being loaded or shown: its snapshot, the title, the runs' rows and
\* outputs, and the names of the files.  As history: the runs that were done
\* when the title was read, and whether a delete-file request has been past
\* its guard since.
VARIABLE page

NoPage == [at |-> "away", snapshot |-> None, title |-> NoTitle, runs |-> Nothing,
           steps |-> Nothing, files |-> {}, ended |-> {}, touched |-> FALSE]

pvars == <<dvars, page>>

PInit == DInit /\ page = NoPage

\* Mutant of isAnyRunNonTerminal: only running runs count.
IsAnyRunRunning == \E r \in DOMAIN page.runs : page.runs[r].status = "running"

isAnyRunNonTerminal ==
    \E r \in DOMAIN page.runs : page.runs[r].status \in {"pending", "running"}

Shown     == page.at = "shown"
NoRefresh == Shown /\ ~isAnyRunNonTerminal

\* Snapshots at which a delete-file request is past its guard.
Touched == {s \in SnapshotIds : Deleting(s) # {}}

----------------------------------------------------------------------------
(* handleDetail.                                                           *)

\* GetSnapshot.  The browser comes from a link, or again after a Refresh; the
\* error page of a snapshot or a process that is gone has no Refresh.
GetPage(s) ==
    /\ \/ page.at = "away" /\ Up /\ s \in snapshots
       \/ Shown /\ isAnyRunNonTerminal /\ s = page.snapshot
    /\ page' = IF Up /\ s \in snapshots
               THEN [NoPage EXCEPT !.at = "runs", !.snapshot = s, !.title = title[s],
                                   !.ended = {r \in RunsOf(s) : ~NonTerminal(r)},
                                   !.touched = s \in Touched]
               ELSE NoPage
    /\ UNCHANGED dvars

\* The first SELECT of ListRunsBySnapshot; without runs there is no second.
PageRuns ==
    LET found == RunsOf(page.snapshot)
    IN  /\ page.at = "runs"
        /\ page' = [page EXCEPT !.runs = [r \in found |-> runs[r]],
                                !.at = IF found = {} THEN "files" ELSE "steps"]
        /\ UNCHANGED dvars

\* The second: queryStepOutputs.
PageSteps ==
    /\ page.at = "steps"
    /\ page' = [page EXCEPT !.at = "files",
                  !.steps = [r \in DOMAIN page.runs \cap DOMAIN outputs |-> outputs[r]]]
    /\ UNCHANGED dvars

\* Either fails: the page is shown without runs, and without a Refresh.
PageRunsFail ==
    /\ page.at \in {"runs", "steps"}
    /\ page' = [page EXCEPT !.at = "files", !.runs = Nothing]
    /\ UNCHANGED dvars

\* snapshotFiles walks the directory; one that is gone has no files.  Of a page
\* that will be replaced only the runs are kept, which say so.
PageFiles ==
    /\ page.at = "files"
    /\ page' = IF isAnyRunNonTerminal
               THEN [NoPage EXCEPT !.at = "shown", !.snapshot = page.snapshot,
                                   !.runs = page.runs]
               ELSE [page EXCEPT !.at = "shown", !.files = DOMAIN files[page.snapshot]]
    /\ UNCHANGED dvars

ClosePage ==
    /\ Shown
    /\ page' = NoPage
    /\ UNCHANGED dvars

Browse ==
    \/ \E s \in SnapshotIds : GetPage(s)
    \/ PageRuns \/ PageSteps \/ PageRunsFail \/ PageFiles
    \/ ClosePage

----------------------------------------------------------------------------
\* A step of the others.  A process that stops drops the request it is
\* answering, and a page that shows a deleted snapshot is forgotten.
Dropped == IF Shown THEN page.snapshot \notin snapshots ELSE ~Up'

OtherStep ==
    /\ DNext
    /\ page' = IF page.at = "away" \/ Dropped THEN NoPage
               ELSE [page EXCEPT !.touched = @ \/ page.snapshot \in Touched']

PNext == Browse \/ OtherStep

PSpec == PInit /\ [][PNext]_pvars

----------------------------------------------------------------------------
(* Properties.                                                             *)

\* A page that does not refresh itself shows of each of its runs what the
\* tables hold, and goes on holding it: a run is read as done only after its
\* outputs are recorded, and they are read after the run (ingest.go:182,
\* extractor_runs.go:111).  Only delete-file takes outputs away.
SettledPageIsFinal ==
    NoRefresh /\ page.snapshot \in snapshots =>
      /\ \A r \in DOMAIN page.runs : page.runs[r] = runs[r]
      /\ ~page.touched =>
           page.steps = [r \in DOMAIN page.runs \cap DOMAIN outputs |-> outputs[r]]

\* The row is read before the runs, so that the run which ends in between may
\* have changed the title that such a page shows.  If all of its runs had
\* ended before, the title is the latest until a run is added.
SettledTitleIsCurrent ==
    NoRefresh /\ page.snapshot \in snapshots /\ page.ended = RunsOf(page.snapshot) =>
        page.title = title[page.snapshot]

\* The directory is walked last: such a page has a link for each output it
\* names that succeeded, unless a delete-file request came in between or left
\* its work half done.
SettledPageLinks ==
    NoRefresh /\ page.snapshot \in snapshots \ disturbed /\ ~page.touched =>
        \A r \in DOMAIN page.steps :
            page.steps[r] = "succeeded" => page.runs[r].extractor \in page.files
=============================================================================
