# TLA+ specifications of simplearchive

simplearchive is a self-hosted web archiver: a URL submitted through the web
UI becomes a row in SQLite (`meta.db`), a worker goroutine runs a pipeline of
extractors (curl, wget, yt-dlp, headless Chromium, ...) on it, and the results
are kept in `archive/<timestamp>/` with an ArchiveBox-compatible `index.json`.
This directory holds TLA+ modules of that program, TLC configurations that
check them on small instances, and proofs checked by TLAPS.

File and line references are to `src/internal/` unless they start with
`README.md`, the repository's own.

## The system

| component | state | operations | talks to |
|---|---|---|---|
| run queue (`meta/jobs.go`, `ingest`) | tables `snapshots`, `extractor_runs` | Enqueue, rerun, delete; claim, start, finish | handlers and worker, through one database connection |
| archive directory (`archive`, `ingest.RebuildIndex`) | `archive/<ts>/`: extractor files, `index.json`; table `step_outputs`; column `title` | mkdir, extractors' writes, record outputs, save title, rebuild index; delete-file; remove | worker and handlers, through the file system and the database |
| server (`server.Run`, `runWorker`) | HTTP server, worker goroutine, contexts | start, loop, shutdown | everything |
| read-only handlers (`server/handlers.go`, `archive_files.go`) | none | list, search, detail, file | tables, files, `rg` |
| import (`cli/import.go`, `archive.Scan`) | none | scan `index.json` files, upsert in one transaction | `snapshots`, files; may run beside `serve` |
| migrations (`meta/meta.go`, `schema_v*.sql`) | `user_version`, schema | apply pending versions on Open | the database, before anything else |
| extractors (`extractors/*`, `proxyutil`, `subproc`) | files of one snapshot | fetch directly, then through a proxy; report steps | subprocesses, HTTP, Chromium |
| timestamps (`snapshot/snapshot.go`) | none | Format, Parse | routes, directory names, import |
| templates, assets, middleware, logging | none | render, log | - |

What makes it hard:

* **Interleaving.** Handlers and the worker run concurrently. The database has
  one connection (`maxOpenConns = 1`), so single statements and transactions
  are atomic, but almost every operation is several of them with file
  operations in between. The worker walks a list of runs it loaded once.
* **The lock is a status.** A snapshot is locked by having a run with status
  `running` (jobs.go:39). Nobody owns the lock: whoever flips the row has it,
  and only `FinishRun` of that row, or its deletion, releases it.
* **Crashes and errors.** Shutdown does not wait for the worker, errors after
  a claim return, errors of single statements are logged and skipped. Nothing
  is repaired at start-up.
* **Two processes.** `import` may run beside `serve`, and nothing stops a
  second `serve` on the same database.
* **Files outside transactions.** `index.json` is truncated and then written;
  `delete-file` and `delete` touch the directory without the lock.

What makes each component correct:

* queue: at most one running run per snapshot; a worker that writes holds that
  lock; runs start in the order they were submitted, are executed at most once
  and never rewritten when terminal; ids are never reused; a pending run is
  eventually executed, and never starves behind another snapshot;
* archive: a snapshot at rest has an `index.json` that is the projection of the
  tables; a finished run is in it; it is not left half written; it names no
  file that is missing; a deleted snapshot leaves nothing behind;
* server: shutdown loses no acknowledged work;
* read handlers: every snapshot is on exactly one page, and a search finds it;
  a page that does not refresh itself shows what is there;
* import: what it commits is what is on disk; a deleted snapshot stays deleted;
* migrations: every version applied once, in order, whatever crashes;
* extractors: reported status agrees with the file left behind;
* timestamps: Parse(Format(t)) = t, and the directory found is the one named.

## Modules

| module | kind | models |
|---|---|---|
| `RunQueue` | core | the queue: one action per statement or transaction |
| `QueueContract` | abstract | what the queue promises, seen from the table |
| `SnapshotTable` | abstract | what the table of snapshots promises to whoever keeps an id |
| `ArchiveDir` | composition | RunQueue with the data: files, outputs, title, index.json, delete-file, delete |
| `Detail` | composition | a browser on the page of one snapshot; EXTENDS `ArchiveDir` |
| `Migrate` | component | meta.Open and the schema migrations, several processes |
| `Extraction` | component | an extractor's steps and files, over several runs of one snapshot |
| `Timestamps` | pure | Format and Parse with the arithmetic of int64 |
| `Import` | composition | import beside one worker, deletions, new snapshots and copied data; EXTENDS `Timestamps` |
| `Listing` | composition | a reader who pages through the list or searches; EXTENDS `Import` |
| `RunQueueProofs`, `ArchiveDirProofs`, `DetailProofs`, `MigrateProofs`, `ExtractionProofs`, `TimestampsProofs`, `ImportProofs`, `ListingProofs` | proofs | theorems for all constants |
| `MCRunQueue`, `MCArchiveDir`, `MCDetail`, `MCMigrate`, `MCListing` | instances | pipelines, title order, directories and symmetry for TLC |

### RunQueue

`snapshots`, `lastSnapshot`, `runs`, `lastRun` are the two tables and their
AUTOINCREMENT counters (schema v3 and v6); a run row keeps its snapshot, extractor and
status. `wsnap`, `todo`, `held`, `cur` are what `runClaimedSnapshot` holds in
its local variables: the claimed snapshot, the loaded non-terminal runs not yet
looked at, those of them loaded as `running`, and the run being executed; `pc`
says between which statements a worker is. `pipeline` is `defaultPipeline()`
under the environment of the current process; `adding` holds the `Enqueue`
calls between their two statements.

| action | code |
|---|---|
| `CreateSnapshot`, `InsertPendingRuns`, `EnqueueFails` | `Enqueue` (ingest.go:109), two transactions and its failure in between |
| `Rerun`, `DeleteSnapshot` | `handleRerun`, database half of `handleDelete` |
| `ClaimNextSnapshot` | the claim transaction (jobs.go:53) |
| `LoadSnapshot`, `SnapshotGone`, `LoadFails`, `ListRuns` | the head of `runClaimedSnapshot` and its error returns |
| `RunHeld`, `StartRun`, `SkipRun`, `StartFails` | one iteration of its loop up to the extractor |
| `Extract`, `ExtractorHangs` | `runOne` returns, or never does |
| `FinishRun`, `FinishFails`, `LoopDone` | the end of the iteration and of the loop |
| `Crash`, `Restart` | shutdown or crash; the next `serve` |

Faults are chosen by the constant `Faults` and counted up to `MaxFaults`, so
that a run says which of them it allows. A graceful shutdown is `Crash`: `Run`
cancels the worker's context, the worker's next statements fail, and the
process ends without waiting for it.

### QueueContract

Rows are submitted, started, finished and withdrawn with their snapshot; a row
starts only when every older row of its snapshot is terminal and none of it
runs. There are no workers, claims or faults. `RunQueue!Contract` instantiates
it with `rows <- Rows`, `last <- lastRun`; every other step of the queue
(loading, skipping, crashing, ...) is a stuttering step.

### SnapshotTable

Rows of `extractor_runs`, an `Enqueue` between its two statements (ingest.go:113)
and a worker in the middle of a pass refer to a snapshot by its id, while import
upserts by timestamp and users delete. The contract is that an id stands for one
snapshot for ever: rows are inserted with ids that were never used, deleted, and
otherwise keep the id they have. It does not say how many rows come at a time,
since an import commits many. `Import!Table` instantiates it with the id of each
timestamp's row; everything else, the title that an upsert overwrites included, is
a stuttering step. `RunQueue` identifies a snapshot with its id to begin with, and
only counts the ids up.

### ArchiveDir

EXTENDS `RunQueue` and adds `title`, `outputs`, `dirs`, `files`, `index`, the
worker's extra local state `job`, the `req`uests of delete-file and the
directories still to be `removing`. Each action is one of RunQueue's with its
effect on the data, or a step within what RunQueue calls "listing" (Mkdir) and
"indexing": `Record`, `FindTitle`, `SaveTitle`, `ReadOutputs`, `Truncate`,
`Fill`. `index.json` is written in two steps, because os.WriteFile truncates
first. delete-file is one action per statement or file operation, from
`OpenRequest` (GetSnapshot, which also reads the title that will be written) to
`RequestFills`. Faults of these steps have a budget of their own
(`DataFaults`, `MaxDataFaults`): a statement that records an output or saves a
title fails, or index.json cannot be written, or the directory not removed; a
request may be cut short at each of its steps, the last write of `index.json`
included. `RemoveEntry` is os.RemoveAll on its way: it may fail, and the process may
stop, with any part of the directory gone.

Abstracted: an extractor writes one file and one step output, both named after
it; of a file's content only the title in it is kept; of `index.json` the title
and the latest step of each extractor (its status). The two statements that
replace a run's outputs, and the two SELECTs of ListRunsBySnapshot, are one
step each, in which either statement of the first pair may fail: between them nothing that the properties tell apart can happen,
except to a snapshot that is deleted or already disturbed.

`disturbed` is a history variable: snapshots where a delete-file request
overlapped with newly queued runs or another request, wrote a title that was
stale when its guard passed, was cut short, or was in flight at a crash, and
those where saving the title or writing `index.json` failed. The properties hold
outside of it; the `violation` runs show what happens inside.

### Detail

`page` is what `handleDetail` has read so far, or what the browser shows: the
title of the row, the rows of the runs, their outputs, and the names of the
files. As history it keeps the runs that were done when the title was read
(`ended`), and whether a delete-file request was at work at the snapshot since
(`touched`).

| action | code |
|---|---|
| `GetPage` | `GetSnapshot` (handlers.go:226), from a link, or again after a Refresh |
| `PageRuns`, `PageSteps`, `PageRunsFail` | the two SELECTs of `ListRunsBySnapshot`, and its error, which the handler only logs |
| `PageFiles` | `snapshotFiles`, and the Refresh header of a page with a run that is not done (handlers.go:239) |
| `ClosePage` | the reader leaves; external |
| `OtherStep` | a step of `ArchiveDir`, and what it does to the reader |

Of a page that will be replaced only the runs are kept. Files are matched to
outputs by base name in the code; with one file to an extractor that is
equality, and the class that a path's directory gives it is left out.

### Migrate

`version` is `PRAGMA user_version`; `snapshotsTable` and `runsTable` are the
forms the two tables take from one version to the next, of which only what a
script needs is kept: whether a table is there, how it is keyed, and whether
the columns it names still exist. `pc`, `todo` and `foreignKeys` are each
process's place in `migrate`, its list of pending versions and the setting of
its connection.

| action | code |
|---|---|
| `Open` | `Open`, `userVersion`, `pendingMigrations` (meta.go:71, 196, 102) |
| `DisableForeignKeys` | `PRAGMA foreign_keys=off` (meta.go:175) |
| `ApplyMigration` | `applyMigration` (meta.go:118): the script, `Script(v)`, and user_version in one transaction |
| `Verify` | `verifyForeignKeys` (meta.go:140) and the deferred `foreign_keys=on` |
| `Stop` | any error return, which ends the process, or its being killed |

Nothing in `migrate` compares user_version a second time. Two processes that
opened the same old database are kept apart only because a script fails on a
schema that it does not fit; v3 and v6 also run on their own result. The rows
that the scripts copy are not modelled, and so `foreign_key_check` passes.

### Extraction

`files` says of each output file which run wrote it and whether wholly;
`outputs` is `step_outputs`; `ext`, `at`, `via`, `steps` and `err` are the
extractor that runs, where it is, which attempt it makes and what it returns;
`status` is what `runOne` made of the last run. `proxy` is `SOCKS5_PROXY`;
`before` is a history variable, the files as the run found them.

| action | code |
|---|---|
| `Begin`, `Report` | `runOne` before and after `extractor.Run` (ingest.go:206), with `aggregateRunStatus` |
| `ProgramSucceeds`, `ProgramFails` | curl and wget; the latter also fetches favicons |
| `ResponseArrives`, `RequestFails`, `NoTransport`, `WriteResponse` | headers, obelisk, obelisk_proxy |
| `NoBrowser`, `CaptureFails`, `Capture`, `WriteCapture` | chromedp, chromedp_proxy, and the stub without the build tag |
| `YtDlpReturns`, `LookForFiles` | yt-dlp |
| `Fail` (in several of these) | `TryDirectThenProxy` (proxyutil.go:66): curl and headers try again through the proxy |
| `DeleteFile` | `handleDeleteFile`, when nothing runs |

An extractor's steps interleave with nothing, since the runs of a snapshot are
sequential (`RunQueue`'s lock) and delete-file refuses while one is not
terminal; what the module explores is failure at each step, and what a run
finds of the runs before it. `ArchiveDir` takes the result as `FilesAfter`: a
failed run leaves what was there or a part of a new file, as `FailedLeavesOld`
states.

### Timestamps

A timestamp is an int64 of microseconds. A name is a record of its seconds, the
number of its fractional digits and the number they form, because that is all
`Parse` (snapshot.go:41) makes of the string: it pads the fraction to six
digits, so that `1.5` and `1.500000` are one timestamp, and `Format` (:27)
names only the second. Go's division truncates (`Quo`, `Rem`) and its products
and sums wrap around (`Wrap`); the width is the constant `Half`, 2^63 in the
program. Signs in the fraction and leading zeros of the seconds are left out.

### Import

`snapshots`, `lastId` and `clock` are the table, its counter and the last
timestamp that was given; `dir` is `archive/`, by the names of its directories,
each with its `index.json` (none, torn, or a title) and the title that
`BestTitle` finds in its other files. `worker` is where `runClaimedSnapshot` is
and the row it loaded; `removing` are deletions between row and directory;
`import` is what `Scan` has still to read and has read.

| action | code |
|---|---|
| `Add` | `CreateSnapshot` (snapshots.go:17) |
| `Copy` | rsync of ArchiveBox data into `archive/` (README.md:91), external |
| `DeleteRow`, `RemoveEntry`, `RemoveDir`, `RemoveFails` | `handleDelete` (handlers.go:350), with os.RemoveAll in any number of steps |
| `Load`, `Mkdir`, `StartRun`, `RunGone` | the head of `runClaimedSnapshot` (ingest.go:156) and the start of its first run |
| `Extract`, `SaveTitle`, `Truncate`, `Fill` | one iteration of its loop (ingest.go:184) |
| `NextRun`, `PassDone` | the next pending run of the list (ingest.go:171), or its end |
| `Crash` | `serve` ends and is started again |
| `StartImport`, `ReadEntry` | `Scan`: the glob, then one directory at a time (index.go:258) |
| `Commit`, `ImportFails` | the transaction of upserts (import.go:31), or any error before its end |

The worker is that of `RunQueue` and `ArchiveDir` in fewer steps: import
interacts with it only through the title of the row and the files, so the queue is
not there, and single statements do not fail. A pass is what `runClaimedSnapshot`
does with one claim: any number of runs, as far as `MaxOps` goes, with the title
that was read before the first of them. An import that commits during one run has
therefore overwritten a title which the next run takes for saved
(ingest.go:172, 185). Delete-file
is left out: it writes the index with the title of the row. What is
said of the title goes for the url, which import treats alike. The timestamp in
an `index.json` is the name of its directory, as both programs write it.
`ReadEntry` reads the index and, for want of a title, the other files of one
directory in a step. `sort.Slice` is not stable, so that of two directories of
one timestamp either may be upserted last. `Add` assumes a clock that is not
set back and data that is older than it.

`unsettled` and `gone` are history: timestamps whose row and index need not
agree yet, and deleted snapshots that nothing should bring back.

### Listing

`walk` is a reader of the list: the page being counted or shown and, as
history, what was shown before and what changed meanwhile. `search` is a
search: the directories ripgrep has still to read, its matches and the answer.

| action | code |
|---|---|
| `Open`, `FollowNext` | `GET /?limit=`, and the link of a page, which has only the offset (list.html:71); then the count (queries.go:61) |
| `Show` | the SELECT of the page (queries.go:65) |
| `StartSearch`, `Grep` | `rg -l` over the archive (handlers.go:548) and the timestamps of its output; external but for the latter |
| `Answer` | `GetSnapshotsByTimestamps`, or the error of ripgrep (handlers.go:128) |
| `TableStep` | a step of `Import`, and what it does to the reader |

Prev is checked as a link (`PrevOffset`) and not followed. A text matches a
directory if it is the title in one of its files.

## Runs

| run | instance | shows |
|---|---|---|
| `RunQueue_safety` | 1 worker, 2 snapshots, 4 runs; crash, load, hang, add; 1 fault | `TypeOK`, `SingleRunning`, `LockHeldWhileIndexing`, `StartsInOrder`, `ExecutedOnce`, `ImplementsContract` |
| `RunQueue_progress` | fair, 1 worker, 2 snapshots, 3 runs; every fault but hang; 2 faults | `PendingProgress` |
| `RunQueue_workers` | fair, 2 workers, 2 snapshots, 3 runs, no fault | `RunningMeansExecuting`, `ClaimsAlone`, `EveryRunFinishes` |
| `ArchiveDir_sync` | 1 worker, 1 snapshot, 3 runs, 2 delete-file requests; every fault but hang, of the queue, the requests, step outputs, titles and files; 1 of each sort | `DataOK`, `IndexInSync`, `FinishedIsIndexed`, `TornOnlyWhileLocked`, `NoDanglingFile` |
| `Detail_page` | 1 browser, 1 worker, 1 snapshot, 2 runs, the extractor changed by a restart, no delete-file request; every fault of the queue, and of step outputs, titles and index.json; 1 of each sort | `WorkerHoldsLock`, `SettledPageIsFinal`, `SettledTitleIsCurrent`, `SettledPageLinks` |
| `Migrate_open` | 3 processes, a database of any version, stops at any point | `TypeOK`, `ServingLatest`, `SchemaInOrder` |
| `Extraction_steps` | 3 runs, every kind of extractor, with and without a proxy, deletions between runs | `TypeOK`, `SucceededMeansSaved`, `FailedLeavesOld`, `StatusFromSteps` |
| `Listing_import` | 3 snapshots in up to 4 directories, two of one timestamp, either of which is copied in; 3 operations; pages of 1 or 2 | `ListTypeOK`, `RowMatchesIndex`, `DeletedIsFinal`, `ImportReflectsDisk`, `ImplementsTable`, `NothingSkipped`, `EachOnce`, `SearchFinds` |

Runs that TLC must find violated, because the code does not do what a comment
or the README says; `PROJECT.json` quotes each line:

| run | property | what happens |
|---|---|---|
| `RunQueue_two_processes` | `NoIndexInterleaving` | two serve processes archive one snapshot at once, through the gap between FinishRun and StartRun |
| `RunQueue_crash` | `EveryRunFinishes` | a crash leaves a running row, and the snapshot locked, for ever |
| `ArchiveDir_delete_file` | `DeleteFileKeepsSync` | delete-file's stale index.json is written last |
| `ArchiveDir_delete` | `DeletedLeavesNothing` | the worker re-creates a deleted directory |

The properties that pass are the ones that hold beside the following, which the
modules contain as faults or steps and which limit where a property is
checked:

* two serve processes on one database execute a run twice: what one of them starts
  in that gap, the other, which has claimed the snapshot and not loaded its runs
  yet, finds `running` and takes for its own (ingest.go:173). `ExecutedOnce`,
  `SingleRunning` and `StartsInOrder` are therefore about one worker; what is
  left with several is that no two load one snapshot at once (`ClaimsAlone`);
* an extractor that hangs stalls the worker, and with it every snapshot
  (server.go:159; curl, wget and yt-dlp have no timeout), so `PendingProgress`
  is checked without `hang`;
* `Enqueue` is two transactions (ingest.go:109), so a snapshot can be left
  without runs; `Quiet`, and so `IndexInSync`, speaks of snapshots with runs;
* an error after the claim leaves a run `running` that nobody executes
  (ingest.go:156), which `PendingProgress` calls `Abandoned`;
* delete-file rebuilds `index.json` without the lock that `RebuildIndex` asks
  its caller to hold (ingest.go:277, handlers.go:461), so `WorkerHoldsLock`
  speaks of the worker only and the properties of the index have `disturbed`;
* a title that `UpdateSnapshot` fails to save is written into `index.json` all
  the same (ingest.go:187), and a failed write of `index.json` leaves it torn
  (index.go:171), or as it was. The snapshot is then `disturbed` as well;
* a process that read user_version before another one migrated can apply v3
  once more over v4 (meta.go:160) and so set user_version back to 3; if the
  other process stops there, no later Open gets past v4. `SchemaInOrder` names
  that case, and `VersionIsSchema`, without it, is proved of one process;
* yt-dlp takes any `*.info.json` and `*.vtt` in the directory for its output
  (ytdlp/extractor.go:47) and does not look at the program's exit code (:44): a
  rerun that fails is recorded as succeeded with the files of an earlier run, and
  a yt-dlp that is killed while it writes with part of a file. Of its files
  `SucceededMeansSaved` says only that they are there;
* a failed rerun may leave part of a new file in the place of a whole one
  (wget truncates it first). Its step is then failed, which is all that
  `SucceededMeansSaved` can promise;
* an import that overlaps the worker commits what it read before: the row keeps
  an older title than `index.json` until the next pass or import
  (import.go:24). The later runs of the same pass do not mend it, since the title
  they compare with is the one in the worker's memory (ingest.go:157).
  `ImportReflectsDisk` leaves out snapshots that something else touched meanwhile,
  and `RowMatchesIndex` those in `unsettled`: in particular every snapshot whose
  index.json was last written in a pass that an import overlapped, from the start
  of the pass to its end;
* import overwrites the title by NULL if no file has one (snapshots.go:72), so
  that a row may lose the title that an earlier pass had found;
* a directory named with fewer than six fractional digits is imported and never
  found again: its snapshot shows no files, its deletion leaves the directory,
  and the next import brings it back (archive.go:15). The same happens when
  RemoveAll fails or `serve` is stopped before it (handlers.go:368), or when an
  import has already read the index. `DeletedIsFinal` starts from a deletion
  that removed the only directory with nobody at it;
* a row added between a page's count and its SELECT can take away the link to
  the next page (`raced`), and a row deleted from the pages already seen moves
  another one out of sight (`shifted`): queries.go:61, handlers.go:122;
* the error page of a run list that fails has no Refresh (handlers.go:232), so
  that it stays as it is while the worker goes on;
* the detail page reads the row before the runs (handlers.go:226): if the last
  run ends in between, the page shows the title from before it and does not
  refresh. `SettledTitleIsCurrent` speaks of pages whose runs had all ended
  when the title was read;
* the links between pages drop the limit (list.html:71). Rows are still shown
  once each, but numbers and Prev are right only for the default limit or one
  page of another;
* a directory that is removed while ripgrep walks fails the search
  (handlers.go:552), which then shows nothing.

### Bounds

`MaxSnapshots`, `MaxRuns`: snapshots and runs ever created, deleted ones
included. Two snapshots are needed for one to starve or lose its lock to
another; one snapshot's runs interact only with each other and with the handlers, so
that one is enough for the directory. Three runs of a snapshot give a finished,
a running and a pending one at the same time; the fourth is a rerun that
arrives meanwhile. `ArchiveDir_sync` has three as well, two that have left an
index and one that overtakes a request. Its CONSTRAINT leaves out what
follows once its snapshot is `disturbed`: nothing takes a snapshot out of that set,
and four of the properties are then silent about it; the fifth, `DataOK`, is
proved (`DataCorrect`). Its two requests are symmetric. The pipelines have one or two extractors: two are needed for
an order and for one that is not registered after a restart. `Detail_page` has
one browser, since browsers share nothing; its two runs are one that is read as
done and one that goes on or is added meanwhile. Its CONSTRAINT ends
it when its only snapshot is deleted, of whose page and runs the properties say
nothing. It has no delete-file request,
so that `touched` stays FALSE there and nothing is exempted by it; the proofs
have the requests. `MaxFaults`, `MaxDataFaults`: one
fault shows every single-fault behaviour; `RunQueue_progress` combines two. One
title besides the empty one tells a stale title from a fresh one. Three processes
in `Migrate_open` let one replay a version while a second goes on and a third
serves. Three runs in `Extraction_steps` are one that succeeds, one that fails
over it and one more after a deletion; of extractors that behave alike one is
enabled (headers for obelisk, chromedp for chromedp_proxy). `MaxOps`: a run, an
import, a deletion, a copy, a walk or a search counts as one; three let a run overlap
an import and a deletion follow, an import repeat what another did, or a reader walk
through what an import brought and a deletion takes away; the pages of a walk and
new snapshots are free. Three rows and pages of one make a walk of
three pages; the third arrives by the clock, at any time. Each run of a pass after the first counts as an
operation too, so that a pass of two runs with an import beside it, or of three
runs, is in the bounds. `Half` is 10^9, since TLC's
integers have 32 bits. The theorems
below have no bounds, which covers what the runs check of the migrations and most
of what they check of the queue.

`Migrate_open` and `Extraction_steps` check for deadlock. The others do not,
since the system may stop there. With all ids or operations used up and
nothing pending every actor waits, and a process that is down need not be
restarted.

### Fairness

`FairSpec` assumes weak fairness of each worker's `Work(w)` (`runWorker` loops
until its context is cancelled, and sleeps at most a second), of
`InsertPendingRuns` (the handler of an add in progress goes on) and of
`Restart` (an operator restarts a process that is down; without it nothing can
progress). Users owe nothing: no fairness of new adds, reruns or deletes, and
faults are never forced. Weak fairness suffices because a step of a worker that
is enabled stays enabled until the worker takes a step, or stops.

## Proofs

`RunQueueProofs` (for every value of the constants):

* `TypeCorrect`: `Spec => []TypeOK`, any number of workers, every fault.
* `LockHeld`: with one worker and every fault, `[]LockHeldWhileIndexing`.
* `SnapshotLock`: with one worker and no failing FinishRun, `[]SingleRunning`.
* `Once`: with one worker and every fault, `ExecutedOnce`.
* `InOrder`, `ContractKept`: with one worker and neither StartRun nor FinishRun
  failing, `StartsInOrder` and the refinement of `QueueContract`.
* `OnlyForward`: any number of workers, every fault: a row goes from pending to
  running to a terminal status and never back. It is what several workers leave
  of `ExecutedOnce`, which says in addition that a result is not overwritten.
* `ClaimExclusive`: any number of workers, every fault, `[]ClaimsAlone`. Its
  invariant, `ClaimInv`, says why nobody ends the row that a worker has just
  claimed: it is in no worker's `held` or `cur` (`Owned`), because a row there has
  been running since it was put there.
* `ContractLocks`: `QueueContract` by itself implies `[]SingleRunning` and
  `StartsInOrder`, so that `ContractKept` says no less than the two.
* `RunningHasWorker`: with any number of workers, and unless something crashes
  or a load or a FinishRun fails, `[]RunningMeansExecuting`. Its invariant,
  `Remembered`, is what `LoadedOK` and `CurOK` say without the lock.

`OneWorker` is what `server.Run` starts; `RunQueue_two_processes` shows that
the code does not give more. The assumptions on FinishRun and StartRun are
needed as well: when FinishRun's error is skipped, the loop starts the next run
while the last is still `running`; when StartRun's is, an older run stays
pending while a newer one starts.

The argument. None of these is inductive, since what a worker does next depends
on the list it loaded. The strengthening relates the list to the table:

* `HeldInv` = TypeOK, `LoadedOK` (the runs in `todo` belong to the claimed snapshot or are
  gone, and those in `held` still run), `CurOK`, `LockHeldWhileIndexing`;
* `LockInv` adds `SingleRunning`, `ClaimOK` (a worker that has claimed holds the
  lock), `LoopOK` and `ExecOK` (in the loop, the only running run of the snapshot is one
  that is in `held`, or the one in `cur`);
* `OrderInv` adds `NewerLast` (every non-terminal run of the snapshot not in
  `todo` is newer than all that are).

Ids that are never reused are what keeps a list sound after a delete. Each
invariant was checked with TLC before it was proved. `NextTableStep`
describes, given `OrderInv`, what a step may do to the table of runs; the order of
starts and the refinement follow from it. `RowStep` is what is left of it when
only the types are known, and enough for `OnlyForward`: a worker starts only
pending rows and ends only the one in its `cur`. `ExecutedOnce` takes from
`HeldInv` that the latter still runs.

`ArchiveDirProofs`:

* `WritesUnderLock`: with one worker and every fault, whatever a worker records
  or writes after the extractor it does under its own run's lock. It combines
  `LockHeld`, which the lemma `Composition` (`DSpec => Spec`, by the way the actions
  are written) carries over from the queue, and the invariant `JobOK`, which ties
  the steps within "indexing" to RunQueue's `pc`.
* `DataCorrect`: `[]DataOK`, any number of workers and requests, every fault.
* `IndexFollows`, `FinishedIndexed`, `TornIsLocked`, `FilesAreThere`:
  `[]IndexInSync`, `[]FinishedIsIndexed`, `[]TornOnlyWhileLocked`,
  `[]NoDanglingFile`, with one worker. Crashes, reruns, deletions, any number of
  delete-file requests and every fault are included; the properties themselves
  leave out the snapshots that are `disturbed`.

The last four properties speak of a snapshot on which nobody works; the inductive
invariant `Sync` says of every place where somebody may be what still holds
there and what he knows. `WorkerKnows`: the worker's steps are the projection
from the moment it read them, index.json is torn when it is about to be filled,
and right when the run is about to be finished. `RequestKnows` is the same of a
delete-file request. `Exclusive`: such a request, past its guard and
undisturbed, is the only one and no run of the snapshot is unfinished, so that
it excludes the worker (`LockExcludes`) through the lock that the worker holds
(`Locks`, from `HeldInv` and `Holds`). `Loaded`: the worker's copy of the names of
the runs is that of the table, and so is the title unless saving it failed; with
`DirKept` it is all that holds of a disturbed snapshot too. `Settled`, `TornHeld`,
`Indexed` and `Saved` are what remains when nobody is there, and imply the four
properties. A step at one snapshot leaves the others alone (`Elsewhere`).
`DataAssumption` has what the types need: the extractors of `TitleOrder` exist,
and there are no terminal statuses besides the three that `runOne` returns.

`DetailProofs`:

* `PageIsFinal`, `TitleIsCurrent`, `PageHasLinks`: `[]SettledPageIsFinal`,
  `[]SettledTitleIsCurrent`, `[]SettledPageLinks`, with one worker and every fault.

They cover delete-file requests, which `Detail_page` leaves out, and any number of
snapshots. A page that does not refresh has read only runs that were done, so
that it is enough to know what steps of the archive leave alone while a snapshot
stays: a run's row once it is done (`RowsKept`), its outputs unless a delete-file
request is at work (`OutputsKept`), and the title while no run is unfinished,
since a title is saved under the lock (`TitleKept`). `PageInv` says of each thing
that the page has read that it is still true; the links follow, at the moment
when the directory is walked, from `Saved` of `Sync`.

`ExtractionProofs` (for every table of extractors, with and without a proxy, any
number of runs and deletions):

* `ExtractionTypes`, `StatusesAgree`, `SucceededIsSaved`, `OldFilesStay`:
  `[]TypeOK`, `[]StatusFromSteps`, `[]SucceededMeansSaved`, `[]FailedLeavesOld`.

`ExtractionInv` is inductive and has three parts. Of the extractor: where each
kind of it can be (`PlaceOK`), and that its error, its steps and the run's status
agree (`ErrOK`, `StatusFromSteps`). Of the files, `FilesInv`: a run has changed
only files of its own extractor (`OthersKept`), and each recorded step tells the
truth about its file (`StepsSaved`). Of the table, `RowsInv`: the latest rows describe the files
as the present run found them (`RowsSaved`), and are rows of earlier runs
(`RowsOfEarlier`).

`MigrateProofs` (any number of processes, stopped at any point):

* `MigrateTypes`, `Serving`, `InVersionOrder`: `[]TypeOK`, `[]ServingLatest`,
  `[]SchemaInOrder`.
* `AloneExact`: with one process, `[]VersionIsSchema`.

The inductive invariant is `IInv` = these three and `TodoOK`: a process inside
Open has pending an upper part of the versions, which starts no later than
right above the schema's level. `ScriptLevel` is the lemma that matters: a
script that is not ahead of the schema by more than one either raises its level
by one or leaves it (v3 and v6 run again), and fails otherwise; so nobody can
take the schema back from a process that serves. With one process the list
starts exactly above user_version (`TodoExact`), and the replay is ruled out.

`TimestampsProofs` (for every `Half`, at least 10^6): `RoundTrip`,
Parse(Format(ts)) = ts; `OwnDirectory`, no two timestamps have one directory;
`DirectoryFound`, Format(Parse(n)) = n for a name with six digits whose
microseconds fit in an int64. They rest on the two facts about truncating division
(`FormatRoundsDown`, `OneSplit`) and on `WrapFits`: Parse's intermediate product may
wrap where the sum does not.

`ImportProofs` (for any directories, titles and number of operations):

* `TypeCorrect`, `RowsMatch`, `DeletionIsFinal`: `[]TypeOK`,
  `[]RowMatchesIndex`, `[]DeletedIsFinal`.
* `ImportIsCurrent`: the action property `ImportReflectsDisk`.
* `IdsSurviveImport`: the refinement of `SnapshotTable`. `CommitIds` is what it
  takes: the upserts number the new rows by their rank among them (`Ranks`).
* `TableKeepsIdsApart`: `SnapshotTable` by itself implies that no two rows have one
  id, and that none is above the counter.

The inductive invariant `ImportInv` adds to the types what an import in flight
and a worker in the middle of a pass know. `EntriesAgree`: an entry read agrees
with the title in its directory's index, unless the snapshot is unsettled or
being written; `ScanCurrent`: of a snapshot that nobody touched, each readable
directory is read or still to be read, and each entry is what a directory says
now; `WorkerAgrees`: a worker that is `alone` has no import beside it, its row is
there and has the worker's title, between two runs of its pass too;
`GoneForgotten`: nobody holds a deleted snapshot. Each step is local to
one timestamp (`Local`, `Elsewhere`), so that the argument for all others is
made once; `CommitRows` is the one step that changes many rows.

`ListingProofs` (for any number of rows, page sizes and operations, with `Import`
beside the reader):

* `ListTypeCorrect`, `WalkIsComplete`, `WalkIsInOrder`, `SearchIsExact`:
  `[]ListTypeOK`, `[]NothingSkipped`, `[]EachOnce`, `[]SearchFinds`.
* `ReadersChangeNothing`: what is proved of `Import` holds with readers beside it.

A page is given by how many rows are newer than its own (`Newer`), and the proofs
are about that number: each row has one below the count of the rows (`Ranked`),
the oldest has the last (`Last`), and a row that stays is moved up the list only
by the deletion of one before it (`RankStep`). `ListInv` adds three parts to the
types and `ImportInv`. `SkipInv`: every row that was there when the walk began and
is there still was shown or comes at or after the next page (`Ahead`), as long as
no row already passed was deleted, and the count of the page being loaded is not
too small unless a row came after it. `InStep`: while nothing changes, what was
shown is exactly what comes before the next page, and a page after the first is
only asked for when there is one. `FindInv`: of a snapshot that did not change,
each directory is still to be read or its match was found. The numbers of the
pages follow by arithmetic (`WholePages`, `RoundUp`).

Only model-checked are the liveness properties, `PendingProgress` and
`EveryRunFinishes`, since TLAPS has no rule here for fairness and ENABLED.

## Plan

Done, in this order: `RunQueue` and `QueueContract`, their proofs; `ArchiveDir`,
its composition with the queue and the proofs about its data; `Migrate`,
`Extraction`, `Timestamps` and `Import` with their proofs; `Listing` and `Detail`
with theirs; `SnapshotTable`, which `Import` implements.

To do, most important first:

1. Nested files in ArchiveDir (`mercury/article.json`), and delete-file's match
   by base name.
2. The theorems of `ArchiveDir` for two workers, as far as they hold.

## Not modelled

Templates, assets, logging and request logging middleware keep no state. The
order of the steps of a graceful shutdown (signal, Shutdown, cancel of the
worker) is not modelled: `Crash`, at any point of worker and requests, allows
more than it. The data that migrations copy, the fields of `index.json` other than
title and latest steps, file counts and sizes, and the archive file handler have
no property here. The content of pages, the extractors' external programs and
ripgrep are external.
