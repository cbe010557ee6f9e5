----------------------------- MODULE Extraction -----------------------------
(***************************************************************************)
(* What an extractor leaves in a snapshot's directory and what it reports: *)
(* extractor.Run and what runOne makes of it, over several runs on one     *)
(* snapshot, with files deleted in between by handleDeleteFile.            *)
(*                                                                         *)
(* The runs of a snapshot are sequential (RunQueue's lock), so that the    *)
(* steps of one extractor interleave with nothing; what is hard is what a  *)
(* run inherits from earlier ones, attempts that fail halfway, and outputs *)
(* of which some fail.  Programs, remote servers and the file system are   *)
(* external: each may fail, and leave the old file or part of a new one.   *)
(*                                                                         *)
(* wget-favicon behaves as wget, and chromedp_proxy as chromedp, with      *)
(* files of their own.                                                     *)
(***************************************************************************)
EXTENDS Integers, Sequences

CONSTANTS
    Enabled,   \* the extractors that are run
    MaxRuns    \* bound: runs of the snapshot

Programs == {"curl", "wget"}                        \* a program writes the file
Fetchers == {"headers", "obelisk", "obelisk_proxy"} \* the response is written
Fallback == {"curl", "headers"}                     \* direct, then through a proxy

\* The files of each extractor, in the order of its steps.
Outputs ==
    [e \in Programs \cup Fetchers \cup {"ytdlp", "chromedp"} |->
       CASE e = "ytdlp"    -> <<"info.json", "vtt">>
         [] e = "chromedp" -> <<"screenshot", "pdf", "dom">>
         [] OTHER          -> <<e>>]

ASSUME ExtractionAssumption ==
    /\ Enabled \subseteq DOMAIN Outputs
    /\ MaxRuns \in Nat

FilesOf(e) == {Outputs[e][i] : i \in 1..Len(Outputs[e])}
Files      == UNION {FilesOf(e) : e \in Enabled}
Globbed    == FilesOf("ytdlp")

Absent     == [by |-> 0, whole |-> FALSE]
Content    == [by : 0..MaxRuns, whole : BOOLEAN]
StepStatus == {"succeeded", "failed", "skipped"}
Output     == [by : 1..MaxRuns, file : Files, status : StepStatus]

VARIABLES
    proxy,     \* whether SOCKS5_PROXY is set
    run,       \* runs begun so far; the number of the last one
    ext,       \* its extractor
    at,        \* where it is
    via,       \* "direct", or the "proxy" fallback
    steps,     \* statuses of the steps it has so far, in Outputs order
    err,       \* the error it returns: "none", "skipped" or "failed"
    status,    \* the status runOne returned for it
    files,     \* the directory: file -> which run wrote it, and whether wholly
    outputs,   \* table step_outputs: a row per step of a run
    before     \* history: files as they were before the run

vars == <<proxy, run, ext, at, via, steps, err, status, files, outputs, before>>

Whole   == [by |-> run, whole |-> TRUE]
Partial == [by |-> run, whole |-> FALSE]

----------------------------------------------------------------------------

\* Mutant of Begin: the attempt of the last run is carried over.
BeginWhereItWas(e) ==
    /\ at = "idle"
    /\ run < MaxRuns
    /\ run' = run + 1
    /\ ext' = e
    /\ at' = IF e = "chromedp" THEN "launch" ELSE "fetch"
    /\ steps' = <<>>
    /\ err' = "none"
    /\ UNCHANGED <<proxy, via, status, files, outputs, before>>

Begin(e) ==
    /\ at = "idle"
    /\ run < MaxRuns
    /\ run' = run + 1
    /\ ext' = e
    /\ at' = IF e = "chromedp" THEN "launch" ELSE "fetch"
    /\ via' = "direct"
    /\ steps' = <<>>
    /\ err' = "none"
    /\ UNCHANGED <<proxy, status, files, outputs, before>>

AllSteps(st) == [i \in 1..Len(Outputs[ext]) |-> st]

Return(sts, e) ==
    /\ at' = "report"
    /\ steps' = sts
    /\ err' = e
    /\ UNCHANGED via

\* Mutant of Succeed: the proxy is tried whatever the direct attempt did.
SucceedThenProxy ==
    IF via = "direct" /\ ext \in Fallback /\ proxy
    THEN /\ via' = "proxy"
         /\ at' = "fetch"
         /\ UNCHANGED <<steps, err>>
    ELSE Return(AllSteps("succeeded"), "none")

Succeed == Return(AllSteps("succeeded"), "none")

\* TryDirectThenProxy: the proxy is tried after the direct attempt failed, and
\* the last attempt's result is the extractor's.
Fail ==
    IF via = "direct" /\ ext \in Fallback /\ proxy
    THEN /\ via' = "proxy"
         /\ at' = "fetch"
         /\ UNCHANGED <<steps, err>>
    ELSE Return(AllSteps("failed"), "failed")

unchangedByRun == <<proxy, run, ext, status, outputs, before>>

\* curl or wget ends with exit code 0.
ProgramSucceeds ==
    /\ at = "fetch"
    /\ ext \in Programs
    /\ files' = [files EXCEPT ![ext] = Whole]
    /\ Succeed
    /\ UNCHANGED unchangedByRun

\* It does not start, or fails: wget truncates the file before it connects,
\* curl writes what it receives.
ProgramFails ==
    /\ at = "fetch"
    /\ ext \in Programs
    /\ files' \in {files, [files EXCEPT ![ext] = Partial]}
    /\ Fail
    /\ UNCHANGED unchangedByRun

ResponseArrives ==
    /\ at = "fetch"
    /\ ext \in Fetchers
    /\ at' = "write"
    /\ UNCHANGED <<unchangedByRun, via, steps, err, files>>

RequestFails ==
    /\ at = "fetch"
    /\ ext \in Fetchers
    /\ Fail
    /\ UNCHANGED <<unchangedByRun, files>>

\* The proxy's URL is not usable: no step is returned.
NoTransport ==
    /\ at = "fetch"
    /\ ext = "obelisk_proxy"
    /\ Return(<<>>, "failed")
    /\ UNCHANGED <<unchangedByRun, files>>

\* os.WriteFile of a response; its error counts as the attempt's.
WriteResponse ==
    /\ at = "write"
    /\ ext \in Fetchers
    /\ \/ files' = [files EXCEPT ![ext] = Whole] /\ Succeed
       \/ files' \in {files, [files EXCEPT ![ext] = Partial]} /\ Fail
    /\ UNCHANGED unchangedByRun

\* allocator: there is no browser (or it was not built in), or its remote URL is
\* not usable.
NoBrowser ==
    /\ at = "launch"
    /\ \E e \in {"skipped", "failed"} : Return(<<>>, e)
    /\ UNCHANGED <<unchangedByRun, files>>

\* Navigating, or one of the captures, fails or takes too long.
CaptureFails ==
    /\ at = "launch"
    /\ Return(AllSteps("failed"), "failed")
    /\ UNCHANGED <<unchangedByRun, files>>

Capture ==
    /\ at = "launch"
    /\ at' = "write"
    /\ UNCHANGED <<unchangedByRun, via, steps, err, files>>

\* Mutant of WriteCapture: the error of a write is not looked at.
WriteUnchecked ==
    LET f == Outputs[ext][Len(steps) + 1]
    IN  /\ at = "write"
        /\ ext = "chromedp"
        /\ files' \in {files, [files EXCEPT ![f] = Partial], [files EXCEPT ![f] = Whole]}
        /\ steps' = Append(steps, "succeeded")
        /\ at' = IF Len(steps') = Len(Outputs[ext]) THEN "report" ELSE "write"
        /\ UNCHANGED <<unchangedByRun, via, err>>

\* writeStepFiles: the next of the three; the others are written all the same
\* when one fails, and the first error is returned.
WriteCapture ==
    LET f == Outputs[ext][Len(steps) + 1]
    IN  /\ at = "write"
        /\ ext = "chromedp"
        /\ \/ /\ files' = [files EXCEPT ![f] = Whole]
              /\ steps' = Append(steps, "succeeded")
              /\ UNCHANGED err
           \/ /\ files' \in {files, [files EXCEPT ![f] = Partial]}
              /\ steps' = Append(steps, "failed")
              /\ err' = "failed"
        /\ at' = IF Len(steps') = Len(Outputs[ext]) THEN "report" ELSE "write"
        /\ UNCHANGED <<unchangedByRun, via>>

\* yt-dlp returns, whatever its exit code, with some of its files written, and
\* some written in part when it was killed or the disk was full.
YtDlpReturns ==
    /\ at = "fetch"
    /\ ext = "ytdlp"
    /\ \E done, begun \in SUBSET FilesOf(ext) :
         files' = [f \in Files |-> IF f \in done THEN Whole
                                  ELSE IF f \in begun THEN Partial ELSE files[f]]
    /\ at' = "look"
    /\ UNCHANGED <<unchangedByRun, via, steps, err>>

\* The files that are there decide, and nothing else; transcript follows
\* metadata when missing.
LookForFiles ==
    LET there(f)   == files[f] # Absent
        metadata   == IF there("info.json") THEN "succeeded" ELSE "failed"
        transcript == IF there("vtt") THEN "succeeded"
                      ELSE IF there("info.json") THEN "skipped" ELSE "failed"
    IN  /\ at = "look"
        /\ Return(<<metadata, transcript>>,
                  IF metadata = "failed" THEN "failed" ELSE "none")
        /\ UNCHANGED <<unchangedByRun, files>>

----------------------------------------------------------------------------
(* runOne, once extractor.Run has returned.                                *)

Some(st) == \E i \in 1..Len(steps) : steps[i] = st

Aggregate ==
    IF Some("failed") THEN "failed"
    ELSE IF Some("succeeded") THEN "succeeded"
    ELSE "skipped"

\* Mutant of RunStatus: every step overwrites the status of the one before.
LastStatus ==
    IF err = "skipped" THEN "skipped"
    ELSE IF steps = <<>> THEN "failed"
    ELSE steps[Len(steps)]

RunStatus ==
    IF err = "none" THEN Aggregate ELSE err

\* The run's steps are recorded: DeleteStepOutputs finds none of a new run.
Report ==
    /\ at = "report"
    /\ status' = RunStatus
    /\ outputs' = outputs \cup
         {[by |-> run, file |-> Outputs[ext][i], status |-> steps[i]] : i \in 1..Len(steps)}
    /\ at' = "idle"
    /\ before' = files
    /\ UNCHANGED <<proxy, run, ext, via, steps, err, files>>

\* A step of yt-dlp names its file only when it has found it.
Names(o, f) == o.file = f /\ (o.file \in Globbed => o.status = "succeeded")

\* handleDeleteFile, which the guard keeps out while a run is not terminal; the
\* outputs of every run that name the file go.
DeleteFile(f) ==
    /\ at = "idle"
    /\ files' = [files EXCEPT ![f] = Absent]
    /\ outputs' = {o \in outputs : ~Names(o, f)}
    /\ before' = files'
    /\ UNCHANGED <<proxy, run, ext, at, via, steps, err, status>>

----------------------------------------------------------------------------

Init ==
    /\ proxy \in BOOLEAN
    /\ run = 0
    /\ ext = "none"
    /\ at = "idle"
    /\ via = "direct"
    /\ steps = <<>>
    /\ err = "none"
    /\ status = "none"
    /\ files = [f \in Files |-> Absent]
    /\ outputs = {}
    /\ before = files

\* obelisk_proxy is in the pipeline only with a proxy.
Runnable == {e \in Enabled : e = "obelisk_proxy" => proxy}

Extract ==
    \/ ProgramSucceeds \/ ProgramFails
    \/ ResponseArrives \/ RequestFails \/ NoTransport \/ WriteResponse
    \/ NoBrowser \/ CaptureFails \/ Capture \/ WriteCapture
    \/ YtDlpReturns \/ LookForFiles

Next ==
    \/ \E e \in Runnable : Begin(e)
    \/ Extract
    \/ Report
    \/ \E f \in Files : DeleteFile(f)

Spec == Init /\ [][Next]_vars

----------------------------------------------------------------------------
(* Properties.                                                             *)

\* The type invariant; the proxy is used by the extractors that fall back on
\* it, when there is one.
TypeOK ==
    /\ proxy \in BOOLEAN
    /\ run \in 0..MaxRuns
    /\ ext \in Enabled \cup {"none"}
    /\ at \in {"idle", "launch", "fetch", "write", "look", "report"}
    /\ via = "direct" \/ (via = "proxy" /\ proxy /\ ext \in Fallback)
    /\ steps \in Seq(StepStatus)
    /\ ext \in Enabled => Len(steps) \in {0, Len(Outputs[ext])} \/ at = "write"
    /\ err \in {"none", "skipped", "failed"}
    /\ status \in StepStatus \cup {"none"}
    /\ files \in [Files -> Content]
    /\ outputs \subseteq Output
    /\ before \in [Files -> Content]

\* The latest output of its name, which is the one index.json shows.
Latest(o) == \A q \in outputs : q.file = o.file => q.by <= o.by

\* What index.json and the detail page show as succeeded is on disk, and it is
\* whole and from the very run that reported it, however many failed attempts,
\* failed reruns and deletions there were.  yt-dlp's files need only be there: its
\* exit code is not looked at (ytdlp/extractor.go:44), so that a file it was
\* killed in, or one of an earlier run, is reported as succeeded.
SucceededMeansSaved ==
    at = "idle" => \A o \in outputs : Latest(o) /\ o.status = "succeeded" =>
        /\ files[o.file] # Absent
        /\ o.file \notin Globbed => files[o.file] = [by |-> o.by, whole |-> TRUE]

\* What ArchiveDir takes an extractor to leave (FilesAfter): a file whose step
\* failed or was skipped is the old one, or a part of a new one.
FailedLeavesOld ==
    at = "report" => \A i \in 1..Len(steps) :
        LET f == Outputs[ext][i]
        IN  steps[i] # "succeeded" => files[f] \in {before[f], Partial}

\* "Callers derive a run's terminal status from the aggregate of the Step
\* statuses and the returned error" (extractor.go:82), and the two agree in every
\* extractor: a run succeeded when a step did and none failed, and only then; one
\* with steps failed because of one of them; a skipped one has recorded nothing.
StatusFromSteps ==
    at = "idle" /\ run > 0 =>
        /\ status = "succeeded" <=> Some("succeeded") /\ ~Some("failed")
        /\ status = "failed" => steps = <<>> \/ Some("failed")
        /\ status = "skipped" => steps = <<>>
=============================================================================
