--------------------------- MODULE ExtractionProofs ---------------------------
(***************************************************************************)
(* Proofs about Extraction, for every choice of enabled extractors and any *)
(* number of runs.                                                         *)
(***************************************************************************)
EXTENDS Extraction, TLAPS

----------------------------------------------------------------------------
(* The table of outputs.                                                   *)

Size(e) == Len(Outputs[e])

Single == Programs \cup Fetchers

\* The rows of Outputs.
LEMMA Rows ==
    /\ DOMAIN Outputs = Single \cup {"ytdlp", "chromedp"}
    /\ \A e \in Single : Outputs[e] = <<e>>
    /\ Outputs["ytdlp"] = <<"info.json", "vtt">>
    /\ Outputs["chromedp"] = <<"screenshot", "pdf", "dom">>
<1>1. DOMAIN Outputs = Single \cup {"ytdlp", "chromedp"}
  BY DEF Outputs, Single, Programs, Fetchers
<1>2. \A e \in Single : e # "ytdlp" /\ e # "chromedp"
  BY DEF Single, Programs, Fetchers
<1>3. \A e \in Single : Outputs[e] = <<e>>
  BY <1>2 DEF Outputs, Single
<1>4. Outputs["ytdlp"] = <<"info.json", "vtt">>
  BY DEF Outputs
<1>5. Outputs["chromedp"] = <<"screenshot", "pdf", "dom">>
  BY DEF Outputs
<1> QED BY <1>1, <1>3, <1>4, <1>5

\* How many steps each extractor has.
LEMMA Sizes ==
    /\ \A e \in Single : Size(e) = 1 /\ Outputs[e][1] = e
    /\ Size("ytdlp") = 2 /\ Size("chromedp") = 3
    /\ \A e \in DOMAIN Outputs : Size(e) \in 1..3
<1>1. \A e \in Single : Size(e) = 1 /\ Outputs[e][1] = e
  BY Rows DEF Size
<1>2. Size("ytdlp") = 2 /\ Size("chromedp") = 3
  BY Rows DEF Size
<1> QED BY <1>1, <1>2, Rows

\* The files of an extractor that is enabled.
LEMMA OwnFiles ==
  ASSUME NEW e \in Enabled, NEW i \in 1..Size(e)
  PROVE  Outputs[e][i] \in FilesOf(e) /\ Outputs[e][i] \in Files
BY DEF Size, FilesOf, Files

\* No two steps have the same file.
LEMMA Distinct ==
  ASSUME NEW e \in DOMAIN Outputs, NEW i \in 1..Size(e),
         NEW d \in DOMAIN Outputs, NEW j \in 1..Size(d),
         Outputs[e][i] = Outputs[d][j]
  PROVE  e = d /\ i = j
<1>1. \A c \in Single : c \notin {"info.json", "vtt", "screenshot", "pdf", "dom",
                                  "ytdlp", "chromedp"}
  BY DEF Single, Programs, Fetchers
<1>2. \A k \in 1..2 : k = 1 \/ k = 2
  OBVIOUS
<1>3. \A k \in 1..3 : k = 1 \/ k = 2 \/ k = 3
  OBVIOUS
<1>4. \A k \in 1..1 : k = 1
  OBVIOUS
<1>5. CASE e \in Single
  <2>1. CASE d \in Single
    BY <1>5, <2>1, <1>4, Sizes
  <2>2. CASE d = "ytdlp"
    BY <1>5, <2>2, <1>1, <1>2, <1>4, Sizes, Rows
  <2>3. CASE d = "chromedp"
    BY <1>5, <2>3, <1>1, <1>3, <1>4, Sizes, Rows
  <2> QED BY <2>1, <2>2, <2>3, Rows
<1>6. CASE e = "ytdlp"
  <2>1. CASE d \in Single
    BY <1>6, <2>1, <1>1, <1>2, <1>4, Sizes, Rows
  <2>2. CASE d = "ytdlp"
    BY <1>6, <2>2, <1>2, Sizes, Rows
  <2>3. CASE d = "chromedp"
    BY <1>6, <2>3, <1>2, <1>3, Sizes, Rows
  <2> QED BY <2>1, <2>2, <2>3, Rows
<1>7. CASE e = "chromedp"
  <2>1. CASE d \in Single
    BY <1>7, <2>1, <1>1, <1>3, <1>4, Sizes, Rows
  <2>2. CASE d = "ytdlp"
    BY <1>7, <2>2, <1>2, <1>3, Sizes, Rows
  <2>3. CASE d = "chromedp"
    BY <1>7, <2>3, <1>3, Sizes, Rows
  <2> QED BY <2>1, <2>2, <2>3, Rows
<1> QED BY <1>5, <1>6, <1>7, Rows

\* A sequence of equal statuses is one.
LEMMA AllStepsType ==
  ASSUME ext \in DOMAIN Outputs, NEW st \in StepStatus
  PROVE  /\ AllSteps(st) \in Seq(StepStatus)
         /\ Len(AllSteps(st)) = Size(ext)
         /\ \A i \in 1..Size(ext) : AllSteps(st)[i] = st
<1>1. Size(ext) \in Nat
  BY Sizes
<1>2. AllSteps(st) = [i \in 1..Size(ext) |-> st]
  BY DEF AllSteps, Size
<1> QED BY <1>1, <1>2

----------------------------------------------------------------------------
(* The types, and where each extractor is.                                 *)

\* Which steps belong to which extractor, and what it has by then.
PlaceOK ==
    /\ run > 0 => ext \in Enabled
    /\ at # "idle" => run > 0
    /\ at = "launch" => ext = "chromedp"
    /\ at = "fetch" => ext \in Single \cup {"ytdlp"}
    /\ at = "look" => ext = "ytdlp"
    /\ at = "write" => ext \in Fetchers \cup {"chromedp"}
    /\ at \in {"launch", "fetch", "look"} => steps = <<>> /\ err = "none"
    /\ at = "write" /\ ext # "chromedp" => steps = <<>> /\ err = "none"
    /\ at = "write" /\ ext = "chromedp" => Len(steps) < 3
    /\ at = "report" => steps = <<>> \/ Len(steps) = Size(ext)

\* The statuses, the error and the run's status agree.
ErrOK ==
    /\ at = "write" =>
         /\ err = "failed" <=> Some("failed")
         /\ err = "skipped" => FALSE
         /\ ~Some("skipped")
    /\ at = "report" =>
         /\ err = "none" => Some("succeeded") /\ ~Some("failed")
         /\ err = "failed" => steps = <<>> \/ Some("failed")
         /\ err = "skipped" => steps = <<>>

TypeInv == TypeOK /\ PlaceOK /\ ErrOK /\ StatusFromSteps

LEMMA RunnableType == Runnable \subseteq Enabled /\ Enabled \subseteq DOMAIN Outputs
BY ExtractionAssumption DEF Runnable

LEMMA ContentType ==
  ASSUME TypeOK, run > 0
  PROVE  Whole \in Content /\ Partial \in Content /\ Absent \in Content
BY ExtractionAssumption DEF TypeOK, Whole, Partial, Absent, Content

LEMMA InitTypes == Init => TypeInv
<1> SUFFICES ASSUME Init PROVE TypeInv
  OBVIOUS
<1>1. <<>> \in Seq(StepStatus) /\ Len(<<>>) = 0
  OBVIOUS
<1>2. TypeOK
  BY <1>1, ExtractionAssumption DEF Init, TypeOK, Absent, Content
<1>3. PlaceOK /\ ErrOK /\ StatusFromSteps
  BY <1>1 DEF Init, PlaceOK, ErrOK, StatusFromSteps
<1> QED BY <1>2, <1>3 DEF TypeInv

\* An extractor returns all its steps with one status.
LEMMA ReturnAll ==
  ASSUME TypeInv, at \in {"fetch", "launch", "write"}, NEW st \in {"succeeded", "failed"},
         UNCHANGED <<proxy, run, ext, status, outputs, before>>,
         files' \in [Files -> Content],
         Return(AllSteps(st), IF st = "failed" THEN "failed" ELSE "none")
  PROVE  TypeInv'
<1>1. ext \in Enabled /\ ext \in DOMAIN Outputs /\ run > 0
  BY RunnableType DEF TypeInv, PlaceOK
<1>2. /\ steps' \in Seq(StepStatus) /\ Len(steps') = Size(ext)
      /\ \A i \in 1..Size(ext) : steps'[i] = st
  BY <1>1, AllStepsType DEF Return, StepStatus
<1>3. Size(ext) \in 1..3
  BY <1>1, Sizes
<1>4. TypeOK'
  BY <1>1, <1>2 DEF TypeInv, TypeOK, Return, Size
<1>5. PlaceOK'
  BY <1>1, <1>2 DEF PlaceOK, Return, Size
<1>6. ErrOK' /\ StatusFromSteps'
  BY <1>2, <1>3 DEF ErrOK, StatusFromSteps, Return, Some
<1> QED BY <1>4, <1>5, <1>6 DEF TypeInv

\* It returns no step.
LEMMA ReturnNone ==
  ASSUME TypeInv, at \in {"fetch", "launch"}, NEW e \in {"skipped", "failed"},
         UNCHANGED <<proxy, run, ext, status, outputs, before, files>>,
         Return(<<>>, e)
  PROVE  TypeInv'
<1>1. <<>> \in Seq(StepStatus) /\ Len(<<>>) = 0
  OBVIOUS
<1>2. TypeOK'
  BY <1>1 DEF TypeInv, TypeOK, Return
<1>3. PlaceOK'
  BY DEF TypeInv, PlaceOK, Return
<1>4. ErrOK' /\ StatusFromSteps'
  BY DEF ErrOK, StatusFromSteps, Return
<1> QED BY <1>2, <1>3, <1>4 DEF TypeInv

\* A failed attempt is followed by the proxy's, or returns.
LEMMA FailTypes ==
  ASSUME TypeInv, at = "fetch" \/ (at = "write" /\ ext # "chromedp"), Fail,
         ext \in Single,
         UNCHANGED <<proxy, run, ext, status, outputs, before>>,
         files' \in [Files -> Content]
  PROVE  TypeInv'
<1>1. CASE via = "direct" /\ ext \in Fallback /\ proxy
  <2>1. at' = "fetch" /\ via' = "proxy" /\ steps' = steps /\ err' = err
    BY <1>1 DEF Fail
  <2>2. steps = <<>> /\ err = "none" /\ run > 0 /\ ext \in Enabled /\ Len(steps) = 0
    BY DEF TypeInv, PlaceOK
  <2>3. TypeOK'
    BY <1>1, <2>1, <2>2 DEF TypeInv, TypeOK
  <2>4. PlaceOK'
    BY <2>1, <2>2 DEF PlaceOK
  <2>5. ErrOK' /\ StatusFromSteps'
    BY <2>1 DEF ErrOK, StatusFromSteps
  <2> QED BY <2>3, <2>4, <2>5 DEF TypeInv
<1>2. CASE ~(via = "direct" /\ ext \in Fallback /\ proxy)
  BY <1>2, ReturnAll DEF Fail
<1> QED BY <1>1, <1>2

\* Begin, and the steps that write no file.
LEMMA BeginTypes ==
  ASSUME TypeInv, NEW e \in Runnable, Begin(e)
  PROVE  TypeInv'
<1>1. e \in Enabled /\ e \in DOMAIN Outputs /\ run \in Nat /\ run' = run + 1
      /\ run' \in 0..MaxRuns
  BY RunnableType, ExtractionAssumption DEF TypeInv, TypeOK, Begin
<1>2. <<>> \in Seq(StepStatus) /\ Len(<<>>) = 0
  OBVIOUS
<1>3. TypeOK'
  BY <1>1, <1>2 DEF TypeInv, TypeOK, Begin
<1>4. PlaceOK'
  BY <1>1, <1>2, Rows DEF PlaceOK, Begin
<1>5. ErrOK' /\ StatusFromSteps'
  BY DEF ErrOK, StatusFromSteps, Begin
<1> QED BY <1>3, <1>4, <1>5 DEF TypeInv

LEMMA ToWrite ==
  ASSUME TypeInv, ResponseArrives \/ Capture
  PROVE  TypeInv'
<1>1. /\ at' = "write" /\ ext \in Fetchers \cup {"chromedp"} /\ run > 0
      /\ steps = <<>> /\ err = "none" /\ ext \in Enabled /\ Len(steps) = 0
      /\ UNCHANGED <<proxy, run, ext, status, outputs, before, via, steps, err, files>>
  BY DEF TypeInv, PlaceOK, ResponseArrives, Capture, unchangedByRun
<1>2. TypeOK'
  BY <1>1 DEF TypeInv, TypeOK
<1>3. PlaceOK'
  BY <1>1 DEF PlaceOK
<1>4. ErrOK' /\ StatusFromSteps'
  BY <1>1 DEF ErrOK, StatusFromSteps, Some
<1> QED BY <1>2, <1>3, <1>4 DEF TypeInv

LEMMA FilesType ==
  ASSUME TypeInv, run > 0, NEW f \in Files, NEW v \in {Whole, Partial, Absent}
  PROVE  [files EXCEPT ![f] = v] \in [Files -> Content]
BY ContentType DEF TypeInv, TypeOK

\* curl, wget and what fetches a response.
LEMMA FetchTypes ==
  ASSUME TypeInv,
         \/ ProgramSucceeds \/ ProgramFails \/ RequestFails \/ WriteResponse
  PROVE  TypeInv'
<1>1. /\ ext \in Single /\ ext # "chromedp" /\ run > 0 /\ ext \in Enabled
      /\ at = "fetch" \/ at = "write"
      /\ UNCHANGED <<proxy, run, ext, status, outputs, before>>
  BY DEF TypeInv, PlaceOK, Single, Programs, Fetchers, unchangedByRun,
         ProgramSucceeds, ProgramFails, RequestFails, WriteResponse
<1>2. ext \in Files
  BY <1>1, OwnFiles, Sizes
<1>3. files' \in [Files -> Content]
  BY <1>1, <1>2, FilesType DEF TypeInv, TypeOK,
         ProgramSucceeds, ProgramFails, RequestFails, WriteResponse
<1>4. Succeed \/ Fail
  BY DEF ProgramSucceeds, ProgramFails, RequestFails, WriteResponse
<1>5. CASE Succeed
  BY <1>1, <1>3, <1>5, ReturnAll DEF Succeed
<1>6. CASE Fail
  BY <1>1, <1>3, <1>6, FailTypes
<1> QED BY <1>4, <1>5, <1>6

LEMMA LaunchTypes ==
  ASSUME TypeInv, NoTransport \/ NoBrowser \/ CaptureFails
  PROVE  TypeInv'
<1>1. CASE NoTransport
  BY <1>1, ReturnNone DEF NoTransport, unchangedByRun
<1>2. CASE NoBrowser
  <2>1. PICK e \in {"skipped", "failed"} : Return(<<>>, e)
    BY <1>2 DEF NoBrowser
  <2> QED BY <1>2, <2>1, ReturnNone DEF NoBrowser, unchangedByRun
<1>3. CASE CaptureFails
  <2>1. files' \in [Files -> Content]
    BY <1>3 DEF TypeInv, TypeOK, CaptureFails
  <2>2. Return(AllSteps("failed"), IF "failed" = "failed" THEN "failed" ELSE "none")
    BY <1>3 DEF CaptureFails
  <2>3. at = "launch" /\ UNCHANGED <<proxy, run, ext, status, outputs, before>>
    BY <1>3 DEF CaptureFails, unchangedByRun
  <2> QED BY <2>1, <2>2, <2>3, ReturnAll
<1> QED BY <1>1, <1>2, <1>3

\* The next file of a capture: whole, or not and the error says so.
CaptureStep(f, v) ==
    /\ f = Outputs[ext][Len(steps) + 1]
    /\ \/ files' = files
       \/ files' = [files EXCEPT ![f] = IF v = "succeeded" THEN Whole ELSE Partial]
    /\ v = "succeeded" => files' = [files EXCEPT ![f] = Whole]
    /\ steps' = Append(steps, v)
    /\ err' = IF v = "succeeded" THEN err ELSE "failed"
    /\ at' = IF Len(steps') = Size(ext) THEN "report" ELSE "write"

LEMMA Captured ==
  ASSUME WriteCapture
  PROVE  \E v \in {"succeeded", "failed"} :
           CaptureStep(Outputs[ext][Len(steps) + 1], v)
BY DEF WriteCapture, CaptureStep, Size

LEMMA CaptureTypes ==
  ASSUME TypeInv, WriteCapture
  PROVE  TypeInv'
<1>1. /\ at = "write" /\ ext = "chromedp" /\ ext \in Enabled /\ run > 0
      /\ UNCHANGED <<proxy, run, ext, status, outputs, before, via>>
      /\ Len(steps) < 3
  BY DEF TypeInv, PlaceOK, WriteCapture, unchangedByRun
<1>2. steps \in Seq(StepStatus) /\ Len(steps) \in Nat
  BY DEF TypeInv, TypeOK
<1> DEFINE f == Outputs[ext][Len(steps) + 1]
<1>3. PICK v \in {"succeeded", "failed"} : CaptureStep(f, v)
  BY Captured
<1>4. Size(ext) = 3 /\ f \in Files
  BY <1>1, <1>2, Sizes, OwnFiles
<1>5. files' \in [Files -> Content]
  <2>1. /\ [files EXCEPT ![f] = Whole] \in [Files -> Content]
        /\ [files EXCEPT ![f] = Partial] \in [Files -> Content]
        /\ files \in [Files -> Content]
    BY <1>1, <1>4, FilesType DEF TypeInv, TypeOK
  <2> QED BY <1>3, <2>1 DEF CaptureStep
<1>6. /\ steps' \in Seq(StepStatus) /\ Len(steps') = Len(steps) + 1
      /\ \A i \in 1..Len(steps) : steps'[i] = steps[i]
      /\ steps'[Len(steps) + 1] = v
  BY <1>2, <1>3 DEF CaptureStep, StepStatus
<1>7. at' = IF Len(steps') = 3 THEN "report" ELSE "write"
  BY <1>3, <1>4 DEF CaptureStep
<1>8. err' \in {"none", "skipped", "failed"} /\ err \in {"none", "skipped", "failed"}
  BY <1>3 DEF CaptureStep, TypeInv, TypeOK
<1>9. TypeOK'
  BY <1>1, <1>4, <1>5, <1>6, <1>7, <1>8 DEF TypeInv, TypeOK, Size
<1>10. PlaceOK'
  BY <1>1, <1>2, <1>4, <1>6, <1>7 DEF TypeInv, PlaceOK, Size
<1>11. ErrOK'
  <2>1. /\ err = "failed" <=> \E i \in 1..Len(steps) : steps[i] = "failed"
        /\ err # "skipped"
        /\ \A i \in 1..Len(steps) : steps[i] # "skipped"
    BY <1>1 DEF TypeInv, ErrOK, Some
  <2>2. \A st : (\E i \in 1..Len(steps') : steps'[i] = st)
                  <=> v = st \/ \E i \in 1..Len(steps) : steps[i] = st
    <3>1. \A i : i \in 1..Len(steps') <=> i \in 1..Len(steps) \/ i = Len(steps) + 1
      BY <1>2, <1>6
    <3> QED BY <1>6, <3>1
  <2>3. /\ err' = "failed" <=> Some("failed")'
        /\ err' # "skipped" /\ ~Some("skipped")'
    BY <1>3, <2>1, <2>2 DEF CaptureStep, Some
  <2>4. \A i \in 1..Len(steps') : steps'[i] \in StepStatus
    BY <1>6
  <2>5. ~Some("failed")' => Some("succeeded")'
    BY <1>2, <1>6, <2>3, <2>4 DEF Some, StepStatus
  <2> QED BY <1>7, <1>8, <2>3, <2>5 DEF ErrOK
<1>12. StatusFromSteps'
  BY <1>7 DEF StatusFromSteps
<1> QED BY <1>9, <1>10, <1>11, <1>12 DEF TypeInv

LEMMA YtDlpTypes ==
  ASSUME TypeInv, YtDlpReturns
  PROVE  TypeInv'
<1>1. files' \in [Files -> Content]
  BY ContentType DEF TypeInv, TypeOK, PlaceOK, YtDlpReturns
<1>2. TypeOK'
  BY <1>1 DEF TypeInv, TypeOK, PlaceOK, YtDlpReturns, unchangedByRun
<1>3. PlaceOK'
  BY DEF TypeInv, PlaceOK, YtDlpReturns, unchangedByRun
<1>4. ErrOK' /\ StatusFromSteps'
  BY DEF ErrOK, StatusFromSteps, YtDlpReturns
<1> QED BY <1>2, <1>3, <1>4 DEF TypeInv

\* What yt-dlp's run returns is decided by the two files.
Looked(metadata, transcript) ==
    /\ metadata = IF files["info.json"] # Absent THEN "succeeded" ELSE "failed"
    /\ transcript = IF files["vtt"] # Absent THEN "succeeded"
                    ELSE IF files["info.json"] # Absent THEN "skipped" ELSE "failed"
    /\ Return(<<metadata, transcript>>,
              IF metadata = "failed" THEN "failed" ELSE "none")

LEMMA LookTypes ==
  ASSUME TypeInv, LookForFiles
  PROVE  TypeInv'
<1>1. /\ ext = "ytdlp" /\ ext \in Enabled /\ run > 0 /\ Size(ext) = 2
      /\ UNCHANGED <<proxy, run, ext, status, outputs, before, files>>
  BY Sizes DEF TypeInv, PlaceOK, LookForFiles, unchangedByRun
<1>2. PICK m, t \in StepStatus : Looked(m, t)
  BY DEF LookForFiles, Looked, StepStatus
<1>3. /\ steps' = <<m, t>> /\ Len(steps') = 2 /\ steps' \in Seq(StepStatus)
      /\ steps'[1] = m /\ steps'[2] = t
  BY <1>2 DEF Looked, Return
<1>4. /\ err' = IF m = "failed" THEN "failed" ELSE "none"
      /\ at' = "report" /\ via' = via
  BY <1>2 DEF Looked, Return
<1>5. TypeOK'
  BY <1>1, <1>3, <1>4 DEF TypeInv, TypeOK, Size
<1>6. PlaceOK'
  BY <1>1, <1>3, <1>4 DEF PlaceOK, Size
<1>7. \A i : i \in 1..2 <=> i = 1 \/ i = 2
  OBVIOUS
<1>8. m \in {"succeeded", "failed"} /\ (m = "succeeded" => t # "failed")
  BY <1>2 DEF Looked
<1>9. ErrOK' /\ StatusFromSteps'
  BY <1>3, <1>4, <1>7, <1>8 DEF ErrOK, StatusFromSteps, Some
<1> QED BY <1>5, <1>6, <1>9 DEF TypeInv

\* A status of a step, or what the error says.
LEMMA RunStatusType ==
  ASSUME TypeInv, at = "report"
  PROVE  /\ RunStatus \in StepStatus
         /\ RunStatus = "succeeded" <=> Some("succeeded") /\ ~Some("failed")
         /\ RunStatus = "failed" => steps = <<>> \/ Some("failed")
         /\ RunStatus = "skipped" => steps = <<>>
<1>1. err \in {"none", "skipped", "failed"}
  BY DEF TypeInv, TypeOK
<1>2. /\ err = "none" => Some("succeeded") /\ ~Some("failed")
      /\ err = "failed" => steps = <<>> \/ Some("failed")
      /\ err = "skipped" => steps = <<>>
  BY DEF TypeInv, ErrOK
<1>3. steps = <<>> => ~Some("succeeded")
  BY DEF Some
<1>4. RunStatus = IF err = "none" THEN "succeeded" ELSE err
  BY <1>2 DEF RunStatus, Aggregate
<1> QED BY <1>1, <1>2, <1>3, <1>4 DEF StepStatus

\* The rows Report adds.
Recorded ==
    {[by |-> run, file |-> Outputs[ext][i], status |-> steps[i]] : i \in 1..Len(steps)}

LEMMA RecordedType ==
  ASSUME TypeInv, at = "report"
  PROVE  Recorded \subseteq Output
<1>1. ext \in Enabled /\ run \in 1..MaxRuns
  BY ExtractionAssumption DEF TypeInv, TypeOK, PlaceOK
<1>2. \A i \in 1..Len(steps) : i \in 1..Size(ext) /\ steps[i] \in StepStatus
  <2>1. steps = <<>> \/ Len(steps) = Size(ext)
    BY DEF TypeInv, PlaceOK
  <2> QED BY <2>1 DEF TypeInv, TypeOK
<1> QED BY <1>1, <1>2, OwnFiles DEF Recorded, Output

LEMMA ReportTypes ==
  ASSUME TypeInv, Report
  PROVE  TypeInv'
<1>1. at = "report" /\ at' = "idle" /\ run > 0
      /\ UNCHANGED <<proxy, run, ext, via, steps, err, files>>
      /\ status' = RunStatus /\ outputs' = outputs \cup Recorded /\ before' = files
  BY DEF TypeInv, PlaceOK, Report, Recorded
<1>2. outputs' \subseteq Output
  BY <1>1, RecordedType DEF TypeInv, TypeOK
<1>3. TypeOK'
  BY <1>1, <1>2, RunStatusType DEF TypeInv, TypeOK
<1>4. PlaceOK' /\ ErrOK'
  BY <1>1 DEF TypeInv, PlaceOK, ErrOK
<1>5. StatusFromSteps'
  BY <1>1, RunStatusType DEF StatusFromSteps, Some
<1> QED BY <1>3, <1>4, <1>5 DEF TypeInv

LEMMA DeleteTypes ==
  ASSUME TypeInv, NEW f \in Files, DeleteFile(f)
  PROVE  TypeInv'
<1>1. /\ at = "idle" /\ files' = [files EXCEPT ![f] = Absent] /\ before' = files'
      /\ UNCHANGED <<proxy, run, ext, at, via, steps, err, status>>
      /\ outputs' \subseteq outputs
  BY DEF DeleteFile
<1>2. Absent \in Content
  BY ExtractionAssumption DEF Absent, Content
<1>3. files' \in [Files -> Content]
  BY <1>1, <1>2 DEF TypeInv, TypeOK
<1>4. TypeOK'
  BY <1>1, <1>3 DEF TypeInv, TypeOK
<1>5. PlaceOK' /\ ErrOK'
  BY <1>1 DEF TypeInv, PlaceOK, ErrOK
<1>6. StatusFromSteps'
  BY <1>1 DEF TypeInv, StatusFromSteps, Some
<1> QED BY <1>4, <1>5, <1>6 DEF TypeInv

LEMMA StepTypes == TypeInv /\ [Next]_vars => TypeInv'
<1> SUFFICES ASSUME TypeInv, [Next]_vars PROVE TypeInv'
  OBVIOUS
<1>1. CASE \E e \in Runnable : Begin(e)
  BY <1>1, BeginTypes
<1>2. CASE Extract
  <2>1. CASE ProgramSucceeds \/ ProgramFails \/ RequestFails \/ WriteResponse
    BY <2>1, FetchTypes
  <2>2. CASE ResponseArrives \/ Capture
    BY <2>2, ToWrite
  <2>3. CASE NoTransport \/ NoBrowser \/ CaptureFails
    BY <2>3, LaunchTypes
  <2>4. CASE WriteCapture
    BY <2>4, CaptureTypes
  <2>5. CASE YtDlpReturns
    BY <2>5, YtDlpTypes
  <2>6. CASE LookForFiles
    BY <2>6, LookTypes
  <2> QED BY <1>2, <2>1, <2>2, <2>3, <2>4, <2>5, <2>6 DEF Extract
<1>3. CASE Report
  BY <1>3, ReportTypes
<1>4. CASE \E f \in Files : DeleteFile(f)
  BY <1>4, DeleteTypes
<1>5. CASE UNCHANGED vars
  BY <1>5 DEF vars, TypeInv, TypeOK, PlaceOK, ErrOK, StatusFromSteps, Some
<1> QED BY <1>1, <1>2, <1>3, <1>4, <1>5 DEF Next

\* The types of Extraction hold, whatever fails and however often (runOne and
\* what it calls, ingest.go:206).
THEOREM ExtractionTypes == Spec => []TypeOK
<1>1. Spec => []TypeInv
  BY InitTypes, StepTypes, PTL DEF Spec
<1> QED BY <1>1, PTL DEF TypeInv

\* A run's status agrees with the statuses of its steps in every extractor
\* (extractor.go:82, aggregateRunStatus).
THEOREM StatusesAgree == Spec => []StatusFromSteps
<1>1. Spec => []TypeInv
  BY InitTypes, StepTypes, PTL DEF Spec
<1> QED BY <1>1, PTL DEF TypeInv

----------------------------------------------------------------------------
(* The files.                                                              *)

\* What a step says of its file.
StepSaved(i) ==
    LET f == Outputs[ext][i]
    IN  /\ steps[i] = "succeeded" =>
             files[f] # Absent /\ (ext # "ytdlp" => files[f] = Whole)
        /\ steps[i] # "succeeded" => files[f] \in {before[f], Partial}

\* A run changes its own files only.
OthersKept ==
    /\ at = "idle" => files = before
    /\ at # "idle" => \A f \in Files \ FilesOf(ext) : files[f] = before[f]

\* What a run may have done to its files at each place.
Attempted ==
    /\ at = "launch" => files = before
    /\ at = "fetch" \/ (at = "write" /\ ext # "chromedp") =>
         /\ via = "direct" => files = before
         /\ \A f \in Files : files[f] \in {before[f], Partial}
    /\ at = "look" => \A f \in Files : files[f] \in {before[f], Whole, Partial}
    /\ at = "write" /\ ext = "chromedp" =>
         \A i \in 1..3 : i > Len(steps) =>
           files[Outputs[ext][i]] = before[Outputs[ext][i]]

StepsSaved ==
    /\ at \in {"write", "report"} => \A i \in 1..Len(steps) : StepSaved(i)
    /\ at = "report" /\ steps = <<>> => files = before

FilesInv == OthersKept /\ Attempted /\ StepsSaved

LEMMA SingleFile == \A e \in Single : FilesOf(e) = {e}
<1> SUFFICES ASSUME NEW e \in Single PROVE FilesOf(e) = {e}
  OBVIOUS
<1>1. \A k : k \in 1..1 <=> k = 1
  OBVIOUS
<1>2. FilesOf(e) = {Outputs[e][i] : i \in 1..1}
  BY Sizes DEF FilesOf, Size
<1> QED BY <1>1, <1>2, Sizes

LEMMA InitFiles == Init => FilesInv
<1> SUFFICES ASSUME Init PROVE FilesInv
  OBVIOUS
<1> QED BY DEF Init, FilesInv, OthersKept, Attempted, StepsSaved

LEMMA BeginFiles ==
  ASSUME TypeInv, FilesInv, NEW e \in Runnable, Begin(e)
  PROVE  FilesInv'
<1>1. /\ files = before /\ files' = files /\ before' = before
      /\ at' \in {"launch", "fetch"}
  BY DEF FilesInv, OthersKept, Begin
<1> QED BY <1>1 DEF FilesInv, OthersKept, Attempted, StepsSaved

\* An attempt at the one file of an extractor.
LEMMA FetchFiles ==
  ASSUME TypeInv, FilesInv,
         \/ ProgramSucceeds \/ ProgramFails \/ RequestFails \/ WriteResponse
  PROVE  FilesInv'
<1>1. /\ ext \in Single /\ ext # "chromedp" /\ ext # "ytdlp" /\ run > 0
      /\ ext \in Enabled /\ ext \in DOMAIN Outputs
      /\ at \in {"fetch", "write"}
      /\ UNCHANGED <<proxy, run, ext, status, outputs, before>>
  BY RunnableType DEF TypeInv, PlaceOK, Single, Programs, Fetchers, unchangedByRun,
         ProgramSucceeds, ProgramFails, RequestFails, WriteResponse
<1>2. /\ ext \in Files /\ FilesOf(ext) = {ext}
      /\ Size(ext) = 1 /\ Outputs[ext][1] = ext
  BY <1>1, OwnFiles, Sizes, SingleFile
<1>3. \/ /\ files' = [files EXCEPT ![ext] = Whole] /\ Succeed
      \/ /\ files' = files \/ files' = [files EXCEPT ![ext] = Partial]
         /\ Fail
  BY DEF ProgramSucceeds, ProgramFails, RequestFails, WriteResponse
<1>4. files \in [Files -> Content]
  BY DEF TypeInv, TypeOK
<1>5. \A f \in Files : f # ext => files'[f] = files[f]
  BY <1>2, <1>3, <1>4
<1>6. \A f \in Files : files[f] \in {before[f], Partial}
  BY <1>1 DEF FilesInv, Attempted
<1>7. at' # "idle"
  BY <1>3 DEF Succeed, Fail, Return
<1>8. OthersKept'
  BY <1>1, <1>2, <1>5, <1>7 DEF FilesInv, OthersKept
<1>9. Whole # Absent
  BY <1>1 DEF Whole, Absent
<1>10. Partial' = Partial /\ Whole' = Whole
  BY <1>1 DEF Partial, Whole
<1>11. CASE at' = "fetch"
  <2>1. Fail /\ via' = "proxy"
    BY <1>3, <1>11 DEF Succeed, Fail, Return
  <2>2. files' = files \/ files' = [files EXCEPT ![ext] = Partial]
    BY <1>3, <2>1, <1>11 DEF Succeed, Return
  <2>3. \A f \in Files : files'[f] \in {before[f], Partial}
    BY <1>4, <1>6, <2>2
  <2>4. Attempted' /\ StepsSaved'
    BY <1>1, <1>10, <1>11, <2>1, <2>3 DEF Attempted, StepsSaved
  <2> QED BY <1>8, <2>4 DEF FilesInv
<1>12. CASE at' = "report"
  <2>1. Attempted'
    BY <1>12 DEF Attempted
  <2>2. \/ /\ files'[ext] = Whole /\ steps' = AllSteps("succeeded")
        \/ /\ files'[ext] \in {before[ext], Partial} /\ steps' = AllSteps("failed")
    <3>1. CASE Succeed /\ files' = [files EXCEPT ![ext] = Whole]
      BY <1>2, <1>4, <3>1 DEF Succeed, Return
    <3>2. CASE Fail /\ (files' = files \/ files' = [files EXCEPT ![ext] = Partial])
      <4>1. steps' = AllSteps("failed")
        BY <1>12, <3>2 DEF Fail, Return
      <4>2. files'[ext] \in {before[ext], Partial}
        BY <1>2, <1>4, <1>6, <3>2
      <4> QED BY <4>1, <4>2
    <3> QED BY <1>3, <3>1, <3>2
  <2>3. /\ Len(steps') = 1
        /\ \/ files'[ext] = Whole /\ steps'[1] = "succeeded"
           \/ files'[ext] \in {before[ext], Partial} /\ steps'[1] = "failed"
    <3>1. \A st \in {"succeeded", "failed"} :
            Len(AllSteps(st)) = 1 /\ AllSteps(st)[1] = st
      BY <1>1, <1>2, AllStepsType DEF StepStatus
    <3> QED BY <2>2, <3>1
  <2>4. StepSaved(1)'
    BY <1>1, <1>2, <1>9, <1>10, <2>3 DEF StepSaved
  <2>5. \A i \in 1..1 : i = 1
    OBVIOUS
  <2>6. steps' # <<>>
    BY <2>3
  <2>7. StepsSaved'
    BY <1>12, <2>3, <2>4, <2>5, <2>6 DEF StepsSaved
  <2> QED BY <1>8, <2>1, <2>7 DEF FilesInv
<1> QED BY <1>3, <1>11, <1>12 DEF Succeed, Fail, Return

\* A run that returns no steps has written nothing, and neither has a capture
\* that fails.
LEMMA LaunchFiles ==
  ASSUME TypeInv, FilesInv, NoTransport \/ NoBrowser \/ CaptureFails
  PROVE  FilesInv'
<1>1. /\ files' = files /\ before' = before /\ ext' = ext /\ run' = run
      /\ at' = "report" /\ ext \in Enabled /\ ext \in DOMAIN Outputs
      /\ at # "idle"
  BY RunnableType
  DEF NoTransport, NoBrowser, CaptureFails, Return, unchangedByRun, TypeInv, PlaceOK
<1>2. files = before
  <2>1. CASE NoTransport
    <3>1. via = "direct" /\ at = "fetch" /\ ext # "chromedp"
      BY <2>1 DEF NoTransport, TypeInv, TypeOK, Fallback
    <3> QED BY <3>1 DEF FilesInv, Attempted
  <2>2. CASE NoBrowser \/ CaptureFails
    BY <2>2 DEF NoBrowser, CaptureFails, FilesInv, Attempted
  <2> QED BY <2>1, <2>2
<1>3. OthersKept' /\ Attempted'
  BY <1>1, <1>2 DEF OthersKept, Attempted
<1>4. \A i \in 1..Len(steps') : steps'[i] # "succeeded"
  <2>1. steps' = <<>> \/ steps' = AllSteps("failed")
    BY DEF NoTransport, NoBrowser, CaptureFails, Return
  <2>2. \A i \in 1..Len(AllSteps("failed")) : AllSteps("failed")[i] # "succeeded"
    BY <1>1, AllStepsType DEF StepStatus
  <2> QED BY <2>1, <2>2
<1>5. StepsSaved'
  BY <1>1, <1>2, <1>4 DEF StepsSaved, StepSaved
<1> QED BY <1>3, <1>5 DEF FilesInv

LEMMA ToWriteFiles ==
  ASSUME TypeInv, FilesInv, ResponseArrives \/ Capture
  PROVE  FilesInv'
<1>1. /\ at' = "write" /\ at \in {"fetch", "launch"} /\ run' = run
      /\ ext' = ext /\ via' = via /\ files' = files /\ before' = before
      /\ steps' = steps /\ steps = <<>>
      /\ \/ ext \in Fetchers /\ at = "fetch"
         \/ ext = "chromedp" /\ at = "launch"
  BY DEF TypeInv, PlaceOK, ResponseArrives, Capture, unchangedByRun
<1>2. ext # "chromedp" => at = "fetch"
  BY <1>1
<1>3. "chromedp" \notin Fetchers
  BY DEF Fetchers
<1>4. OthersKept'
  BY <1>1 DEF FilesInv, OthersKept
<1>5. Partial' = Partial
  BY <1>1 DEF Partial
<1>6. Attempted'
  BY <1>1, <1>2, <1>3, <1>5 DEF FilesInv, Attempted
<1>7. StepsSaved'
  BY <1>1 DEF StepsSaved
<1> QED BY <1>4, <1>6, <1>7 DEF FilesInv

\* Each file of a capture is written once.
LEMMA CaptureFiles ==
  ASSUME TypeInv, FilesInv, WriteCapture
  PROVE  FilesInv'
<1>1. /\ at = "write" /\ ext = "chromedp" /\ ext \in Enabled
      /\ ext \in DOMAIN Outputs /\ Len(steps) < 3
      /\ UNCHANGED <<proxy, run, ext, status, outputs, before, via>>
  BY RunnableType DEF TypeInv, PlaceOK, WriteCapture, unchangedByRun
<1>2. steps \in Seq(StepStatus) /\ Len(steps) \in Nat
  BY DEF TypeInv, TypeOK
<1>0. PICK k \in 1..3 : k = Len(steps) + 1
  BY <1>1, <1>2
<1> DEFINE f == Outputs[ext][k]
<1>3. PICK v \in {"succeeded", "failed"} : CaptureStep(f, v)
  BY <1>0, Captured
<1>4. Size(ext) = 3 /\ f \in Files /\ f \in FilesOf(ext)
  BY <1>1, Sizes, OwnFiles
<1>5. /\ Len(steps') = k /\ steps'[k] = v
      /\ \A i \in 1..Len(steps) : steps'[i] = steps[i]
  BY <1>0, <1>2, <1>3 DEF CaptureStep
<1>6. /\ files \in [Files -> Content] /\ Whole # Absent
      /\ Whole' = Whole /\ Partial' = Partial
  BY <1>1 DEF TypeInv, TypeOK, Whole, Partial, Absent
<1>7. \A g \in Files : g # f => files'[g] = files[g]
  BY <1>3, <1>4, <1>6 DEF CaptureStep
<1>8. files[f] = before[f]
  BY <1>0, <1>1, <1>2 DEF FilesInv, Attempted
<1>9. /\ v = "succeeded" => files'[f] = Whole
      /\ v # "succeeded" => files'[f] \in {before[f], Partial}
  BY <1>3, <1>4, <1>6, <1>8 DEF CaptureStep
<1>10. \A i \in 1..3 : i # k => Outputs[ext][i] # f /\ Outputs[ext][i] \in Files
  BY <1>1, <1>4, Distinct, OwnFiles
<1>11. \A i \in 1..3 : i # k => files'[Outputs[ext][i]] = files[Outputs[ext][i]]
  BY <1>7, <1>10
<1>12. at' \in {"write", "report"}
  BY <1>3 DEF CaptureStep
<1>13. OthersKept'
  BY <1>1, <1>4, <1>7, <1>12 DEF FilesInv, OthersKept
<1>14. Attempted'
  <2>1. \A i \in 1..3 : i > k => i # k /\ i > Len(steps)
    BY <1>0, <1>2
  <2>2. \A i \in 1..3 : i > k => files'[Outputs[ext][i]] = before[Outputs[ext][i]]
    BY <1>1, <1>11, <2>1 DEF FilesInv, Attempted
  <2> QED BY <1>1, <1>5, <1>12, <2>2 DEF Attempted
<1>15. \A i \in 1..k : StepSaved(i)'
  <2>1. StepSaved(k)'
    BY <1>1, <1>5, <1>6, <1>9 DEF StepSaved
  <2>2. ASSUME NEW i \in 1..Len(steps) PROVE StepSaved(i)'
    <3>1. StepSaved(i) /\ i \in 1..3 /\ i # k
      BY <1>0, <1>1, <1>2 DEF FilesInv, StepsSaved
    <3>2. files'[Outputs[ext][i]] = files[Outputs[ext][i]] /\ steps'[i] = steps[i]
      BY <1>5, <1>11, <3>1
    <3> QED BY <1>1, <1>6, <3>1, <3>2 DEF StepSaved
  <2>3. \A i \in 1..k : i = k \/ i \in 1..Len(steps)
    BY <1>0, <1>2
  <2> QED BY <2>1, <2>2, <2>3
<1>16. StepsSaved'
  <2>1. steps' # <<>>
    BY <1>0, <1>2, <1>5
  <2> QED BY <1>5, <1>15, <2>1 DEF StepsSaved
<1> QED BY <1>13, <1>14, <1>16 DEF FilesInv

LEMMA YtDlpFiles ==
  ASSUME TypeInv, FilesInv, YtDlpReturns
  PROVE  FilesInv'
<1>1. /\ at = "fetch" /\ ext = "ytdlp" /\ at' = "look" /\ ext \in Enabled
      /\ UNCHANGED <<run, ext, before, via, steps>>
  BY DEF TypeInv, PlaceOK, YtDlpReturns, unchangedByRun
<1>2. PICK done, begun \in SUBSET FilesOf(ext) :
        files' = [f \in Files |-> IF f \in done THEN Whole
                                 ELSE IF f \in begun THEN Partial ELSE files[f]]
  BY DEF YtDlpReturns
<1>3. Whole' = Whole /\ Partial' = Partial
  BY <1>1 DEF Whole, Partial
<1>4. files = before
  <2>1. via = "direct"
    BY <1>1 DEF TypeInv, TypeOK, Fallback
  <2> QED BY <1>1, <2>1 DEF FilesInv, Attempted
<1>5. \A f \in Files : files'[f] \in {before[f], Whole, Partial}
  BY <1>2, <1>4
<1>6. \A f \in Files \ FilesOf(ext) : files'[f] = before[f]
  BY <1>2, <1>4
<1> QED BY <1>1, <1>3, <1>5, <1>6 DEF FilesInv, OthersKept, Attempted, StepsSaved

LEMMA LookFiles ==
  ASSUME TypeInv, FilesInv, LookForFiles
  PROVE  FilesInv'
<1>1. /\ at = "look" /\ ext = "ytdlp" /\ ext \in Enabled /\ run > 0
      /\ Size(ext) = 2 /\ at' = "report"
      /\ UNCHANGED <<proxy, run, ext, before, files>>
  BY Sizes DEF TypeInv, PlaceOK, LookForFiles, Return, unchangedByRun
<1>2. /\ Outputs[ext][1] = "info.json" /\ Outputs[ext][2] = "vtt"
      /\ "info.json" \in Files /\ "vtt" \in Files
  <2>1. Outputs[ext][1] = "info.json" /\ Outputs[ext][2] = "vtt"
    BY <1>1, Rows
  <2>2. \A i \in 1..2 : Outputs[ext][i] \in Files
    BY <1>1, OwnFiles
  <2> QED BY <2>1, <2>2
<1>3. PICK m, t \in StepStatus : Looked(m, t)
  BY DEF LookForFiles, Looked, StepStatus
<1>4. Len(steps') = 2 /\ steps'[1] = m /\ steps'[2] = t
  BY <1>3 DEF Looked, Return
<1>5. /\ m = "succeeded" => files["info.json"] # Absent
      /\ m # "succeeded" => files["info.json"] = Absent
      /\ t = "succeeded" => files["vtt"] # Absent
      /\ t # "succeeded" => files["vtt"] = Absent
  BY <1>3 DEF Looked
<1>6. \A f \in Files : files[f] = Absent => files[f] = before[f]
  <2>1. Whole # Absent /\ Partial # Absent
    BY <1>1 DEF Whole, Partial, Absent, TypeInv, TypeOK
  <2> QED BY <1>1, <2>1 DEF FilesInv, Attempted
<1>7. StepSaved(1)' /\ StepSaved(2)'
  BY <1>1, <1>2, <1>4, <1>5, <1>6 DEF StepSaved
<1>8. \A i : i \in 1..2 <=> i = 1 \/ i = 2
  OBVIOUS
<1>9. StepsSaved'
  <2>1. steps' # <<>>
    BY <1>4
  <2> QED BY <1>4, <1>7, <1>8, <2>1 DEF StepsSaved
<1>10. OthersKept' /\ Attempted'
  BY <1>1 DEF FilesInv, OthersKept, Attempted
<1> QED BY <1>9, <1>10 DEF FilesInv

LEMMA IdleFiles ==
  ASSUME TypeInv, FilesInv, Report \/ \E f \in Files : DeleteFile(f)
  PROVE  FilesInv'
<1>1. at' = "idle" /\ before' = files'
  BY DEF Report, DeleteFile
<1> QED BY <1>1 DEF FilesInv, OthersKept, Attempted, StepsSaved

LEMMA StepFiles == TypeInv /\ FilesInv /\ [Next]_vars => FilesInv'
<1> SUFFICES ASSUME TypeInv, FilesInv, [Next]_vars PROVE FilesInv'
  OBVIOUS
<1>1. CASE \E e \in Runnable : Begin(e)
  BY <1>1, BeginFiles
<1>2. CASE Extract
  <2>1. CASE ProgramSucceeds \/ ProgramFails \/ RequestFails \/ WriteResponse
    BY <2>1, FetchFiles
  <2>2. CASE ResponseArrives \/ Capture
    BY <2>2, ToWriteFiles
  <2>3. CASE NoTransport \/ NoBrowser \/ CaptureFails
    BY <2>3, LaunchFiles
  <2>4. CASE WriteCapture
    BY <2>4, CaptureFiles
  <2>5. CASE YtDlpReturns
    BY <2>5, YtDlpFiles
  <2>6. CASE LookForFiles
    BY <2>6, LookFiles
  <2> QED BY <1>2, <2>1, <2>2, <2>3, <2>4, <2>5, <2>6 DEF Extract
<1>3. CASE Report \/ \E f \in Files : DeleteFile(f)
  BY <1>3, IdleFiles
<1>4. CASE UNCHANGED vars
  BY <1>4 DEF vars, FilesInv, OthersKept, Attempted, StepsSaved, StepSaved,
              Whole, Partial
<1> QED BY <1>1, <1>2, <1>3, <1>4 DEF Next

----------------------------------------------------------------------------
(* The recorded outputs.                                                   *)

\* The rows that count say what was on disk before the run that goes on.
RowsSaved ==
    \A o \in outputs : Latest(o) /\ o.status = "succeeded" =>
      /\ before[o.file] # Absent
      /\ o.file \notin Globbed => before[o.file] = [by |-> o.by, whole |-> TRUE]

\* A run that goes on has recorded nothing yet.
RowsOfEarlier ==
    \A o \in outputs : o.by <= run /\ (at # "idle" => o.by < run)

RowsInv == RowsSaved /\ RowsOfEarlier

LEMMA InitRows == Init => RowsInv
BY DEF Init, RowsInv, RowsSaved, RowsOfEarlier

\* The first and the last step of a run, and all in between.
LEMMA BeginRows ==
  ASSUME TypeInv, RowsInv, NEW e \in Runnable, Begin(e)
  PROVE  RowsInv'
<1>1. run' = run + 1 /\ outputs' = outputs /\ before' = before
  BY DEF Begin
<1>2. \A o \in outputs : o.by \in Nat /\ run \in Nat
  BY DEF TypeInv, TypeOK, Output
<1>3. RowsSaved'
  BY <1>1 DEF RowsInv, RowsSaved, Latest
<1>4. RowsOfEarlier'
  BY <1>1, <1>2 DEF RowsInv, RowsOfEarlier
<1> QED BY <1>3, <1>4 DEF RowsInv

LEMMA ExtractRows ==
  ASSUME TypeInv, RowsInv, Extract
  PROVE  RowsInv'
<1>1. at # "idle" /\ run' = run /\ outputs' = outputs /\ before' = before
  BY DEF Extract, unchangedByRun, ProgramSucceeds, ProgramFails, ResponseArrives,
         RequestFails, NoTransport, WriteResponse, NoBrowser, CaptureFails,
         Capture, WriteCapture, YtDlpReturns, LookForFiles
<1>2. RowsSaved' /\ RowsOfEarlier'
  BY <1>1 DEF RowsInv, RowsSaved, RowsOfEarlier, Latest
<1> QED BY <1>2 DEF RowsInv

LEMMA ReportRows ==
  ASSUME TypeInv, FilesInv, RowsInv, Report
  PROVE  RowsInv'
<1>1. /\ at = "report" /\ ext \in Enabled /\ ext \in DOMAIN Outputs
      /\ run' = run /\ before' = files /\ outputs' = outputs \cup Recorded
      /\ at' = "idle" /\ run \in Nat
  BY RunnableType DEF TypeInv, TypeOK, PlaceOK, Report, Recorded
<1>2. \A o \in outputs : o.by \in Nat /\ o.by < run /\ o.file \in Files
  BY <1>1 DEF RowsInv, RowsOfEarlier, TypeInv, TypeOK, Output
<1>3. ASSUME NEW o \in Recorded
      PROVE  \E i \in 1..Len(steps) :
               o.by = run /\ o.file = Outputs[ext][i] /\ o.status = steps[i]
  BY DEF Recorded
<1>4. RowsOfEarlier'
  BY <1>1, <1>2, <1>3 DEF RowsOfEarlier
<1>5. ASSUME NEW o \in outputs', Latest(o)', o.status = "succeeded"
      PROVE  /\ files[o.file] # Absent
             /\ o.file \notin Globbed => files[o.file] = [by |-> o.by, whole |-> TRUE]
  <2>1. CASE o \in Recorded
    <3>1. PICK i \in 1..Len(steps) :
            o.by = run /\ o.file = Outputs[ext][i] /\ o.status = steps[i]
      BY <1>3, <2>1
    <3>2. files[o.file] # Absent /\ (ext # "ytdlp" => files[o.file] = Whole)
      BY <1>1, <1>5, <3>1 DEF FilesInv, StepsSaved, StepSaved
    <3>3. CASE ext = "ytdlp"
      <4>1. i \in 1..Len(Outputs["ytdlp"])
        BY <1>1, <3>1, <3>3 DEF TypeInv, PlaceOK, Size
      <4>2. o.file \in Globbed
        BY <3>1, <3>3, <4>1 DEF Globbed, FilesOf
      <4> QED BY <3>2, <4>2
    <3>4. CASE ext # "ytdlp"
      BY <3>1, <3>2, <3>4 DEF Whole
    <3> QED BY <3>3, <3>4
  <2>2. CASE o \in outputs /\ o \notin Recorded
    <3>1. Latest(o)
      BY <1>1, <1>5 DEF Latest
    <3>2. /\ before[o.file] # Absent
          /\ o.file \notin Globbed => before[o.file] = [by |-> o.by, whole |-> TRUE]
      BY <1>5, <2>2, <3>1 DEF RowsInv, RowsSaved
    <3>3. files[o.file] = before[o.file]
      <4>1. CASE o.file \in FilesOf(ext) /\ steps # <<>>
        <5>1. Len(steps) = Len(Outputs[ext])
          BY <1>1, <4>1 DEF TypeInv, PlaceOK, Size
        <5>2. PICK i \in 1..Len(steps) : o.file = Outputs[ext][i]
          BY <4>1, <5>1 DEF FilesOf
        <5> DEFINE q == [by |-> run, file |-> Outputs[ext][i], status |-> steps[i]]
        <5>3. q \in Recorded
          BY DEF Recorded
        <5>4. q.by = run /\ q.file = o.file
          BY <5>2
        <5>5. q.by <= o.by
          BY <1>1, <1>5, <5>3, <5>4 DEF Latest
        <5> QED BY <1>1, <1>2, <2>2, <5>4, <5>5
      <4>2. CASE o.file \notin FilesOf(ext)
        BY <1>1, <1>2, <2>2, <4>2 DEF FilesInv, OthersKept
      <4>3. CASE steps = <<>>
        BY <1>1, <4>3 DEF FilesInv, StepsSaved
      <4> QED BY <4>1, <4>2, <4>3
    <3> QED BY <3>2, <3>3
  <2> QED BY <1>1, <2>1, <2>2
<1>6. RowsSaved'
  BY <1>1, <1>5 DEF RowsSaved
<1> QED BY <1>4, <1>6 DEF RowsInv

\* The rows that name a deleted file go; what is left of the others counts as
\* it did.
LEMMA DeleteRows ==
  ASSUME TypeInv, FilesInv, RowsInv, NEW f \in Files, DeleteFile(f)
  PROVE  RowsInv'
<1>1. /\ at = "idle" /\ at' = at /\ run' = run
      /\ files' = [files EXCEPT ![f] = Absent] /\ before' = files'
      /\ outputs' = {o \in outputs : ~Names(o, f)} /\ files = before
  BY DEF DeleteFile, FilesInv, OthersKept
<1>2. RowsOfEarlier'
  BY <1>1 DEF RowsInv, RowsOfEarlier
<1>3. ASSUME NEW o \in outputs', Latest(o)', o.status = "succeeded"
      PROVE  /\ before'[o.file] # Absent
             /\ o.file \notin Globbed => before'[o.file] = [by |-> o.by, whole |-> TRUE]
  <2>1. o \in outputs /\ o.file # f
    BY <1>1, <1>3 DEF Names
  <2>2. o.file \in Files
    BY <2>1 DEF TypeInv, TypeOK, Output
  <2>3. before'[o.file] = before[o.file]
    BY <1>1, <2>1, <2>2 DEF TypeInv, TypeOK
  <2>4. Latest(o)
    BY <1>1, <1>3, <2>1 DEF Latest, Names
  <2> QED BY <1>3, <2>1, <2>3, <2>4 DEF RowsInv, RowsSaved
<1>4. RowsSaved'
  BY <1>3 DEF RowsSaved
<1> QED BY <1>2, <1>4 DEF RowsInv

ExtractionInv == TypeInv /\ FilesInv /\ RowsInv

LEMMA ExtractionInvariant == Spec => []ExtractionInv
<1>1. Init => ExtractionInv
  BY InitTypes, InitFiles, InitRows DEF ExtractionInv
<1>2. ASSUME ExtractionInv, [Next]_vars PROVE ExtractionInv'
  <2>1. TypeInv' /\ FilesInv'
    BY <1>2, StepTypes, StepFiles DEF ExtractionInv
  <2>2. RowsInv'
    <3>1. CASE \E e \in Runnable : Begin(e)
      BY <1>2, <3>1, BeginRows DEF ExtractionInv
    <3>2. CASE Extract
      BY <1>2, <3>2, ExtractRows DEF ExtractionInv
    <3>3. CASE Report
      BY <1>2, <3>3, ReportRows DEF ExtractionInv
    <3>4. CASE \E f \in Files : DeleteFile(f)
      BY <1>2, <3>4, DeleteRows DEF ExtractionInv
    <3>5. CASE UNCHANGED vars
      BY <1>2, <3>5 DEF ExtractionInv, RowsInv, RowsSaved, RowsOfEarlier, Latest, vars
    <3> QED BY <1>2, <3>1, <3>2, <3>3, <3>4, <3>5 DEF Next
  <2> QED BY <2>1, <2>2 DEF ExtractionInv
<1> QED BY <1>1, <1>2, PTL DEF Spec

\* What is shown as succeeded is on disk, and but for yt-dlp's files whole and
\* from the run that reported it (runOne, handleDeleteFile), for any number of
\* runs.
THEOREM SucceededIsSaved == Spec => []SucceededMeansSaved
<1>1. ExtractionInv => SucceededMeansSaved
  BY DEF ExtractionInv, FilesInv, OthersKept, RowsInv, RowsSaved, SucceededMeansSaved
<1> QED BY <1>1, ExtractionInvariant, PTL

\* A file whose step did not succeed is the old one or a part of a new one, in
\* every extractor; ArchiveDir takes this as FilesAfter.
THEOREM OldFilesStay == Spec => []FailedLeavesOld
<1>1. ExtractionInv => FailedLeavesOld
  BY DEF ExtractionInv, FilesInv, StepsSaved, StepSaved, FailedLeavesOld
<1> QED BY <1>1, ExtractionInvariant, PTL
=============================================================================
