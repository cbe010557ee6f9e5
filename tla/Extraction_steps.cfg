\* Three runs of any extractors, each of which may fail, and deletions.
SPECIFICATION Spec
CONSTANTS
    Enabled = {"curl", "wget", "headers", "obelisk_proxy", "ytdlp", "chromedp"}
    MaxRuns = 3
INVARIANTS
    TypeOK
    SucceededMeansSaved
    FailedLeavesOld
    StatusFromSteps
