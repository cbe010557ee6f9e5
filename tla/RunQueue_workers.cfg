\* Two workers (two serve processes on one database), no fault.
SPECIFICATION FairSpec
CONSTANTS
    Workers = {w1, w2}
    Pipelines <- MCPipelines
    Terminal = {"failed", "skipped"}
    MaxSnapshots = 2
    MaxRuns = 3
    Faults = {}
    MaxFaults = 0
INVARIANTS
    RunningMeansExecuting
    ClaimsAlone
PROPERTIES
    EveryRunFinishes
CHECK_DEADLOCK FALSE
