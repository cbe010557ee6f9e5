\* A crash against "crash-safe and resumable".
SPECIFICATION FairSpec
CONSTANTS
    Workers = {w1}
    Pipelines <- MCPipelines
    Terminal = {"failed"}
    MaxSnapshots = 2
    MaxRuns = 3
    Faults = {"crash"}
    MaxFaults = 1
PROPERTIES
    EveryRunFinishes
CHECK_DEADLOCK FALSE
