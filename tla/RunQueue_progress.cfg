\* One worker, every fault but an extractor that hangs.
SPECIFICATION FairSpec
CONSTANTS
    Workers = {w1}
    Pipelines <- MCPipelines
    Terminal = {"failed"}
    MaxSnapshots = 2
    MaxRuns = 3
    Faults = {"crash", "load", "start", "finish", "add"}
    MaxFaults = 2
PROPERTIES
    PendingProgress
CHECK_DEADLOCK FALSE
