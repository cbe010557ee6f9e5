\* No fault: a delete-file request, reruns and the worker.
SPECIFICATION DSpec
CONSTANTS
    Workers = {w1}
    Pipelines <- MCPipeline
    Terminal = {"failed", "succeeded", "skipped"}
    MaxSnapshots = 1
    MaxRuns = 2
    Faults = {}
    MaxFaults = 0
    Titles = {"t1"}
    TitleOrder <- MCTitleOrder
    Requests = {q1}
    DataFaults = {}
    MaxDataFaults = 0
INVARIANTS
    DeleteFileKeepsSync
CHECK_DEADLOCK FALSE
