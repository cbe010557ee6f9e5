\* No fault: a snapshot deleted while the worker archives it.
SPECIFICATION DSpec
CONSTANTS
    Workers = {w1}
    Pipelines <- MCPipeline
    Terminal = {"failed", "succeeded", "skipped"}
    MaxSnapshots = 1
    MaxRuns = 2
    Faults = {}
    MaxFaults = 0
    Titles = {"t1"}
    TitleOrder <- MCTitleOrder
    Requests = {}
    DataFaults = {}
    MaxDataFaults = 0
INVARIANTS
    DeletedLeavesNothing
CHECK_DEADLOCK FALSE
