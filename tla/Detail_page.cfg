\* A browser, every fault of the queue and of the data; pipelines that change; what
\* follows the deletion of the snapshot is left out.
SPECIFICATION PSpec
CONSTANTS
    Workers = {w1}
    Pipelines <- MCPipelines
    Terminal = {"failed", "succeeded", "skipped"}
    MaxSnapshots = 1
    MaxRuns = 2
    Faults = {"crash", "load", "start", "finish", "hang", "add"}
    MaxFaults = 1
    Titles = {"t1"}
    TitleOrder <- MCTitleOrder
    Requests = {}
    DataFaults = {"record", "title", "index", "write"}
    MaxDataFaults = 1
CONSTRAINT SnapshotNotDeleted
INVARIANTS
    SettledPageIsFinal
    SettledTitleIsCurrent
    SettledPageLinks
    WorkerHoldsLock
CHECK_DEADLOCK FALSE
