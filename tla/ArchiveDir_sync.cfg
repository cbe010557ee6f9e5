\* One worker, two delete-file requests, every fault but hanging, of the queue and of
\* the data; what happens to a snapshot that is disturbed is left out.
SPECIFICATION DSpec
CONSTANTS
    Workers = {w1}
    Pipelines <- MCPipeline
    Terminal = {"failed", "succeeded", "skipped"}
    MaxSnapshots = 1
    MaxRuns = 3
    Faults = {"crash", "load", "start", "finish", "add"}
    MaxFaults = 1
    Titles = {"t1"}
    TitleOrder <- MCTitleOrder
    Requests = {q1, q2}
    DataFaults = {"request", "record", "title", "index", "write", "remove"}
    MaxDataFaults = 1
SYMMETRY MCSymmetry
CONSTRAINT SomeSnapshotUndisturbed
INVARIANTS
    DataOK
    IndexInSync
    FinishedIsIndexed
    TornOnlyWhileLocked
    NoDanglingFile
CHECK_DEADLOCK FALSE
