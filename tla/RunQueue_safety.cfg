\* One worker, every fault but a failing StartRun or FinishRun statement.
SPECIFICATION Spec
CONSTANTS
    Workers = {w1}
    Pipelines <- MCPipelines
    Terminal = {"failed", "succeeded"}
    MaxSnapshots = 2
    MaxRuns = 4
    Faults = {"crash", "load", "hang", "add"}
    MaxFaults = 1
INVARIANTS
    TypeOK
    SingleRunning
    LockHeldWhileIndexing
PROPERTIES
    StartsInOrder
    ExecutedOnce
    ImplementsContract
\* A drained queue with nobody submitting has no next step.
CHECK_DEADLOCK FALSE
