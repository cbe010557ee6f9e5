\* Two workers against the sentence "two workers never interleave writes".
SPECIFICATION Spec
CONSTANTS
    Workers = {w1, w2}
    Pipelines <- MCPipelines
    Terminal = {"failed"}
    MaxSnapshots = 1
    MaxRuns = 3
    Faults = {}
    MaxFaults = 0
INVARIANTS
    NoIndexInterleaving
CHECK_DEADLOCK FALSE
