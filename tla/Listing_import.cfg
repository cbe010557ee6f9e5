\* Import, a worker, deletions and a reader of the list and the search side by side.
CONSTANTS
    Half = 1000000000
    Times <- MCTimes
    Titles = {"t1", "t2"}
    Archives <- MCArchives
    Copied <- MCCopied
    MaxOps = 3
    DefaultSize = 1
    MaxLimit = 2
    Asked <- MCAsked
    Queries = {"t1"}
SPECIFICATION ListSpec
INVARIANTS
    ListTypeOK
    RowMatchesIndex
    DeletedIsFinal
    NothingSkipped
    EachOnce
    SearchFinds
PROPERTIES
    ImportReflectsDisk
    ImplementsTable
CHECK_DEADLOCK FALSE
