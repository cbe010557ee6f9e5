\* Three processes open one database, of any release, and stop at any time.
SPECIFICATION Spec
CONSTANTS
    Processes = {p1, p2, p3}
SYMMETRY MCSymmetry
INVARIANTS
    TypeOK
    ServingLatest
    SchemaInOrder
