SPECIFICATION FairSpec
CONSTANTS
    N = 2
    Partitions = {1, 2}
    v = v
    w = w
    Rows <- MCRows
    Declarations <- MCDeclarations
    NoRows = NoRows
    NoTable = NoTable
    Unseen = Unseen
    Differ = Differ
    None = None
    MaxChanges = 1
    MaxDrift = 1
    MaxFaults = 1
INVARIANTS
    TypeOK
    QuietWriteSucceeds
    DriftSeen
PROPERTIES
    NeverEmptied
    ImplementsDeclared
    EventuallyHeld
CHECK_DEADLOCK FALSE
