\* Create, replacement, recreation and destroy of a table with rows, with and without force_destroy.
SPECIFICATION Spec
CONSTANTS
    N = 2
    ShardOf <- TwoReplicas
    PathOf <- ReplicaPair
    Values = {0, 1}
    None = None
    Desired <- DesiredLocal
    NoUnmanaged = 0
    Configurations <- Lifecycle
    StartTables <- Unalterable
    Meddling = {"drop", "create", "insert"}
    MaxDrift = 1
    MaxFaults = 1
    MaxChanges = 1
INVARIANTS
    SuccessMeansConverged
    DestroyedMeansGone
PROPERTIES
    ForeignTablesUntouched
    RowsKept
CHECK_DEADLOCK FALSE
