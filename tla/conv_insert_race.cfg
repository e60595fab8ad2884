\* A client inserts rows between the guard and the drop.
SPECIFICATION Spec
CONSTANTS
    N = 2
    ShardOf <- TwoReplicas
    PathOf <- ReplicaPair
    Values = {0, 1}
    None = None
    Desired <- DesiredLocal
    NoUnmanaged = 0
    Configurations <- Unforced
    StartTables <- RowsOrNot
    Meddling = {"insert"}
    MaxDrift = 1
    MaxFaults = 0
    MaxChanges = 0
PROPERTIES
    RowsKeptUnderInserts
CHECK_DEADLOCK FALSE
