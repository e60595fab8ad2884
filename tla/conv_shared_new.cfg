\* A replica joins a table of which only another shard has replicas.
SPECIFICATION Spec
CONSTANTS
    N = 3
    ShardOf <- TwoShards
    PathOf <- OnePath
    Values = {0, 1}
    None = None
    Desired <- DesiredReplicated
    NoUnmanaged = 0
    Configurations <- Adopted
    StartTables <- Replicated
    Meddling = {"drop"}
    MaxDrift = 0
    MaxFaults = 0
    MaxChanges = 0
INVARIANTS
    JoiningReplicaAccepted
CHECK_DEADLOCK FALSE
