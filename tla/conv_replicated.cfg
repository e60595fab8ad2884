\* Update and adoption of replicas of one table in two shards of the cluster.
SPECIFICATION Spec
CONSTANTS
    N = 3
    ShardOf <- TwoShards
    PathOf <- OnePath
    Values = {0, 1}
    None = None
    Desired <- DesiredReplicated
    NoUnmanaged = 0
    Configurations <- Adopted
    StartTables <- Replicated
    Meddling = {"drop", "create", "alter"}
    MaxDrift = 1
    MaxFaults = 1
    MaxChanges = 0
INVARIANTS
    TypeOK
    SuccessMeansConverged
    NewReplicaAccepted
    StructureAlteredOnce
CHECK_DEADLOCK FALSE
