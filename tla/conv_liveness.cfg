\* Applying again after failures and drift converges the nodes of two shards.
SPECIFICATION FairSpec
CONSTANTS
    N = 3
    ShardOf <- TwoShards
    PathOf <- PathPerShard
    Values = {0, 1}
    None = None
    Desired <- DesiredReplicated
    NoUnmanaged = 0
    Configurations <- Adopted
    StartTables <- Replicated
    Meddling = {"drop", "alter"}
    MaxDrift = 1
    MaxFaults = 1
    MaxChanges = 0
PROPERTIES
    EventuallyConverged
CHECK_DEADLOCK FALSE
