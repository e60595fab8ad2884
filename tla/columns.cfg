\* Every table and every configuration of up to three columns.
SPECIFICATION Spec
CONSTANTS
    Names = {"a", "b", "c", "d", "u"}
    Unmanaged = {"u"}
    Referenced = {"b"}
    Starts <- SmallTables
    Configurations <- SmallConfigs
    Foreign <- TwoColumns
    MaxDrift = 1
    MaxFaults = 1
INVARIANTS
    TypeOK
    PreviewAgrees
    StatementsAccepted
    AppliedUpToOrder
    OrderIgnored
PROPERTIES
    UnmanagedKept
CHECK_DEADLOCK FALSE
