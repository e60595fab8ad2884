\* A plan without SQL after the columns of a view left the configuration.
SPECIFICATION Spec
CONSTANTS
    N = 1
    Queries = {1, 2}
    NotSet = 0
    NoView = None
    None = None
    Live = Live
    Configs <- ViewConfigs
    Objects <- Views
    Statements <- ViewStatements
    Edits <- ColumnsOrNot
    ReadAs <- ViewReadAs
    StatementKept <- ViewKept
    MustReplace <- ViewMustReplace
    Creation <- CreateViewStatement
    Removal <- DropView
    Alterations <- ViewAlterations
    Accepts <- ViewAccepts
    After <- ViewAfter
    AdoptExisting = TRUE
    StartObjects <- OtherView
    OtherStatements <- Drops
    MaxDrift = 1
    MaxFaults = 0
    MaxChanges = 2
INVARIANTS
    EmptyPlanWritesNothing

CHECK_DEADLOCK FALSE
