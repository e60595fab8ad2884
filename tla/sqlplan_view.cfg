\* A view that is created, replaced in place and dropped, without adoption.
SPECIFICATION Spec
CONSTANTS
    N = 2
    Queries = {1, 2}
    NotSet = 0
    NoView = None
    None = None
    Live = Live
    Configs <- ViewConfigs
    Objects <- Views
    Statements <- ViewStatements
    Edits <- TwoQueries
    ReadAs <- ViewReadAs
    StatementKept <- ViewKept
    MustReplace <- ViewMustReplace
    Creation <- CreateViewStatement
    Removal <- DropView
    Alterations <- ViewAlterations
    Accepts <- ViewAccepts
    After <- ViewAfter
    AdoptExisting = FALSE
    StartObjects <- OtherView
    OtherStatements <- Interference
    MaxDrift = 2
    MaxFaults = 1
    MaxChanges = 1
INVARIANTS
    ReviewedWritesOnly

CHECK_DEADLOCK FALSE
