\* A table that is adopted, altered, replaced and dropped, with an operator who goes on.
SPECIFICATION FairSpec
CONSTANTS
    N = 2
    Keys = {0, 1}
    Columns = {0, 1}
    Settings = {0, 1}
    NoTable = None
    None = None
    Live = Live
    Configs <- Tables
    Objects <- Tables
    Statements <- TableStatements
    Edits <- TwoKeys
    ReadAs <- TableReadAs
    StatementKept <- TableKept
    MustReplace <- TableMustReplace
    Creation <- CreateStatement
    Removal <- DropStatement
    Alterations <- TableAlterations
    Accepts <- TableAccepts
    After <- TableAfter
    AdoptExisting = TRUE
    StartObjects <- Outdated
    OtherStatements <- OtherTable
    MaxDrift = 3
    MaxFaults = 1
    MaxChanges = 1
INVARIANTS
    TypeOK
    ReviewedWritesOnly
    UndisturbedPlanApplies
PROPERTIES
    EventuallyApplied
CHECK_DEADLOCK FALSE
