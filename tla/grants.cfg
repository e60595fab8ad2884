SPECIFICATION FairSpec
CONSTANTS
    Resources = {1, 2}
    Single = {"CREATE", "DROP", "READ", "WRITE"}
    Groups = {"DDL", "S3"}
    Sources = {"S3"}
    Members <- MCMembers
    RoleName = "role"
    Databases = {"db", "db2"}
    Prefixes <- MCPrefixes
    All = "*"
    None = None
    Declarations <- MCDeclarations
    MaxEvents = 1
INVARIANTS
    TypeOK
    RecordedMeansHeld
PROPERTIES
    CoveredNotRecorded
    CoveredTold
    EventuallySettled
CHECK_DEADLOCK FALSE
