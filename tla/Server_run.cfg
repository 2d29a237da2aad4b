\* All three modes, with the automatic limit: 48 descriptors leave five connections, 20 are fewer
\* than the reserve, and 255 stands for no limit.
SPECIFICATION FairSpec
CHECK_DEADLOCK FALSE   \* a run that has returned stops
CONSTANTS
    AutoLimit = AutoLimit
    FdLimits = {20, 48, 255}
    PoolSize = 1
    DcBuckets = 2
    MaxConnections = AutoLimit
    Modes = {"serve", "probes", "listener"}
    UsizeMax = 255
    RuntimeReservedFds = 32
    UnlimitedMaxConnections = 8
    MinMaxConnections = 4
    MaxBacklog = 2
INVARIANTS
    PermitsConserved
    FdsWithinLimit
    VerdictReported
PROPERTIES
    ShutdownReturns
    CheckRunEnds
