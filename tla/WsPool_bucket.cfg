\* One bucket, two clients, a clock that lets entries age.
SPECIFICATION Spec
CONSTANTS
    Keys = {k1}
    WarmKeys = {k1}
    PoolSize = 2
    MaxAge = 1
    Clients = {c1, c2}
    Tasks = {t1, t2}
    PoolConnectConcurrency = 2
    WarmupBucketConcurrency = 2
    AllowRefill = {TRUE, FALSE}
    DialResults = {"connected", "failed"}
    NoKey = NoKey
    MaxTime = 2
SYMMETRY Symmetry
INVARIANTS
    SingleFlight
    FdBudget
PROPERTIES
    ImplementsSparePool
