\* Two buckets against a warmup concurrency of one; liveness.
SPECIFICATION FairSpec
CONSTANTS
    Keys = {k1, k2}
    WarmKeys = {k1, k2}
    PoolSize = 1
    MaxAge = 1
    Clients = {c1}
    Tasks = {t1, t2}
    PoolConnectConcurrency = 2
    WarmupBucketConcurrency = 1
    AllowRefill = {TRUE, FALSE}
    DialResults = {"connected", "failed"}
    NoKey = NoKey
    MaxTime = 0
PROPERTIES
    ReservationReleased
    DemandServed
