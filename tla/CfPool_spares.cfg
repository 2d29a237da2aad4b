\* Both tiers, with and without --cf-balance: two clients of one bucket.
SPECIFICATION FairSpec
CONSTANTS
    d1 = d1
    d2 = d2
    NoKey = NoKey
    Setups <- EverySetup
    Keys = {k1}
    Domains <- TwoDomains
    PoolSize = 1
    Clients = {c1, c2}
    DialResults = {"connected", "failed"}
INVARIANTS
    SpareThroughProvenRoute
PROPERTIES
    ImplementsSparePool
    ReservationReleased
