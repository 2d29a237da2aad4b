\* One client of the proxy tier with --cf-balance.
SPECIFICATION Spec
CONSTANTS
    d1 = d1
    d2 = d2
    NoKey = NoKey
    Setups <- BalancedProxy
    Keys = {k1}
    Domains <- TwoDomains
    PoolSize = 1
    Clients = {c1}
    DialResults = {"connected"}
INVARIANT SpareDialsRecord
