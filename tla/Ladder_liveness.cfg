\* One class behind one address, one Worker; liveness without expiry.
SPECIFICATION FairSpec
CONSTANTS
    k1 = k1
    k2 = k2
    k3 = k3
    ip1 = ip1
    w1 = w1
    w2 = w2
    d1 = d1
    u1 = u1
    None = None
    Conns = {c1, c2}
    Classes = {k1}
    Ips = {ip1}
    TargetIp <- OneClass
    Builtin = {k1}
    Pins <- NoPin
    Workers <- OneWorker
    CfDomains <- NoNames
    Upstreams <- NoNames
    CfBalance = FALSE
    Expiring = {}
    MaxChanges = 3
PROPERTIES
    Routed
    IpCooldownHeals
