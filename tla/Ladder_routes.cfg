\* Two pinned classes, one of them without a --dc-ip target, and one on the default ladder.
SPECIFICATION Spec
CONSTANTS
    k1 = k1
    k2 = k2
    k3 = k3
    ip1 = ip1
    w1 = w1
    w2 = w2
    d1 = d1
    u1 = u1
    None = None
    Conns = {c1, c2}
    Classes = {k1, k2, k3}
    Ips = {ip1}
    TargetIp <- SharedTarget
    Builtin = {k1, k2, k3}
    Pins <- TwoPins
    Workers <- TwoWorkers
    CfDomains <- OneDomain
    Upstreams <- OneUpstream
    CfBalance = TRUE
    Expiring = {k1, ip1, w1}
    MaxChanges = 3
SYMMETRY Symmetry
INVARIANTS
    ReachableTierServes
    PinnedDropDialled
