\* A walk, a single name and a direct connect over two edges or none.
SPECIFICATION FairSpec
CONSTANTS
    e1 = e1
    e2 = e2
    e3 = e3
    d1 = d1
    d2 = d2
    c1 = c1
    c2 = c2
    Anycast = anycast
    IpLists <- SomeLists
    DirectSets <- SomeDirect
    Domains <- Repeated
    FirstDomains = {2}
    Networks <- SomeNetworks
    Calls = {c1, c2}
    Kinds <- WalkAndOther
    MaxChanges = 1
INVARIANTS
    SteadyEdgeServes
    AttemptDials
    DomainsCovered
    FlagsTell
PROPERTIES
    Recovers
