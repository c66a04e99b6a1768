\* Majorities, two front ends, two puts that may be retried once, one get;
\* replicas 1 and 2 may refuse connections.
CONSTANTS
    N = 3
    ReadQuorum = 2
    WriteQuorum = 2
    Frontends = {0, 1}
    Reachable = {0}
    Puts = {p1, p2}
    Gets = {g1}
    MaxAttempts = 2
    BackoffOutlastsDelivery = TRUE
    NoValue = NoValue
    p1 = p1
    p2 = p2
    p3 = p3
    g1 = g1
    g2 = g2
SPECIFICATION Spec
SYMMETRY Symmetry
INVARIANTS TypeOK LockDiscipline  VersionsUnique OnlyCommittedStored UidsUnique
PROPERTIES StoreGrows Linearizable
