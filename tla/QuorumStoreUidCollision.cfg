\* Clients of the first and the last replica.
CONSTANTS
    N = 3
    ReadQuorum = 2
    WriteQuorum = 2
    Frontends = {0, 2}
    Reachable = {0, 1, 2}
    Puts = {p1, p2}
    Gets = {g1}
    MaxAttempts = 1
    BackoffOutlastsDelivery = TRUE
    NoValue = NoValue
    p1 = p1
    p2 = p2
    p3 = p3
    g1 = g1
    g2 = g2
SPECIFICATION Spec
PROPERTIES GlobalCommitCommits
