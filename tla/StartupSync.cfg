\* Two of four replicas start, among two puts.
CONSTANTS
    N = 4
    WriteQuorum = 3
    Joining = {2, 3}
    Frontends = {0}
    Keys = {k1, k2}
    Puts = {p1, p2}
    KeyOf <- MCKeyOf
    Data = {old, new}
    InitialStores <- MCInitialStores
    NoValue = NoValue
    k1 = k1
    k2 = k2
    p1 = p1
    p2 = p2
    old = old
    new = new
SPECIFICATION FairSpec
INVARIANTS TypeOK KeysLearned CommitsKept
PROPERTIES VersionsGrow StartsUnlessAwaited
\* A put that waits for a replica that synchronises may stop everything.
CHECK_DEADLOCK FALSE
