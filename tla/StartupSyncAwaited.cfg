\* One of three replicas starts beside a put.
CONSTANTS
    N = 3
    WriteQuorum = 2
    Joining = {2}
    Frontends = {0}
    Keys = {k1, k2}
    Puts = {p1}
    KeyOf <- MCKeyOf
    Data = {old, new}
    InitialStores <- MCInitialStores
    NoValue = NoValue
    k1 = k1
    k2 = k2
    p1 = p1
    p2 = p2
    old = old
    new = new
SPECIFICATION FairSpec
PROPERTIES SyncAnswered
\* A put that waits for the vote of the replica stops both.
CHECK_DEADLOCK FALSE
