\* Every replica votes; one of them is stopped and started again.
CONSTANTS
    N = 3
    WriteQuorum = 3
    Frontends = {0, 1}
    Puts = {p1, p2}
    MaxStops = 1
    NoValue = NoValue
    p1 = p1
    p2 = p2
SPECIFICATION FairSpec
INVARIANTS TypeOK LocksExplained AckedKept AckedVersionsUnique OnlyDecidedVisible
PROPERTIES GatheringEnds
\* Locks that stopped coordinators leave behind may stop everything.
CHECK_DEADLOCK FALSE
