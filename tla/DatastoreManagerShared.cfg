\* Transactions and repairs at the same time, one restart.
CONSTANTS
    Keys = {k1, k2}
    Transactions = {t1, t2}
    Repairs = {x1, x3}
    KeyOf <- MCKeyOf
    MaxVersion = 3
    LoadDatastore = TRUE
    MaxStarts = 2
    NoValue = NoValue
    k1 = k1
    k2 = k2
    t1 = t1
    t2 = t2
    t3 = t3
    x1 = x1
    x2 = x2
    x3 = x3
SPECIFICATION FairSpec
INVARIANTS TypeOK LockedByPrepared FileNotAhead
PROPERTIES FileGrows CloseReturns
\* The process ends.
CHECK_DEADLOCK FALSE
