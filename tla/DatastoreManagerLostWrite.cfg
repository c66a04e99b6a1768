\* A commit between the two reads of pending.
CONSTANTS
    Keys = {k1, k2}
    Transactions = {t1}
    Repairs = {}
    KeyOf <- MCKeyOf
    MaxVersion = 1
    LoadDatastore = TRUE
    MaxStarts = 1
    NoValue = NoValue
    k1 = k1
    k2 = k2
    t1 = t1
    t2 = t2
    t3 = t3
    x1 = x1
    x2 = x2
    x3 = x3
SPECIFICATION Spec
INVARIANTS ClosedMeansSaved
\* The process ends.
CHECK_DEADLOCK FALSE
