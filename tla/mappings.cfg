SPECIFICATION Spec
CONSTANTS
    k1 = k1
    k2 = k2
    a1 = a1
    a2 = a2
    t1 = t1
    t2 = t2
    t3 = t3
    Default = Default
    NoMapping = NoMapping
    Keys = {k1}
    Accounts = {a1, a2}
    Tasks = {t1, t2, t3}
    Batches <- TwoInvoices
    MaxRequests = 6
SYMMETRY Symmetry
INVARIANTS
    CountIsEarned
    ExportIsEarned
CHECK_DEADLOCK FALSE
