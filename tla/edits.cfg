SPECIFICATION FairSpec
CONSTANTS
    i1 = i1
    i2 = i2
    n1 = n1
    n2 = n2
    n3 = n3
    v1 = v1
    v2 = v2
    v3 = v3
    m1 = m1
    m2 = m2
    u1 = u1
    u2 = u2
    k1 = k1
    k2 = k2
    a1 = a1
    a2 = a2
    t1 = t1
    t2 = t2
    t3 = t3
    Null = Null
    NoUser = NoUser
    NoAccount = NoAccount
    Default = Default
    NoMapping = NoMapping
    Invoices = {i1, i2}
    Numbers = {n1, n2, n3}
    Vendors = {v1, v3}
    Amounts = {m1, m2}
    Users = {u1}
    Keys = {k1, k2}
    Accounts = {a1, a2}
    Tasks = {t1, t2}
    Payloads <- EveryKind
    Einvoices <- OneEinvoice
    Initial <- TwoInvoices
    Normalized <- TwoSpellings
    Batches <- TwoLines
    MaxEdits = 3
    MaxRequests = 4
INVARIANTS
    TrailAgrees
    ReviewAgrees
PROPERTIES
    EditIsExact
    EveryEditEnds
CHECK_DEADLOCK FALSE
