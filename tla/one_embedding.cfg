CONSTANTS
    Requests = {r1, r2}
    Tenants = {t1, t2}
    System = System
    Ips = {ip}
    Invoices = {i1}
    Ttl = 1
    Window = 1
    Limit = 1
    MaxTime = 1
    MaxVersion = 2
    MaxCalls = 2
SPECIFICATION Spec
INVARIANTS OneEmbedding
CHECK_DEADLOCK FALSE
