SPECIFICATION FairSpec
CONSTANTS
    f1 = f1
    f2 = f2
    n1 = n1
    n2 = n2
    i1 = i1
    i2 = i2
    t1 = t1
    t2 = t2
    t3 = t3
    NoNumber = NoNumber
    NoInvoice = NoInvoice
    NoRow = NoRow
    Files = {f1, f2}
    XmlFiles = {f2}
    Einvoice <- PdfEinvoice
    Numbers = {n1, n2}
    Unstorable = {}
    Invoices = {i1, i2}
    Tasks = {t1, t2}
    MaxTriggers = 2
    MaxCrashes = 0
INVARIANTS
    CompletedIsLinked
    ContentIntact
PROPERTIES
    EinvoiceLinkKept
    EventuallySettled
CHECK_DEADLOCK FALSE
