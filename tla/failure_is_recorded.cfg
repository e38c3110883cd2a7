SPECIFICATION Spec
CONSTANTS
    f1 = f1
    f2 = f2
    n1 = n1
    n2 = n2
    i1 = i1
    i2 = i2
    t1 = t1
    t2 = t2
    t3 = t3
    NoNumber = NoNumber
    NoInvoice = NoInvoice
    NoRow = NoRow
    Files = {f1}
    XmlFiles = {}
    Einvoice <- AllPlain
    Numbers = {n1}
    Unstorable = {n1}
    Invoices = {i1}
    Tasks = {t1}
    MaxTriggers = 0
    MaxCrashes = 0
SYMMETRY Symmetry
PROPERTIES
    FailureIsRecorded
CHECK_DEADLOCK FALSE
