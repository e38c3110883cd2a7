CONSTANTS
    MaxNumber = 3
    MaxText = 4
    Factor = 2
    HighValue = 2
    MaxUnusual = 2
    MaxHighValue = 2
    MaxGroups = 2
    MaxAlerts = 3
    MaxKey = 3
    Cutoff = 2
    MaxBytes = 1
    MaxName = 2
    Inputs <- Bounded
SPECIFICATION Spec
INVARIANTS
    BatchesAreRight
    DashboardIsRight
    NamesAreMatched
    EInvoicesAreRead
    UploadsAreServed
    MaskingIsUndone
    ListsAreRight
CHECK_DEADLOCK FALSE
