CONSTANTS
    b1 = b1 b2 = b2 e1 = e1 f1 = f1 own = own
    Resets = {b1, b2}
    Extractions = {e1}
    Uploads = {f1}
    FileOf <- MCFileOf
    NumberIn = {1, own}
    Slots = {1, 2}
    Booked = {1}
    None = None
SPECIFICATION FairSpec
INVARIANTS
    DataAreSound
    OldIsWiped
    ExtractedHasFile
PROPERTIES
    EveryTransactionEnds
CHECK_DEADLOCK FALSE
