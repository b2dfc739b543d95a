CONSTANTS
    a = a
    worker = worker
    Ids <- MCOneId
    Names <- MCNames
    NameOf <- MCNameOf
    MaxCrashes = 1
SPECIFICATION HFairSpec
INVARIANTS HTypeOK MisshownIsNewborn
PROPERTIES OrphanSwept
CHECK_DEADLOCK FALSE
