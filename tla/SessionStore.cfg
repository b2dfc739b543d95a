CONSTANTS
    a = a
    b = b
    Ids <- MCIds
    MaxCrashes = 1
SPECIFICATION FairSpec
INVARIANTS TypeOK LiveRowKept LiveRowNamed
CHECK_DEADLOCK FALSE
