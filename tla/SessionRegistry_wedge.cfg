CONSTANTS
    n1 = n1
    n2 = n2
    s1 = s1
    s2 = s2
    c1 = c1
    c2 = c2
    None = None
    Pending = Pending
    Names <- MCNames
    Ids <- MCIds
    Callers <- MCCallers
    Requests <- SpawnAndHandoff
SPECIFICATION FairSpec
PROPERTIES ReservationResolved
CHECK_DEADLOCK FALSE
