CONSTANTS
    c1 = c1
    c2 = c2
    Subs <- TwoClients
    Depth = 1
    MaxChunks = 2
SPECIFICATION FairSpec
INVARIANTS TypeOK NoGap TailKept
PROPERTIES ExitReleasesClients CloseReturns
CHECK_DEADLOCK FALSE
