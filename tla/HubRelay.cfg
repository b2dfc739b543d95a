SPECIFICATION FairSpec
CONSTANTS
    a = a
    b = b
    c1 = c1
    c2 = c2
    Orgs = {a, b}
    Callers = {c1, c2}
    Home <- MCHome
    MaxAttempts = 2
    Faults = {"frames", "link"}
    None = None
INVARIANTS TypeOK HealthyOwned StoreSound
PROPERTY ImplementsRemoteCall
CHECK_DEADLOCK FALSE
