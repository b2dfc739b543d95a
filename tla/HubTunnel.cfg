SPECIFICATION FairSpec
CONSTANTS
    Runners = {u1, u2}
    MaxTunnels = 2
    Requests = {r1}
    None = None
INVARIANTS TypeOK LookupFindsOpen OpenIsRegistered WaiterReachable
PROPERTIES OpenRegistersOrNotices ImplementsRemoteCall
CHECK_DEADLOCK FALSE
