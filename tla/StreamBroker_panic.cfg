CONSTANTS
    s1 = s1
    s2 = s2
    p1 = p1
    p2 = p2
    NoMap = NoMap
    Cap = 1
    Mixes <- MCMixes
    Streams <- MCStreams
    Publishers <- MCPublishers
SPECIFICATION Spec
INVARIANTS NoPanic
CHECK_DEADLOCK FALSE
