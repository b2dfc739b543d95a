CONSTANTS
    capacity = 5
    MaxWrite = 7
    MaxBytes = 26
SPECIFICATION RingSpec
INVARIANTS RingTypeOK SnapshotIsTail
CHECK_DEADLOCK FALSE
