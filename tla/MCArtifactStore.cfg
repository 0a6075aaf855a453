SPECIFICATION Spec
CONSTANTS
    d1 = d1
    d2 = d2
    r1 = r1
    r2 = r2
    p1 = p1
    p2 = p2
    Dirs <- MCDirs
    Reservations <- MCReservations
    Publishers <- MCPublishers
    Quota = 3
    MaxSize = 2
    MaxDays = 1
    MaxCrashes = 1
SYMMETRY Symmetry
INVARIANTS
    TypeOK
    ReadableIsWhole
    QuotaHeld
PROPERTIES
    FailedBatchLeavesNothing
CHECK_DEADLOCK FALSE
