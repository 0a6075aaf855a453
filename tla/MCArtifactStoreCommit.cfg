SPECIFICATION Spec
CONSTANTS
    d1 = d1
    d2 = d2
    r1 = r1
    r2 = r2
    p1 = p1
    p2 = p2
    Dirs <- MCDirs
    Reservations <- OneReservation
    Publishers <- OnePublisher
    Quota = 1
    MaxSize = 1
    MaxDays = 1
    MaxCrashes = 1
PROPERTY
    CommitSurvivesCrash
CHECK_DEADLOCK FALSE
