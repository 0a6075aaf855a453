SPECIFICATION Spec
CONSTANTS
    j1 = j1
    j2 = j2
    Jobs <- MCJobs
    keysOf <- MCKeys
    Rerun <- MCRerun
    MaxFaults = 1
INVARIANTS
    TypeOK
    ExclusiveCommands
    NoMutualRefusal
    AtMostOnce
    CanceledIsQuiet
    SucceededIsQuiet
PROPERTIES
    ImplementsExecution
    ImplementsStatus
CHECK_DEADLOCK FALSE
