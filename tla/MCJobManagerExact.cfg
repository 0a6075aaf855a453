SPECIFICATION Spec
CONSTANTS
    j1 = j1
    j2 = j2
    c1 = c1
    c2 = c2
    Jobs <- MCJobs
    Calls <- MCCalls
    keysOf <- OwnKeys
    Limit = 1
    MaxRestarts = 0
INVARIANT LimitExact
CHECK_DEADLOCK FALSE
