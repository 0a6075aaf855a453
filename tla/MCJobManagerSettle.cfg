SPECIFICATION Spec
CONSTANTS
    j1 = j1
    j2 = j2
    c1 = c1
    c2 = c2
    Jobs <- OneJob
    Calls <- MCCalls
    keysOf <- OneKey
    Limit = 1
    MaxRestarts = 0
INVARIANT SettlesOnce
CHECK_DEADLOCK FALSE
