SPECIFICATION MCSpec
CONSTANTS
    n1 = n1
    o1 = o1
    o2 = o2
    o3 = o3
    j1 = j1
    j2 = j2
    c1 = c1
    c2 = c2
    Nodes <- OneNode
    Ops <- ThreeOps
    Kinds <- AllKinds
    Manifests <- Replicated
    Initial <- AnyVersion
    MaxCuts = 1
    Jobs <- MCJobs
    Calls <- MCCalls
VIEW PartView
SYMMETRY Symmetry
CONSTRAINT NamedInTurn
INVARIANTS
    TypesOK
    MutationsExclusive
    ReceiptIsTrue
    CallsKeepTheirVersion
    KeysAreHeld
    ActivatedIsWhole
    NoGap
CHECK_DEADLOCK FALSE
