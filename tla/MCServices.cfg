SPECIFICATION MCSpec
CONSTANTS
    c1 = c1
    c2 = c2
    Calls <- MCCalls
    PerMinute = 1
    Attempts = 2
    MaxRedirects = 1
    Chunks = 2
    MaxVersion = 2
    MaxSide = 4
    MaxPixels = 12
    MaxEdits = 2
    Margin = 1
INVARIANTS
    TypesOK
    ArtifactIsOneVersion
    BrowserEndsWithCall
    SlotsExact
    NothingLeft
    ErrorStoresNothing
    EnginesAgree
    WorkerIsReaped
VIEW PartView
SYMMETRY Symmetry
CHECK_DEADLOCK FALSE
