SPECIFICATION MCSpec
CONSTANTS
    j1 = j1
    d1 = d1
    d2 = d2
    p1 = p1
    c1 = c1
    MaxLines = 2
INVARIANT ResultIsTrue
PROPERTIES
    EveryJobSettles
    ArtifactsExpire
    StaleUploadsGo
    AbandonedEnds
    WrapperSettles
CHECK_DEADLOCK FALSE
