SPECIFICATION Spec
CONSTANTS
    p1 = p1
    p2 = p2
    Projects = {p1, p2}
    MaxThreads = 2
    MaxReviews = 1
    MaxMounts = 2
    MaxTurns = 2
    MaxSlips = 1
INVARIANTS OwnThread KickoffFresh
PROPERTY SendingEnds
CHECK_DEADLOCK FALSE
