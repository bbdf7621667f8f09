SPECIFICATION ViewSpec
CONSTANTS
    ViewRows <- AllViews
    MaxRefetches = 2
    KnownFalse <- FalseEmpties
    KnownLoaders <- EndlessLoaders
    KnownCrashes <- Crashing
INVARIANTS EmptyIsTold
PROPERTY LoadingEnds
CHECK_DEADLOCK FALSE
