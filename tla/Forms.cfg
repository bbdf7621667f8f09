SPECIFICATION Spec
CONSTANTS
    FormRows <- AllForms
    MaxDrafts = 2
    MaxSubmits = 2
    MaxOthers = 1
    KnownDoubles <- Doubles
    KnownLosses <- MCKnownLosses
    KnownStale <- StaleDrafts
INVARIANTS CreatedOnce
PROPERTIES TypedStays 
CHECK_DEADLOCK FALSE
