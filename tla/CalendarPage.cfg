SPECIFICATION Spec
CONSTANTS
    p1 = p1
    p2 = p2
    NoIteration = NoIteration
    NotMounted = NotMounted
    Projects = {p1, p2}
    Iterations <- MCIterations
    Drafts <- MCDrafts
    Existing <- MCExisting
    Present = 0
    Months = {0, 1}
    Reach = 3
    MaxChanges = 1
    MaxMishaps = 1
INVARIANTS GridStays AllShown
PROPERTY GridReturns
CHECK_DEADLOCK FALSE
