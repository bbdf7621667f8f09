SPECIFICATION Spec
CONSTANTS
    Tabs = {t1, t2}
    Users = {u1}
    Calls = {c1}
    MaxSessions = 2
    NetworkMayFail = TRUE
INVARIANTS NothingStranded LiveIsHeld
PROPERTIES RefusedByOthers LoadingEnds LoginLeads
CHECK_DEADLOCK FALSE
