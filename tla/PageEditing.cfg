SPECIFICATION Spec
CONSTANTS
    e1 = e1
    e2 = e2
    Editors = {e1, e2}
    Requests = 2
    Sessions <- MCSessions
    MaxEdits = 2
    MaxRevisions = 4
INVARIANTS TypeOK NoForgottenEdit
PROPERTIES NoSilentOverwrite AutosaveArrives
CHECK_DEADLOCK FALSE
