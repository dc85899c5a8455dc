SPECIFICATION FairSpec
CONSTANTS
    Service = {s1}
    MaxAssignment = 1
    Overlap = FALSE
    PersistMayFail = FALSE
    RemoveMayFail = FALSE
    LeaseMayLapse = TRUE
PROPERTIES
    LeaseLossEndsProcess
