SPECIFICATION FairSpec
CONSTANTS
    Service = {s1}
    MaxAssignment = 2
    Overlap = FALSE
    PersistMayFail = FALSE
    RemoveMayFail = FALSE
    LeaseMayLapse = FALSE
PROPERTIES
    CommandsAcknowledged
    LeaseLossEndsProcess
