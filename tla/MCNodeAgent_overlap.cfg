SPECIFICATION Spec
CONSTANTS
    Service = {s1}
    MaxAssignment = 2
    Overlap = TRUE
    PersistMayFail = FALSE
    RemoveMayFail = TRUE
    LeaseMayLapse = FALSE
CONSTRAINT
    NoSessions
INVARIANTS
    AckedIsDurable
