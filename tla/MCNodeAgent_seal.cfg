SPECIFICATION Spec
CONSTANTS
    Service = {s1}
    MaxAssignment = 2
    Overlap = FALSE
    PersistMayFail = TRUE
    RemoveMayFail = TRUE
    LeaseMayLapse = TRUE
INVARIANTS
    SealOnlyWhenStopped
