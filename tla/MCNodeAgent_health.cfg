SPECIFICATION Spec
CONSTANTS
    Service = {s1}
    MaxAssignment = 2
    Overlap = FALSE
    PersistMayFail = TRUE
    RemoveMayFail = FALSE
    LeaseMayLapse = TRUE
INVARIANTS
    StartedOnlyIfHealthy
