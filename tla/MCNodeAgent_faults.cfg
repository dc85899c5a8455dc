SPECIFICATION Spec
CONSTANTS
    Service = {s1}
    MaxAssignment = 2
    Overlap = FALSE
    PersistMayFail = TRUE
    RemoveMayFail = FALSE
    LeaseMayLapse = TRUE
INVARIANTS
    TypeOK
    SealOnlyWhenStopped
    BillingClosedBeforeSync
    AckedIsDurable
    AckedStopIsSynced
    HeadIsPublished
    ProgressKept
    HeadCarriesProgress
    RunningIsOwned
PROPERTIES
    ReplayReturnsOriginal
