CONSTANTS
    Consumer = {c1, c2, c3}
    Key <- MCKey
    Stamp <- MCStamp
    MaxAge = 1
    MaxEntries = 1
    ScanLimit = 1
    MaxTime = 2
SYMMETRY ConsumerSymmetry
SPECIFICATION Spec
INVARIANTS
    AcceptedIsRemembered
    BoundedOvershoot
PROPERTIES
    AcceptedOnce
CHECK_DEADLOCK FALSE
