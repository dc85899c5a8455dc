CONSTANTS
    Job <- OneJob
    Envelope <- MCEnvelope
    NoEnvelope <- MCNoEnvelope
    MaxDelay = 1
    AttemptCap = 1
    Loop = {l1}
    Archive = {a1}
    Bulky = {}
    NoArchive = NoArchive
    ClockSkew = 1
    MaxLifetime = 2
    MaxFaults = 1
    MaxDeliveries = 1
SPECIFICATION Spec
INVARIANTS
    NoContradictoryFailure
CHECK_DEADLOCK FALSE
