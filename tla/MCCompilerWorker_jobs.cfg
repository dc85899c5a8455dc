CONSTANTS
    Job <- TwoJobs
    Envelope <- MCEnvelope
    NoEnvelope <- MCNoEnvelope
    MaxDelay = 2
    AttemptCap = 2
    Loop = {l1}
    Archive = {a1, a2, a3}
    Bulky = {a3}
    NoArchive = NoArchive
    ClockSkew = 1
    MaxLifetime = 2
    MaxFaults = 2
    MaxDeliveries = 2
SPECIFICATION FairSpec
INVARIANTS
    CompilerTypeOK
    AckedJobIsKept
    AttemptOwnsRecord
    BoundBeforeStored
    PublishedIsStored
PROPERTIES
    ImplementsLifecycle
    AcceptedJobFinishes
CHECK_DEADLOCK FALSE
