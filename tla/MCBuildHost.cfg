CONSTANTS
    Candidate <- MCCandidate
    Upstream <- MCUpstream
    RuntimeJava = {"java-runtime-delta-21"}
    RuntimeRevision = "r1"
    PrimaryCoordinate <- MCPrimaryCoordinate
    ServerCoordinate <- MCServerCoordinate
    MaxAttempts = 3
    Materializer = {m1, m2}
    Resolution <- MCResolution
    JreId = "java-runtime-delta-21"
    MaxTotal = 2
    Before <- MCBefore
    Forbidden <- MCForbidden
    MaxPathLen = 12
    MaxFiles = 6
    MaxFileBytes = 4
    MaxSandboxBytes = 4
    MaxPackageInputBytes = 8
    MaxPackageTarBytes = 30
    MaxPackageArchiveBytes = 63
    TarBlock = 2
    NameLimit = 6
    PrefixLimit = 6
    ZstdBlock = 4
    MaxBundleEntries = 9
    MaxEntryBytes = 8
    MaxRatio = 5
    Builder = {b1}
    Input <- MCInput
    InstallerOutput <- MCInstallerOutput
    Fold <- MCFold
SPECIFICATION FairSpec
INVARIANTS
    LockIsReviewable
    MaterializedRootVerifies
    InstallerRunsVerifiedRoot
    AcceptedBundleIsExact
    OutputIsExactUnion
    ArchiveRoundTrips
    SizeBudgetSuffices
PROPERTIES
    RootNeverReplaced
    BuildEnds
