CONSTANTS
    Path = {"mods", "scripts", "config", "world", "nether"}
    ConfigPath = {"config"}
    WorldGroup <- MCWorldGroup
    Version = {1, 2, 3, 4, 5}
    Irregular = {5}
    Bytes <- MCBytes
    Layer <- MCLayer
    Seed <- MCSeed
    Session <- MCSession
    Orders <- MCOrders
    Limit = 5
    MaxArchive = 3
    MaxPaths = 4
    MaxBlobs = 3
    MaxManifest = 4
    MaxAssignment = 2
    None = None
SPECIFICATION FairSpec
INVARIANTS
    PublishedRestores
PROPERTIES
    RestoredIsWhole
    CommandsComplete
