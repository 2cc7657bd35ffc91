CONSTANTS
    ClusterCount = 4
    EntriesPerFatBlock = 3
    BlocksPerCluster = 2
    BlockSize = 2
    RootBlocks = 2
    EntriesPerBlock = 1
    DataLog = "data.log"
    Other = "other"
    MultiBlock = FALSE
    Names = {"data.log", "other"}
    LineLength = 3
    MaxLines = 5
    MaxTransfers = 16
    FaultKinds = {"power", "pulled", "glitch"}
    MaxFaults = 2
SPECIFICATION Spec
INVARIANT SoundCard
PROPERTY PromiseKept
PROPERTY GoodPassStores
CHECK_DEADLOCK FALSE
