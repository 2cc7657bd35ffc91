CONSTANTS
    ClusterCount = 2
    EntriesPerFatBlock = 2
    BlocksPerCluster = 1
    BlockSize = 2
    RootBlocks = 2
    EntriesPerBlock = 1
    MultiBlock = FALSE
    Names = {a, b}
    MaxSize = 3
    Stamps = {{"access", "write"}}
    Overfull = FALSE
SPECIFICATION Spec
INVARIANT AsPromised
INVARIANT ChainsKept
SYMMETRY NameSymmetry
