CONSTANTS
    ClusterCount = 4
    EntriesPerFatBlock = 3
    BlocksPerCluster = 1
    BlockSize = 2
    RootBlocks = 1
    EntriesPerBlock = 2
    MultiBlock = FALSE
    Names = {a, b}
    MaxDepth = 2
    MaxChanges = 5
    SDCards = {12288, 12289, 14336, 32768, 32769, 65536, 65537, 131072, 131073, 262144, 262145, 524289, 1032193, 2064385, 2097152, 2097153, 4063232, 4128769, 4194303, 4194304}
    SDHCCards = {1048576, 2097152, 2098176, 4130816, 8257536, 8258560, 16777216, 62333952, 67108864, 67109888, 124735488}
    Texts <- MCTexts
    Delims <- MCDelims
    Sizes = {0, 1, 3}
    Numbers <- MCNumbers
    Word = 256
    PosMax = 127
    Widths = {4}
    Fills = {" ", "0"}
    MaxTaken = 2
SPECIFICATION Spec
INVARIANT TreeKept
INVARIANT FormatKept
INVARIANT StreamKept
SYMMETRY NameSymmetry
