\* Files when writes fail.
CONSTANTS
    Word = 128
    DiskSectors = 30
    FS_PARTITION_LBA = 3
    EntriesPerSector = 2
    BaseLength = 1
    ExtLength = 1
    n1 = n1
    n2 = n2
    NumClusters = 4
    NumRoot = 1
    NumFats = 2
    NumSlots = 3
    ClusterBytes = 2
    Names <- TwoNames
    Bytes = {"a", "b"}
    Buffers <- SmallBuffers
    Ops = {"mkdir", "create", "write"}
    WriteFaults = TRUE
    Crashes = {"mkdir", "create", "write"}
SPECIFICATION Spec
SYMMETRY NamesMatter
INVARIANTS ReachableSafe RootIntact SizeMatchesChain WriteIsRead
