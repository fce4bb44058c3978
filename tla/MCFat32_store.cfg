\* What a program sees of files and directories under Ctrl-C and power loss.
CONSTANTS
    Word = 128
    DiskSectors = 30
    FS_PARTITION_LBA = 3
    EntriesPerSector = 2
    BaseLength = 1
    ExtLength = 1
    n1 = n1
    n2 = n2
    NumClusters = 3
    NumRoot = 1
    NumFats = 1
    NumSlots = 3
    ClusterBytes = 2
    Names <- TwoNames
    Bytes = {"a", "b"}
    Buffers <- SmallBuffers
    Ops = {"mkdir", "rmdir", "create", "write", "append"}
    WriteFaults = FALSE
    Crashes = {"mkdir", "rmdir", "create", "write"}
SPECIFICATION FairSpec
PROPERTIES RefinesFileStore CallsEnd
INVARIANTS NoLeak SizeMatchesChain
