\* The volume itself, under every operation, Ctrl-C and power loss.
CONSTANTS
    Word = 128
    DiskSectors = 30
    FS_PARTITION_LBA = 3
    EntriesPerSector = 2
    BaseLength = 1
    ExtLength = 1
    n1 = n1
    n2 = n2
    NumClusters = 5
    NumRoot = 2
    NumFats = 2
    NumSlots = 3
    ClusterBytes = 1
    Names <- TwoNames
    Bytes = {"a"}
    Buffers <- BlockBuffers
    Ops = {"mkdir", "rmdir", "create", "write", "append"}
    WriteFaults = FALSE
    Crashes = {"mkdir", "rmdir", "create", "write", "append"}
SPECIFICATION Spec
SYMMETRY NamesMatter
PROPERTIES OnlyItsEntry
INVARIANTS TypeOK ChainsInv MirrorAgree EndMarker DirInitialised UniqueFileNames
