\* A device that may fail to store a sector it has taken.
CONSTANTS
    Lba = {1, 2}
    Data = {a, b}
    Words = 2
    CommitFaults = TRUE
SPECIFICATION Spec
INVARIANT AckedIsStored
