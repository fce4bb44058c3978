\* Two sectors of two words.
CONSTANTS
    Lba = {1, 2}
    Data = {a, b}
    Words = 2
    CommitFaults = FALSE
SPECIFICATION FairSpec
INVARIANTS ReadIsWritten AckedIsStored
PROPERTY CallReturns
