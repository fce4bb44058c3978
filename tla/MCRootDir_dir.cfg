\* Two clusters of two sectors.
CONSTANTS
    NumRoot = 2
    SecPerClus = 2
    SlotsPerSec = 1
    n1 = n1
    n2 = n2
    Names <- TwoNames
    BadReads = 2
    WriteFaults = TRUE
SPECIFICATION Spec
SYMMETRY NamesMatter
INVARIANT ScansAreRight
PROPERTY RefinesDirectory
