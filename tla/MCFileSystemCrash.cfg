\* Files of two headers and subdirectories come and go in a directory of two
\* entries, and the machine stops twice in the middle of a call.
CONSTANTS
    NumSectors = 11
    SectorSize = 2
    NumDirect = 2
    Names = {a, b, c}
    MaxDepth = 2
    Sizes = {5}
    FreeMapFileSize = 2
    DirectoryFileSize = 2
    NumDirEntries = 2
    MaxCrashes = 2
SPECIFICATION Spec
INVARIANTS CompletedFilesIntact
SYMMETRY NameSymmetry
\* The disk fills up and nothing is left to remove.
CHECK_DEADLOCK FALSE
