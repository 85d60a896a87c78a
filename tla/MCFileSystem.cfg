\* Seven sectors are free after formatting; files and subdirectories come and go
\* until the directory or the disk is full.
CONSTANTS
    NumSectors = 11
    SectorSize = 2
    NumDirect = 2
    Names = {a, b, c}
    MaxDepth = 2
    Sizes = {4, 5}
    FreeMapFileSize = 2
    DirectoryFileSize = 2
    NumDirEntries = 2
    MaxCrashes = 0
SPECIFICATION Spec
INVARIANTS TypeOK SectorsOwnedOnce WritesReadBack CreateSucceedsIffRoom
PROPERTIES ImplementsTree
SYMMETRY NameSymmetry
\* The disk fills up and nothing is left to remove.
CHECK_DEADLOCK FALSE
