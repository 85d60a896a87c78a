\* One file in the root is created and removed.
CONSTANTS
    NumSectors = 11
    SectorSize = 2
    NumDirect = 2
    Names = {a}
    MaxDepth = 1
    Sizes = {4, 5}
    FreeMapFileSize = 2
    DirectoryFileSize = 2
    NumDirEntries = 2
    MaxCrashes = 0
SPECIFICATION Spec
INVARIANTS RemoveFreesAll
CHECK_DEADLOCK FALSE
