CONSTANTS
    Names = {f1, f2, f3}
    BPB_RsvdSecCnt = 1
    BPB_NumFATs = 1
    BPB_FATSz32 = 5
    BPB_TotSec32 = 18
    SectorsPerCluster = 2
    FatEntriesPerSector = 2
    EntriesPerCluster = 5
    FAT32_UNKNOWN = 31
    Handles = {h1}
    MaxOffset = 2
    MaxFaults = 2
    MaxLength = 3
SYMMETRY Symmetry
SPECIFICATION FatSpec
INVARIANTS ChainsEnd FilesAreFound ClaimsAreBacked
PROPERTY FilesPersist
CHECK_DEADLOCK FALSE
