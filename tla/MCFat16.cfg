CONSTANTS
    Disks <- MCDisks
    SectorSize = 2
    ReservedSectors = 8
    FatCopies = 1
    SectorsPerFat = 19
    RootDirEntries = 8
    SectorsPerCluster = 2
    ItemSize = 2
    Items <- MCItems
    FAT <- MCFat
    Strays = {0, 8}
    Leftovers = {0}
    Requests <- MCRequests
    Reads <- MCReads
    Offsets = {1, 7}
    Whence = {"SEEK_SET", "SEEK_CUR", "SEEK_END", "SEEK_OTHER"}
    MaxOpen = 2
    MaxBeside = 0
    MaxPos = 2
    MaxObjects = 9
SPECIFICATION Spec
INVARIANTS
    TypeOK
    OpenFindsListed
    ReadsTheFile
    WildNeedsTrouble
PROPERTIES
    LostOnlyOffTheTidyPath
CHECK_DEADLOCK FALSE
