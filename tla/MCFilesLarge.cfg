CONSTANTS
    FAT <- MCFatLarge
    SectorSize = 2
    ClusterSize = 4
    FatStart = 8
    DataStart = 2048
    Directory <- MCDirectory
    ItemsPerCluster = 2
    RootCluster = 2
    BaseLength = 2
    NameLength = 3
    MaxHops = 4
    Requests <- MCRequests
    MaxPath = 10
    MaxDescriptors = 3
    Sizes = {0, 3}
    Counts = {1, 2}
    Offsets = {0}
    Whence = {"SEEK_SET", "SEEK_CUR", "SEEK_END"}
SPECIFICATION Spec
INVARIANT ZeroMeansLast
