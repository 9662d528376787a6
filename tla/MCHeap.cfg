CONSTANTS
    BlockSize = 4
    HeapBytes = 20
    HeapStart = 8
    Word = 64
    Sizes = {1, 4, 5, 9}
    Slack = 3
    Junk = {{}, {"TAKEN", "NEXT"}}
SPECIFICATION Spec
INVARIANTS
    TypeOK
    Exclusive
    TableMatchesLive
    ScanAgrees
PROPERTIES
    FreeReleasesExactly
    OverrunOnlyWhenFull
    ImplementsAllocator
