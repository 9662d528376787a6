CONSTANTS
    BlockSize = 4
    HeapBytes = 256
    HeapStart = 52
    Word = 324
    Sizes = {}
    Slack = 4
    Junk = {{}}
    Entries = 9
    FileSet <- MCFileSet
    Burdens <- MCBurdens
    MaxLoads = 3
    MaxProcesses = 2
    ProgramAddress = 28
    StackEnd = 20
    StackSize = 8
    VideoAddress = 12
    VideoSize = 3
SPECIFICATION Spec
INVARIANTS
    TypeOK
    AddressSpace
    Isolation
    SegmentBytes
    ElfBounds
    LeftBehind
    CrashNeedsLeaks
CHECK_DEADLOCK FALSE
