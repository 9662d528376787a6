CONSTANTS
    BlockSize = 4
    HeapBytes = 16
    HeapStart = 8
    Word = 64
    Sizes = {4, 5}
    Slack = 2
    Junk = {{}, {"TAKEN", "NEXT"}}
    Procs = {p1, p2}
    MaxAllocations = 2
    MaxArgs = 2
    ArgvEntry = 2
    ArgSize = 4
SPECIFICATION Spec
INVARIANTS
    TypeOK
    HeldIsTaken
    NothingLeaks
    WriteIsolation
