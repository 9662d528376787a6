CONSTANTS
    Procs = {p1, p2}
    BufferSize = 2
    Word = 4
    TypeAhead = 3
SPECIFICATION Spec
INVARIANTS
    TypeOK
    ZeroMarksFreeSlots
PROPERTIES
    ImplementsKeyQueue
