CONSTANTS
    MaxProcesses = 3
    MaxLoads = 4
    Addresses = {1, 2, 3, 4}
    Workloads <- MCWorkloads
    Contexts = 2
SPECIFICATION Spec
INVARIANTS
    TypeOK
    ListIsTheLiveTasks
    CurrentIsLive
    TableConsistent
    ContextIntact
    PanicOnlyWhenEmpty
PROPERTIES
    EveryProcessRuns
