CONSTANTS
    MaxProcesses = 3
    MaxLoads = 4
    Addresses = {1, 2, 3, 4}
    Workloads <- MCThree
    Contexts = 1
SPECIFICATION Spec
INVARIANTS
    NextIsInTheList
