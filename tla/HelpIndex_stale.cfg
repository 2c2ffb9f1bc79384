SPECIFICATION Spec
CONSTANTS
    p1 = p1
    p2 = p2
    platform = platform
    designer = designer
    None = None
    Procs <- TwoProcs
    Files <- OneFile
    PageCount <- MCPageCount
    MaxClock = 2
    Faults <- FaultKinds
SYMMETRY Symmetry
INVARIANTS
    ServedIsCurrent
