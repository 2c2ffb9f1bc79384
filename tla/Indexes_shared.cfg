SPECIFICATION IndexesSpec
CONSTANTS
    p1 = p1
    p2 = p2
    platform = platform
    designer = designer
    None = None
    Procs <- TwoProcs
    Files <- OneFile
    PageCount <- MCPageCount
    MaxClock = 2
    Faults <- FaultKinds
    path1 = path1
    path2 = path2
    plain = plain
    nested = nested
    NoRow = NoRow
    NoRoots = NoRoots
    DumpPaths <- TwoPaths
    DumpClock = 3
    DumpFaults <- DumpFileFaults
SYMMETRY Symmetry
INVARIANTS
    TypeOK
    ClosedForGood
    CacheFaithful
    ReadyHasWholeIndex
PROPERTIES
    ImplementsHelpCache
    DiscardsOnlyBrokenCache
