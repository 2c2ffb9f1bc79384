SPECIFICATION FairIndexesSpec
CONSTANTS
    p1 = p1
    p2 = p2
    platform = platform
    designer = designer
    None = None
    Procs <- OneProc
    Files <- TwoFiles
    PageCount <- MCPageCount
    MaxClock = 3
    Faults <- FaultKinds
    path1 = path1
    path2 = path2
    plain = plain
    nested = nested
    NoRow = NoRow
    NoRoots = NoRoots
    DumpPaths <- OnePath
    DumpClock = 2
    DumpFaults <- AllDumpFaults
INVARIANTS
    ServedIsCurrent
PROPERTIES
    BuildSettles
    CloseReturns
    DumpBuildSettles
    AdmittedSearchReturns
