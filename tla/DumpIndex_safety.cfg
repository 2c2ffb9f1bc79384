SPECIFICATION Spec
CONSTANTS
    p1 = p1
    p2 = p2
    plain = plain
    nested = nested
    NoRow = NoRow
    NoRoots = NoRoots
    Paths <- MCPaths
    Roots <- MCRoots
    MaxClock = 3
    Faults <- FaultKinds
SYMMETRY PathSymmetry
INVARIANTS
    TypeOK
    CacheFaithful
    ReadyIndexIsCurrent
