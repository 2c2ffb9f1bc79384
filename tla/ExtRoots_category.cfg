SPECIFICATION RootsSpec
CONSTANTS
    Tops <- MCTops
    ManifestNames = {"Pos", "Rep"}
    Unnamed = Unnamed
    Broken = Broken
    MaxNested = 1
    MaxReads = 2
INVARIANTS
    CategoryFinds
CHECK_DEADLOCK FALSE
