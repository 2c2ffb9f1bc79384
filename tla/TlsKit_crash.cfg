SPECIFICATION KitSpec
CONSTANTS
    p1 = p1
    Procs <- OneProc
    MaxKits = 2
    Absent = Absent
    Empty = Empty
    Faults = {"crash"}
INVARIANTS
    CaMeansReady
