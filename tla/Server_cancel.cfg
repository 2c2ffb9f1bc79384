SPECIFICATION ServerSpec
CONSTANTS
    c1 = c1
    c2 = c2
    query = query
    metadata = metadata
    p1 = p1
    List = List
    Calls <- MCCalls
    Methods <- MCMethods
    OkTtl = 2
    FailTtl = 1
    Timeout = 1
    Tasks <- MCTasks
    Tools <- MCTools
    Check = "check"
    MaxSize = 1
    MaxChunk = 2
    MaxAnswer = 2
    MaxRequests = 2
    Envs <- MCEnvs
    Flags <- MCFlags
    NoFile = NoFile
    Unreadable = Unreadable
    Nothing = Nothing
    Default = 5
    Procs <- OneProc
    MaxKits = 12
    Absent = Absent
    Empty = Empty
    Faults = {"crash"}
INVARIANTS
    EveryCallLeavesEvent
CHECK_DEADLOCK FALSE
