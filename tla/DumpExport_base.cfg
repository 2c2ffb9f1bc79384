SPECIFICATION ExportSpec
CONSTANTS
    ExtNames <- MCNamesToo
    Fold <- MCFold
    RejectedNames = {"Ext"}
    StandardDirs = {"ext"}
    MaxRuns = 1
INVARIANTS
    BaseSurvives
CHECK_DEADLOCK FALSE
