SPECIFICATION Spec
CONSTANTS
    Nil = Nil
    Keys = {1, 2, 3}
    NumLevels = 4
    MaxMemCompactLevel = 2
    L0Trigger = 2
    BaseBytes = 2
    Multiplier = 2
    MaxFileSize = 2
    GrandParentLimit = 1
    ExpandLimit = 4
    MaxSeq = 5
    MaxCalls = 1
    Types = {FALSE}
    ManualLevels = {1}
INVARIANT ReadsCorrect
CHECK_DEADLOCK FALSE
