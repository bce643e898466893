SPECIFICATION FairSpec
CONSTANTS
    Nil = Nil
    Keys = {1, 2}
    NumLevels = 4
    MaxMemCompactLevel = 2
    L0Trigger = 2
    BaseBytes = 1
    Multiplier = 4
    MaxFileSize = 2
    GrandParentLimit = 2
    ExpandLimit = 4
    MaxSeq = 4
    MaxCalls = 1
    Types = {TRUE, FALSE}
    ManualLevels = {0, 1}
INVARIANTS TypeOK ReadsNewest LevelsSound SizesExact
PROPERTY Settles
CHECK_DEADLOCK FALSE
