SPECIFICATION FairSpec
CONSTANTS
    Phone = {p1, p2}
    Key = {1}
    PushId = {1}
    MaxBreaks = 1
    MaxOthers = 1
    Nobody = Nobody
CHECK_DEADLOCK FALSE
INVARIANTS
    TypeOK
    NoDuplicateChat
    NothingLost
    QuietConverged
PROPERTIES
    SettlesOnline
