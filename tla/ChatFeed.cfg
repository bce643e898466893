SPECIFICATION Spec
CONSTANTS
    Phone = {p1, p2}
    Key = {1, 2}
    PushId = {1, 2}
    MaxBreaks = 1
    MaxOthers = 0
    Nobody = Nobody
CHECK_DEADLOCK FALSE
INVARIANTS
    SenderOrder
PROPERTIES
    ImplementsBoard
