SPECIFICATION FairSpec
CONSTANTS
    Account = {a1}
    Password = {p1}
    LoginVC = {l1, l2}
    RegisterVC = {r1}
    Slot = {s1, s2}
    Nil = Nil
INVARIANTS
    TypeOK
    ScreensNest
    HomeSignedIn
    SenderKnown
PROPERTIES
    LoginLeaves
    RequestsSettle
