SPECIFICATION Spec
CONSTANTS
    Account = {a1}
    Password = {p1}
    LoginVC = {l1}
    RegisterVC = {r1}
    Slot = {s1}
    Nil = Nil
INVARIANTS
    TitleFollowsLogin
