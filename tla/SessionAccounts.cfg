SPECIFICATION Spec
CONSTANTS
    Account = {a1, a2}
    Password = {p1}
    LoginVC = {l1}
    RegisterVC = {r1}
    Slot = {s1, s2}
    Nil = Nil
SYMMETRY Interchangeable
INVARIANTS
    KeychainAgrees
    ProfileConsistent
PROPERTIES
    OrphanForever
