SPECIFICATION Spec
CONSTANTS
    Callers = {c1, c2, c3, c4}
    Keys = {k1, k2}
    Addresses = {a1, a2, a3, a4, a5, a6}
    Nil = Nil
SYMMETRY Symmetry
INVARIANTS
    TypeOK
    HeldIsRegistered
