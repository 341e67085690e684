CONSTANTS
    Credential = {a}
    Session = {s1, s2}
    Token = {t1, t2}
    Worker = {w1, w2}
    Legacy = {}
    Expiring = {}
    SingleSession = TRUE
    None = None
SYMMETRY Symmetry
SPECIFICATION NothingFails
INVARIANTS
    BurnedFamilyIsRevoked
