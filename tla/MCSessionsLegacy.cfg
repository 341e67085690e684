CONSTANTS
    Credential = {a}
    Session = {s1, s2}
    Token = {t1, t2, t3}
    Worker = {w1, w2}
    Legacy = {t1}
    Expiring = {t1}
    SingleSession = FALSE
    None = None
SYMMETRY Symmetry
SPECIFICATION Spec
INVARIANTS
    OneSessionPerFamily
PROPERTIES
    IsRefreshChain
