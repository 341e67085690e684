CONSTANTS
    Credential = {a}
    Session = {s1, s2}
    Token = {t1, t2}
    Worker = {w1, w2}
    Legacy = {}
    Expiring = {}
    SingleSession = TRUE
    None = None
    Address = {d1, d2}
    Admin = {u1, u2}
    Endpoints = 2
    Attempts = 2
    NoAddress = NoAddress
SPECIFICATION ProgressSpec
INVARIANTS
    EventsTypeOK
    ReceiversKeepUp
PROPERTIES
    EveryRequestEnds
    EveryEmitEnds
