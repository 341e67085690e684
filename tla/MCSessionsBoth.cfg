CONSTANTS
    Credential = {a}
    Session = {s1, s2}
    Token = {t1, t2, t3, t4}
    Worker = {w1, w2}
    Legacy = {}
    Expiring = {}
    SingleSession = TRUE
    None = None
SYMMETRY Symmetry
SPECIFICATION BothSpec
INVARIANTS
    TypeOK
    RotationIsLinear
    EndedSessionsAreDead
    LiveSessionKeepsToken
    RacelessReuseBurns
    RacelessSignInSupersedes
    RacelessDisableSignsOut
PROPERTIES
    EndedStaysEnded
