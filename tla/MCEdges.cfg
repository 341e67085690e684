CONSTANTS
    i1 = i1
    i2 = i2
    e1 = e1
    e2 = e2
    Account = {a1, a2}
    Email = {e1, e2}
    Identity = {i1, i2}
    Key = {k1}
    State = {s1, s2, s3}
    Worker = {w1, w2}
    Addresses <- GoogleAddresses
    None = None
    none = none
    two = two
    Slot = {none, two}
    Window = 3
    Limit <- Ceilings
    Absent = Absent
    Deployment <- Deployments
    Process = {p1, p2}
    SigningKey = {g1, g2}
    Injected = Injected
    NoKey = NoKey
    Torn = Torn
    Tab = {b1, b2}
    Cookie = {c1, c2, c3}
    CookiePath <- CookiePaths
    NoCookie = NoCookie
    ResetToken = {r1, r2}
    Mailer = {m1, m2}
    NoToken = NoToken
SPECIFICATION EdgesSpec
SYMMETRY Symmetry
VIEW Distinct
CONSTRAINT Callbacks
INVARIANTS
    TypeOK
    OneAnswerPerKey
    IdentityKeepsAccount
    StatePassesOnce
    InTurnKeyNamesOneAccount
    LimiterTypeOK
    AtMostTwiceTheCeiling
    StartupTypeOK
    OneKeyPerDeployment
    ServingCanDeliver
    BrowserTypeOK
    HonestBrowserIsNotBurned
    LogoutEndsWhereItReaches
    ResetsTypeOK
    UndeliveredIsReported
PROPERTIES
    ImplementsFixedWindow
    NothingLingers
    ServedStartsAgain
    SpentTokensStayOut
