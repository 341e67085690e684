CONSTANTS
    Challenge = {c1, c2}
    Worker = {w1, w2}
    MaxFailedLogins = 2
    OtpMaxAttempts = 2
    OtpMaxSends = 2
    GuessCap = 3
    Consumed = Consumed
    None = None
SYMMETRY Symmetry
VIEW Distinct
SPECIFICATION BothSpec
INVARIANTS
    TypeOK
    CountersUnderLimits
    LiveChallengeIsMailed
    GrantedIsSpent
    StrictGuessBudget
PROPERTIES
    NewestChallengeWins
    LockSurvives
