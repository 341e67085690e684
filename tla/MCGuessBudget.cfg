CONSTANTS
    Challenge = {c1, c2}
    Worker = {w1}
    MaxFailedLogins = 3
    OtpMaxAttempts = 3
    OtpMaxSends = 2
    GuessCap = 4
    Consumed = Consumed
    None = None
SPECIFICATION Spec
INVARIANTS
    GuessBudget
