CONSTANTS
    ResetToken = {r1, r2}
    Mailer = {m1, m2}
    NoToken = NoToken
SPECIFICATION NothingFails
CHECK_DEADLOCK FALSE
PROPERTIES
    ResetTokensAreSingleUse
