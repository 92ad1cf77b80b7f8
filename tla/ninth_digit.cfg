SPECIFICATION Spec
CONSTANTS
    Message = {m1}
    Number <- MCNineOfEight
    UserJid = {u1}
    Jid = {}
    CheckUserExists = TRUE
    None = None
    MaxCrashes = 0
    MaxMoves = 0
INVARIANT
    FailedHasNoAccount
CHECK_DEADLOCK FALSE
