SPECIFICATION Spec
CONSTANTS
    Message = {m1, m2}
    Number <- MCNumber
    UserJid = {}
    Jid = {g1}
    CheckUserExists = TRUE
    None = None
    MaxCrashes = 1
    MaxMoves = 0
PROPERTY
    ConsumerBlocks
CHECK_DEADLOCK FALSE
