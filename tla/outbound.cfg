SPECIFICATION FairSpec
CONSTANTS
    Message = {m1, m2}
    Number <- MCNumber
    UserJid = {}
    Jid = {g1}
    CheckUserExists = TRUE
    None = None
    MaxCrashes = 1
    MaxMoves = 1
INVARIANTS
    TypeOK
    StatusTruthful
    AtMostOnce
    DestinationAnswered
PROPERTIES
    MessagesEnd
    ImplementsOutbox
CHECK_DEADLOCK FALSE
